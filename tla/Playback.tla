------------------------------ MODULE Playback ------------------------------
(***************************************************************************)
(* Playback of one guild: the music service (internal/music/service.go,    *)
(* service_enqueue.go, service_voteskip.go), the guild's Queue and the     *)
(* Linkdave player that mirrors the audio node (internal/linkdave/player.go *)
(* and the read loop of client.go).                                        *)
(*                                                                         *)
(* Processes.  discordgo runs every interaction in a goroutine of its own, *)
(* so any number of Handlers execute service methods at once; the single   *)
(* Reader is the WebSocket read loop, which runs the track-end hook to its *)
(* end before it reads the next event.  A step is one critical section     *)
(* (q.mu, p.mu, clockMu, voteMu) or one REST call.  pc[p] names the next   *)
(* one and arg[p] holds the locals that live across steps: the tracks the  *)
(* process still has to play or append.                                    *)
(*                                                                         *)
(* The voice session is up throughout: joining and leaving is modelled     *)
(* elsewhere.                                                              *)
(***************************************************************************)
EXTENDS GuildQueue, FiniteSets

CONSTANTS
  Handlers,       \* interaction goroutines; each also stands for its user
  Reader,         \* the WebSocket read loop
  Commands,       \* the commands users issue, a subset of AllCommands
  RequestSizes,   \* how many tracks one /play may resolve to
  Audience,       \* listener counts a vote may find in the voice channel
  EndReasons,     \* how the node may end a track by itself
  OneAtATime,     \* TRUE: users and tracks wait until everything is quiet
  MaxRequests,    \* bound on /play commands
  MaxCommands,    \* bound on commands of any kind
  MaxFaults       \* bound on failed REST calls and failed resolutions

AllCommands == {"play", "skip", "vote", "pause", "resume", "clear",
                "remove", "boost", "shuffle", "loop"}

ASSUME ReaderIsNoHandler == Reader \notin Handlers
ASSUME CommandsAssumption == Commands \subseteq AllCommands
ASSUME SizesAssumption == RequestSizes \subseteq Nat \ {0}
\* Some number of listeners is found.
ASSUME AudienceAssumption == Audience \subseteq Nat /\ Audience # {}
ASSUME ReasonsAssumption == EndReasons \subseteq {"finished", "error"}
ASSUME BoundsAssumption ==
  MaxRequests \in Nat /\ MaxCommands \in Nat /\ MaxFaults \in Nat
\* Track r[i] is the i-th track of the r-th /play.
ASSUME TrackAssumption ==
  \A r \in 1 .. MaxRequests : \A n \in RequestSizes : \A i \in 1 .. n :
    [req |-> r, pos |-> i] \in Track

VARIABLES
  queue,       \* the guild's Queue
  player,      \* Player.state, the mirror of the node's state
  clock,       \* "none", "running" (playbackStart) or "frozen" (frozenElapsed)
  votes,       \* voteSkip[guildID]
  node,        \* the track the audio node streams, or None
  nodePaused,  \* whether the node is paused
  events,      \* WebSocket events on their way to the read loop, in order
  pc, arg,     \* control and locals of every process
  ended,       \* the track whose end the Reader is handling, or None
  requests, commands, faults  \* what was spent of the bounds

Processes == Handlers \cup {Reader}

linkdave == <<node, nodePaused, events>>
control  == <<pc, arg, ended>>
bounds   == <<requests, commands, faults>>
vars     == <<queue, player, clock, votes, linkdave, control, bounds>>

-----------------------------------------------------------------------------
(* Control.                                                                *)

\* p goes on at label l with locals s; a process that goes idle drops them.
Move(p, l, s) ==
  /\ pc' = [pc EXCEPT ![p] = l]
  /\ arg' = [arg EXCEPT ![p] = s]
  /\ ended' = IF p = Reader /\ l = "idle" THEN None ELSE ended

Goto(p, l) == Move(p, l, arg[p])
Finish(p)  == Move(p, "idle", <<>>)

\* A condition the code reads in a critical section of its own.
Branch(p, from, cond, yes, no) ==
  /\ pc[p] = from
  /\ LET l == IF cond THEN yes ELSE no
     IN  IF l = "idle" THEN Finish(p) ELSE Goto(p, l)
  /\ UNCHANGED <<queue, player, clock, votes, linkdave, bounds>>

Fault == faults < MaxFaults /\ faults' = faults + 1

Quiet == events = <<>> /\ \A p \in Processes : pc[p] = "idle"

\* Guard on what users and tracks start by themselves.
MayStart == OneAtATime => Quiet

-----------------------------------------------------------------------------
(* The audio node.  It reports what it does in order over one WebSocket.   *)

TrackStart(t)   == [type |-> "start", track |-> t]
TrackEnd(t, r)  == [type |-> "end", track |-> t, reason |-> r]
PlayerUpdate(s) == [type |-> "update", state |-> s]

NodePlay(t) ==
  /\ node' = t
  /\ nodePaused' = FALSE
  /\ events' = (IF node = None THEN events
                               ELSE Append(events, TrackEnd(node, "replaced")))
                 \o <<TrackStart(t)>>

NodeStop ==
  IF node = None
    THEN UNCHANGED linkdave
    ELSE /\ node' = None
         /\ nodePaused' = FALSE
         /\ events' = events \o <<TrackEnd(node, "stopped"), PlayerUpdate("idle")>>

NodeSetPaused(b) ==
  IF node = None \/ nodePaused = b
    THEN UNCHANGED linkdave
    ELSE /\ nodePaused' = b
         /\ events' = Append(events, PlayerUpdate(IF b THEN "paused" ELSE "playing"))
         /\ UNCHANGED node

\* A track ends by itself: it was heard to its end, or its stream broke.
NodeFinish ==
  /\ MayStart
  /\ node # None /\ ~nodePaused
  /\ \E r \in EndReasons : events' = Append(events, TrackEnd(node, r))
  /\ node' = None
  /\ UNCHANGED <<queue, player, clock, votes, nodePaused, control, bounds>>

-----------------------------------------------------------------------------
(* Interactions begin.  The label of a command is its name.                *)

Begin(h) ==
  /\ MayStart
  /\ pc[h] = "idle"
  /\ commands < MaxCommands
  /\ commands' = commands + 1
  /\ \/ \E c \in Commands \ {"play"} :
          /\ Goto(h, c)
          /\ UNCHANGED requests
     \/ /\ "play" \in Commands
        /\ requests < MaxRequests
        /\ requests' = requests + 1
        /\ \E n \in RequestSizes :
             Move(h, "play", [i \in 1 .. n |-> [req |-> requests + 1, pos |-> i]])
  /\ UNCHANGED <<queue, player, clock, votes, linkdave, faults>>

-----------------------------------------------------------------------------
(* Steps shared by several methods.                                        *)

\* One locked method of the queue, then on to label l.
QueueStep(p, from, q, l) ==
  /\ pc[p] = from
  /\ queue' = q
  /\ Goto(p, l)
  /\ UNCHANGED <<player, clock, votes, linkdave, bounds>>

\* A single-step queue edit of a handler.
QueueEdit(p, from, q) ==
  /\ pc[p] = from
  /\ queue' = q
  /\ Finish(p)
  /\ UNCHANGED <<player, clock, votes, linkdave, bounds>>

\* queue.Clear() where a failed Play or an emptied queue gives up.
Drop(p) == QueueStep(p, "drop", Clear(queue), "drop_clock")

\* clearPlaybackClock, then on to label l.
ClearClock(p, from, l) ==
  /\ pc[p] = from
  /\ clock' = "none"
  /\ IF l = "idle" THEN Finish(p) ELSE Goto(p, l)
  /\ UNCHANGED <<queue, player, votes, linkdave, bounds>>

\* Mutant: frozenElapsed is not deleted.
MarkStart_StaysFrozen(p) ==
  /\ pc[p] = "mark"
  /\ clock' = IF clock = "frozen" THEN "frozen" ELSE "running"
  /\ votes' = {}
  /\ Finish(p)
  /\ UNCHANGED <<queue, player, linkdave, bounds>>

\* markPlaybackStart clears the votes under clockMu.
MarkStart(p) ==
  /\ pc[p] = "mark"
  /\ clock' = "running"
  /\ votes' = {}
  /\ Finish(p)
  /\ UNCHANGED <<queue, player, linkdave, bounds>>

\* player.Play.  A failed call may still have reached the node (the reply was
\* lost or late).  enqueueItems and onTrackEnd answer a failure by dropping
\* the queue; Skip only returns the error.
PlayCall(p) ==
  /\ pc[p] \in {"start", "skip_play", "next_play"}
  /\ \/ /\ NodePlay(Head(arg[p]))
        /\ Move(p, IF pc[p] = "start" /\ Len(arg[p]) > 1 THEN "tail" ELSE "mark",
                Tail(arg[p]))
        /\ UNCHANGED faults
     \/ /\ Fault
        /\ NodePlay(Head(arg[p])) \/ UNCHANGED linkdave
        /\ IF pc[p] = "skip_play" THEN Finish(p) ELSE Move(p, "drop", <<>>)
  /\ UNCHANGED <<queue, player, clock, votes, requests, commands>>

\* player.Stop, from Skip on an empty queue (then drop) and from Clear.
StopCall(p, from, l) ==
  /\ pc[p] = from
  /\ \/ /\ NodeStop
        /\ IF l = "idle" THEN Finish(p) ELSE Goto(p, l)
        /\ UNCHANGED faults
     \/ /\ Fault
        /\ NodeStop \/ UNCHANGED linkdave
        /\ Finish(p)
  /\ UNCHANGED <<queue, player, clock, votes, requests, commands>>

-----------------------------------------------------------------------------
(* Service.Enqueue: resetStaleQueue, resolve, enqueueItems.                *)

ResetStaleQueue(h) ==
  \/ Branch(h, "play", queue.active, "stale_playing", "resolve")
  \/ Branch(h, "stale_playing", player = "playing", "resolve", "stale_paused")
  \/ Branch(h, "stale_paused", player = "paused", "resolve", "stale_clear")
  \/ QueueStep(h, "stale_clear", Clear(queue), "stale_clock")
  \/ ClearClock(h, "stale_clock", "resolve")

\* yt-dlp takes seconds and may fail.
Resolve(h) ==
  /\ pc[h] = "resolve"
  /\ \/ Goto(h, "enq_playing") /\ UNCHANGED faults
     \/ Fault /\ Finish(h)
  /\ UNCHANGED <<queue, player, clock, votes, linkdave, requests, commands>>

\* Mutant: the loop runs once too often.
AppendItem_OnceMore(h, from, l) ==
  /\ pc[h] = from
  /\ queue' = Enqueue(queue, Head(arg[h]))
  /\ Move(h, IF Len(arg[h]) > 0 THEN from ELSE l, Tail(arg[h]))
  /\ UNCHANGED <<player, clock, votes, linkdave, bounds>>

\* One Enqueue of the loop over the items (all of them, or the tail behind
\* the track just started); the last one goes on to label l.
AppendItem(h, from, l) ==
  /\ pc[h] = from
  /\ queue' = Enqueue(queue, Head(arg[h]))
  /\ Move(h, IF Len(arg[h]) > 1 THEN from ELSE l, Tail(arg[h]))
  /\ UNCHANGED <<player, clock, votes, linkdave, bounds>>

EnqueueItems(h) ==
  \/ Branch(h, "enq_playing", player = "playing", "append", "enq_paused")
  \/ Branch(h, "enq_paused", player = "paused", "append", "enq_active")
  \/ Branch(h, "enq_active", queue.active, "append", "set_active")
  \/ AppendItem(h, "append", "idle")
  \/ QueueStep(h, "set_active", SetActive(queue, TRUE), "set_now")
  \/ QueueStep(h, "set_now", SetNowPlaying(queue, Head(arg[h])), "start")
  \/ AppendItem(h, "tail", "mark")

-----------------------------------------------------------------------------
(* Service.Skip and VoteSkip.                                              *)

SkipPop(h) ==
  /\ pc[h] = "skip"
  /\ queue' = Skip(queue)
  /\ IF queue'.now = None THEN Goto(h, "skip_stop")
                          ELSE Move(h, "skip_play", <<queue'.now>>)
  /\ UNCHANGED <<player, clock, votes, linkdave, bounds>>

VoteSkipThreshold(listeners) ==
  IF listeners <= 1 THEN 1 ELSE (listeners + 1) \div 2

\* The listeners were counted before the lock on the votes was taken.
CastVote(h) ==
  /\ pc[h] = "vote"
  /\ votes' = votes \cup {h}
  /\ \E n \in Audience :
       IF Cardinality(votes') < VoteSkipThreshold(n)
         THEN Finish(h) ELSE Goto(h, "vote_clear")
  /\ UNCHANGED <<queue, player, clock, linkdave, bounds>>

\* Mutant: the votes stay.
ClearVotes_Kept(h, from, l) ==
  /\ pc[h] = from
  /\ Goto(h, l)
  /\ UNCHANGED <<queue, player, clock, votes, linkdave, bounds>>

ClearVotes(h, from, l) ==
  /\ pc[h] = from
  /\ votes' = {}
  /\ Goto(h, l)
  /\ UNCHANGED <<queue, player, clock, linkdave, bounds>>

SkipTrack(h) ==
  \/ CastVote(h)
  \/ ClearVotes(h, "vote_clear", "skip")
  \/ SkipPop(h)
  \/ StopCall(h, "skip_stop", "drop")

-----------------------------------------------------------------------------
(* Pause, Resume, Clear and the queue edits.                               *)

PauseCall(h, from, b, l) ==
  /\ pc[h] = from
  /\ \/ NodeSetPaused(b) /\ Goto(h, l) /\ UNCHANGED faults
     \/ Fault /\ (NodeSetPaused(b) \/ UNCHANGED linkdave) /\ Finish(h)
  /\ UNCHANGED <<queue, player, clock, votes, requests, commands>>

\* markPlaybackPause and markPlaybackResume
MarkPaused(h, from, old, new) ==
  /\ pc[h] = from
  /\ clock' = IF clock \in old THEN new ELSE clock
  /\ Finish(h)
  /\ UNCHANGED <<queue, player, votes, linkdave, bounds>>

PauseResume(h) ==
  \/ PauseCall(h, "pause", TRUE, "freeze")
  \/ MarkPaused(h, "freeze", {"running", "frozen"}, "frozen")
  \/ PauseCall(h, "resume", FALSE, "thaw")
  \/ MarkPaused(h, "thaw", {"frozen"}, "running")

ClearAll(h) ==
  \/ QueueStep(h, "clear", Clear(queue), "clear_clock")
  \/ ClearClock(h, "clear_clock", "clear_votes")
  \/ ClearVotes(h, "clear_votes", "clear_playing")
  \/ Branch(h, "clear_playing", player = "playing", "clear_stop", "clear_paused")
  \/ Branch(h, "clear_paused", player = "paused", "clear_stop", "idle")
  \/ StopCall(h, "clear_stop", "idle")

EditQueue(h) ==
  \/ \E i \in 1 .. Len(queue.items) + 1 :
       \/ QueueEdit(h, "remove", RemoveUpcoming(queue, i))
       \/ QueueEdit(h, "boost", MoveUpcomingToFront(queue, i))
  \/ \E q \in ShuffleUpcoming(queue) : QueueEdit(h, "shuffle", q)
  \/ \E m \in LoopModes : QueueEdit(h, "loop", SetLoop(queue, m))

-----------------------------------------------------------------------------
(* The read loop: Player.onTrackStart, onPlayerUpdate, onTrackEnd, and the *)
(* hook Service.onTrackEnd behind the last one.                            *)

\* Mutants: the filter forgets a reason, or lets too few through.
OwnEnd_Replaced(e) == e.type = "end" /\ e.reason # "stopped"
OwnEnd_FinishedOnly(e) == e.type = "end" /\ e.reason = "finished"

\* The reasons that are not a stop or a replacement.
OwnEnd(e) == e.type = "end" /\ e.reason \notin {"stopped", "replaced"}

\* Mutant: the state is left to a later PlayerUpdate.
Mirrored_KeptAtEnd(e) ==
  CASE e.type = "start"  -> "playing"
    [] e.type = "update" -> e.state
    [] OTHER             -> player

\* Player.state after event e
Mirrored(e) ==
  CASE e.type = "start"  -> "playing"
    [] e.type = "update" -> e.state
    [] OwnEnd(e)         -> IF player = "paused" THEN "paused" ELSE "idle"
    [] OTHER             -> player

Receive ==
  /\ pc[Reader] = "idle"
  /\ events # <<>>
  /\ LET e == Head(events) IN
       /\ player' = Mirrored(e)
       /\ IF OwnEnd(e)
            THEN /\ pc' = [pc EXCEPT ![Reader] = "end_active"]
                 /\ ended' = e.track
            ELSE UNCHANGED <<pc, ended>>
  /\ events' = Tail(events)
  /\ UNCHANGED <<queue, clock, votes, node, nodePaused, arg, bounds>>

\* queue.NowCopy() into the reader's locals
CopyNow(from, yes, no) ==
  /\ pc[Reader] = from
  /\ IF queue.now = None THEN Goto(Reader, no)
                         ELSE Move(Reader, yes, <<queue.now>>)
  /\ UNCHANGED <<queue, player, clock, votes, linkdave, bounds>>

AdvanceQueue ==
  /\ pc[Reader] = "advance"
  /\ queue' = Advance(queue)
  /\ IF queue'.now = None THEN Goto(Reader, "drop_clock")
                          ELSE Move(Reader, "next_play", <<queue'.now>>)
  /\ UNCHANGED <<player, clock, votes, linkdave, bounds>>

OnTrackEnd ==
  \/ Branch(Reader, "end_active", queue.active, "end_track", "idle")
  \/ Branch(Reader, "end_track", queue.loop = "track", "end_now", "end_queue")
  \/ CopyNow("end_now", "next_play", "end_queue")
  \/ Branch(Reader, "end_queue", queue.loop = "queue", "end_finished", "advance")
  \/ CopyNow("end_finished", "requeue", "advance")
  \/ AppendItem(Reader, "requeue", "advance")
  \/ AdvanceQueue

-----------------------------------------------------------------------------

Init ==
  /\ queue = NewQueue
  /\ player = "idle"
  /\ clock = "none"
  /\ votes = {}
  /\ node = None /\ nodePaused = FALSE /\ events = <<>>
  /\ pc = [p \in Processes |-> "idle"]
  /\ arg = [p \in Processes |-> <<>>]
  /\ ended = None
  /\ requests = 0 /\ commands = 0 /\ faults = 0

\* What any process may reach.
SharedStep(p) ==
  \/ PlayCall(p)
  \/ MarkStart(p)
  \/ Drop(p)
  \/ ClearClock(p, "drop_clock", "idle")

HandlerStep(h) ==
  \/ ResetStaleQueue(h) \/ Resolve(h) \/ EnqueueItems(h)
  \/ SkipTrack(h) \/ PauseResume(h) \/ ClearAll(h) \/ EditQueue(h)
  \/ SharedStep(h)

ReaderStep == Receive \/ OnTrackEnd \/ SharedStep(Reader)

\* Nothing in flight: the bot waits for its users.
Rest == Quiet /\ UNCHANGED vars

Next ==
  \/ \E h \in Handlers : Begin(h) \/ HandlerStep(h)
  \/ ReaderStep
  \/ NodeFinish
  \/ Rest

Spec == Init /\ [][Next]_vars

\* Goroutines that are inside a method go on, the read loop reads on, and a
\* track that is not paused comes to its end.  Nobody is obliged to begin a
\* command.
Fairness ==
  /\ \A h \in Handlers : WF_vars(HandlerStep(h))
  /\ WF_vars(ReaderStep)
  /\ WF_vars(NodeFinish)

FairSpec == Spec /\ Fairness

-----------------------------------------------------------------------------
(* Types.                                                                  *)

PlayerStates == {"idle", "playing", "paused"}

Event == [type : {"start"}, track : Track]
           \cup [type : {"end"}, track : Track,
                 reason : EndReasons \cup {"stopped", "replaced"}]
           \cup [type : {"update"}, state : PlayerStates]

\* Labels at which a process holds the track it is about to play or append.
Carrying == {"play", "stale_playing", "stale_paused", "stale_clear",
             "stale_clock", "resolve", "enq_playing", "enq_paused",
             "enq_active", "append", "set_active", "set_now", "start", "tail",
             "skip_play", "next_play", "requeue"}

HandlerLabels == Carrying \cup AllCommands \cup
  {"idle", "skip_stop", "vote_clear", "mark", "drop", "drop_clock", "freeze",
   "thaw", "clear_clock", "clear_votes", "clear_playing", "clear_paused",
   "clear_stop"}

ReaderLabels == {"idle", "end_active", "end_track", "end_now", "end_queue",
                 "end_finished", "requeue", "advance", "next_play", "mark",
                 "drop", "drop_clock"}

DataOK ==
  /\ queue \in Queue
  /\ player \in PlayerStates
  /\ clock \in {"none", "running", "frozen"}
  /\ votes \subseteq Handlers
  /\ node \in Track \cup {None}
  /\ nodePaused \in BOOLEAN
  /\ events \in Seq(Event)
  /\ requests \in 0 .. MaxRequests
  /\ commands \in 0 .. MaxCommands
  /\ faults \in 0 .. MaxFaults

LabelsOf(p) == IF p = Reader THEN ReaderLabels ELSE HandlerLabels

ControlOK ==
  /\ pc \in [Processes -> HandlerLabels \cup ReaderLabels]
  /\ arg \in [Processes -> Seq(Track)]
  /\ \A p \in Processes :
       /\ pc[p] \in LabelsOf(p)
       /\ pc[p] \in Carrying => arg[p] # <<>>
  /\ ended \in Track \cup {None}

\* Every variable has its type, the read loop and the handlers stay in their
\* own code, and no step takes the head of an empty list of tracks.
TypeOK == DataOK /\ ControlOK

-----------------------------------------------------------------------------
(* Safety under every interleaving.                                        *)

\* Whatever the handlers and the read loop do to the queue in whatever order,
\* a queue that drives playback has a current track; the one exception is the
\* gap between SetActive and SetNowPlaying in enqueueItems.  onTrackEnd
\* relies on it: it replays or advances for an active queue only.
ActiveHasTrack ==
  queue.active /\ queue.now = None => \E h \in Handlers : pc[h] = "set_now"

\* Users cannot reorder tracks, so tracks leave in the order they came.
NoReordering == Commands \cap {"boost", "shuffle", "loop"} = {}

InOrder(t, u) == t.req = u.req => t.pos < u.pos

\* Unless users reorder it, the queue keeps the tracks of one request (a
\* playlist) in the order of the request, and the current track comes before
\* all of its fellows that wait, although other requests, skips and track
\* ends come between the appends.  In particular no track is queued twice.
RequestOrder ==
  NoReordering =>
    /\ \A i, j \in 1 .. Len(queue.items) :
         i < j => InOrder(queue.items[i], queue.items[j])
    /\ queue.now # None =>
         \A i \in 1 .. Len(queue.items) : InOrder(queue.now, queue.items[i])

NodeState ==
  IF node = None THEN "idle" ELSE IF nodePaused THEN "paused" ELSE "playing"

\* Once the read loop has seen every event, the player's mirrored state is
\* the node's state, however calls, failures and track ends were interleaved:
\* ignoring stopped and replaced ends and keeping "paused" at an own end
\* (Player.onTrackEnd) loses nothing.
MirrorCaughtUp == events = <<>> => player = NodeState

\* Enough votes for any audience are never left lying: the voter who
\* completed them is about to clear them and skip.
VotesAreActedOn ==
  (\A n \in Audience : Cardinality(votes) >= VoteSkipThreshold(n))
    => \E h \in Handlers : pc[h] = "vote_clear"

-----------------------------------------------------------------------------
(* What users see once everything is quiet.                                *)

\* The track shown as now playing is the one the node streams.
HeardIsShown == Quiet => queue.now = node

\* The playback clock stands still exactly while the node is paused, and
\* runs exactly while it plays.
ClockAgrees ==
  Quiet => clock = CASE NodeState = "idle"    -> "none"
                     [] NodeState = "playing" -> "running"
                     [] NodeState = "paused"  -> "frozen"

\* A track waits only behind another one, in a queue that moves on when the
\* current track ends.
NothingStranded ==
  Quiet /\ queue.items # <<>> => queue.active /\ node # None

Waiting(t) == \E i \in 1 .. Len(queue.items) : queue.items[i] = t

\* Unless the node is left paused or is told to repeat one track for good, a
\* waiting track is eventually played or taken out: the chain from a track's
\* end over the hook to the next Play never breaks.
QueueDrains ==
  <>[](~nodePaused /\ queue.loop # "track")
    => \A t \in Track : Waiting(t) ~> ~Waiting(t)

-----------------------------------------------------------------------------
(* The queue keeps the promise of Jukebox.                                 *)

\* What a process at label l with tracks s in hand has yet to put into the
\* queue; at "start" the first of them is the current track already.
InHandAt(l, s) ==
  {s[i] : i \in {j \in 1 .. Len(s) :
                 /\ l \in Carrying \ {"skip_play", "next_play", "requeue"}
                 /\ l = "start" => j > 1}}

\* Tracks of requests that nobody has made yet.
ToCome ==
  {[req |-> r, pos |-> i] : r \in requests + 1 .. MaxRequests,
                            i \in UNION {1 .. n : n \in RequestSizes}}

Unqueued == ToCome \cup UNION {InHandAt(pc[h], arg[h]) : h \in Handlers}

Jukebox == INSTANCE Jukebox
             WITH fresh <- Unqueued, line <- queue.items, current <- queue.now

\* Two handlers and the read loop between them never queue or play a track a
\* second time and never let one jump the line, although enqueueItems starts
\* one track of a request and appends the others in critical sections of
\* their own, between which others skip, clear, remove and advance.
QueueIsJukebox == Jukebox!Spec

-----------------------------------------------------------------------------
(* Claims of the source that an unlucky interleaving breaks.               *)

\* queue.go:59 "Advance removes the finished track": the track Advance drops
\* is the one whose end is being handled.
AdvanceRemovesFinished ==
  [][AdvanceQueue => queue.now \in {ended, None}]_vars

=============================================================================
