----------------------------- MODULE Document ------------------------------
(***************************************************************************)
(* What the outside sees of the players: the document of each guild in     *)
(* MongoDB (Service.persistGuild in internal/music/service.go and          *)
(* internal/store/store.go), which the website reads, and the bot's        *)
(* presence on Discord (Service.syncPresence).  Both are written at the    *)
(* end of emitPlayback, in the goroutine of the handler or read loop that  *)
(* changed the player.                                                     *)
(*                                                                         *)
(* A task changes the player of a guild in one step and then works through *)
(* persistGuild and syncPresence, one critical section or call at a time.  *)
(* An operation whose call of the node fails changes the player too, but   *)
(* returns before its emission.  What the node plays is the subject of     *)
(* Playback; here it only reports, late, whether it is paused.             *)
(***************************************************************************)
EXTENDS Naturals, Sequences

CONSTANTS
  Guilds,
  MaxTasks,     \* bound on changes of a player
  MaxTogether,  \* bound on them in a behaviour in which tasks overlap
  MaxWaiting,   \* bound on waiting tracks
  MaxFaults,    \* bound on failed calls
  Overlaps      \* may tasks overlap?  A subset of BOOLEAN

ASSUME DocumentBounds == {MaxTasks, MaxTogether, MaxWaiting, MaxFaults} \subseteq Nat
ASSUME OverlapsAssumption == Overlaps \subseteq BOOLEAN

VARIABLES
  overlap,   \* whether tasks overlap in this behaviour
  now,       \* the track that plays in each guild, or 0; tracks are numbered
  upcoming,  \* the number of waiting tracks
  clock,     \* the guild's clock: "none", "runs" (playbackStart) or "frozen"
  epoch,     \* which start the clock counts from, a number
  reports,   \* what the node reported of being paused: the last one read, which
             \* is Player.state, and those in flight; the last is how the node is
  past,      \* what the guild's queue has been
  emitted,   \* guilds whose last change was written, in the life of the process
  open,      \* whether the store is connected
  doc,       \* the guild's document
  presence,  \* the track that the bot's status names, or 0
  tasks,     \* one record per task so far
  faults

player == <<now, upcoming, clock, epoch, reports, past>>
docVars == <<overlap, player, emitted, open, doc, presence, tasks, faults>>

Numbers == 0 .. MaxTasks
Waiting == 0 .. MaxWaiting

\* A document before the first write has no field; 0 is an absent field.
\* whole and timely are no fields: they record whether the last write carried
\* a track, and whether every report of the node had been read for it.
NoDocument == [now |-> 0, upcoming |-> 0, paused |-> FALSE, since |-> 0,
               whole |-> FALSE, timely |-> FALSE]

NewTask(g) == [guild |-> g, todo |-> "state", paused |-> FALSE, timely |-> FALSE, seen |-> 0,
               upcoming |-> 0, since |-> 0, left |-> {}, label |-> 0, told |-> FALSE]

\* A task that has ended; told: its status reached Discord.
Ended(g, told) == [NewTask(g) EXCEPT !.todo = "done", !.told = told]

Running == {p \in DOMAIN tasks : tasks[p].todo # "done"}
Done    == Running = {}

-----------------------------------------------------------------------------
(* Changes of the player, each the part of an operation of the service     *)
(* before its emission.                                                    *)

\* The queue of a guild becomes track and waiting, its clock c, counting from
\* e; the node's reports become r; t is the task that goes on from there.
Turn(g, track, waiting, c, e, r, t) ==
  /\ Len(tasks) < MaxTasks
  /\ IF overlap THEN Len(tasks) < MaxTogether ELSE Done
  /\ now' = [now EXCEPT ![g] = track]
  /\ upcoming' = [upcoming EXCEPT ![g] = waiting]
  /\ clock' = [clock EXCEPT ![g] = c]
  /\ epoch' = [epoch EXCEPT ![g] = e]
  /\ reports' = [reports EXCEPT ![g] = r]
  /\ past' = [past EXCEPT ![g] = @ \cup {<<track, waiting>>}]
  /\ emitted' = emitted \ {g}
  /\ tasks' = Append(tasks, t)
  /\ UNCHANGED <<overlap, open, doc, presence>>

Change(g, track, waiting, c, e, r) ==
  Turn(g, track, waiting, c, e, r, NewTask(g)) /\ UNCHANGED faults

\* A track, and a start of the clock, that has not been before.
New == Len(tasks) + 1

\* The node as it is, and the reports when it reports b.
NodePaused(g) == reports[g][Len(reports[g])]
Says(g, b)    == IF NodePaused(g) = b THEN reports[g] ELSE Append(reports[g], b)

\* The mirror when Disconnect resets the player before the node's report.
Forgets(g) == <<FALSE>> \o Tail(Says(g, FALSE))

\* A single track, or a playlist, starts an idle player.
Start(g) ==
  /\ now[g] = 0 /\ ~Head(reports[g])
  /\ \E waiting \in {upcoming[g], upcoming[g] + 1} \cap Waiting :
       Change(g, New, waiting, "runs", New, Says(g, FALSE))

\* /play behind other tracks, or while the mirror says that one plays
Enqueue(g) == upcoming[g] < MaxWaiting /\ Change(g, now[g], upcoming[g] + 1, clock[g], epoch[g], reports[g])

\* RemoveQueueItem
Remove(g) == upcoming[g] > 0 /\ Change(g, now[g], upcoming[g] - 1, clock[g], epoch[g], reports[g])

\* Skip and onTrackEnd, with a track to play next
Advance(g) ==
  upcoming[g] > 0 /\ Change(g, New, upcoming[g] - 1, "runs", New, Says(g, FALSE))

\* Skip and onTrackEnd without one, onTrackEnd when Play fails, Clear, Leave.
\* The node is stopped, disconnected or not called.
Empty(g) ==
  \E r \in {reports[g], Says(g, FALSE), Forgets(g)} : Change(g, 0, 0, "none", epoch[g], r)

\* markPlaybackPause and markPlaybackResume do nothing to a clock that is not
\* there; a pause is asked for once more when its answer was lost.
Pause(g) ==
  /\ now[g] # 0 /\ ~(NodePaused(g) /\ clock[g] = "frozen")
  /\ Change(g, now[g], upcoming[g], IF clock[g] = "none" THEN "none" ELSE "frozen", epoch[g], Says(g, TRUE))

Resume(g) ==
  /\ NodePaused(g) \/ clock[g] = "frozen"
  /\ IF clock[g] = "frozen" THEN Change(g, now[g], upcoming[g], "runs", New, Says(g, FALSE))
                            ELSE Change(g, now[g], upcoming[g], clock[g], epoch[g], Says(g, FALSE))

\* An operation returns the error of the node before its emission: Skip with
\* the next track taken from the queue, or none; Clear, Leave and a start
\* with the queue emptied; and any of them with the answer lost, so that the
\* node does as it was told.
Fails(g) ==
  /\ faults < MaxFaults /\ faults' = faults + 1
  /\ \E r \in {reports[g], Says(g, FALSE), Says(g, now[g] # 0)} :
       LET Returns(track, waiting, c) ==
             Turn(g, track, waiting, c, epoch[g], r, Ended(g, FALSE))
       IN  \/ Returns(now[g], upcoming[g], clock[g])
           \/ upcoming[g] > 0 /\ Returns(New, upcoming[g] - 1, clock[g])
           \/ upcoming[g] = 0 /\ Returns(0, 0, clock[g])
           \/ Returns(0, 0, "none")

Operate(g) ==
  \/ Start(g) \/ Enqueue(g) \/ Remove(g) \/ Advance(g) \/ Empty(g)
  \/ Pause(g) \/ Resume(g) \/ Fails(g)

\* The read loop takes the next report of a guild.
Hear(g) ==
  /\ Len(reports[g]) > 1
  /\ reports' = [reports EXCEPT ![g] = Tail(@)]
  /\ UNCHANGED <<overlap, now, upcoming, clock, epoch, past, emitted, open, doc, presence, tasks, faults>>

-----------------------------------------------------------------------------
(* persistGuild                                                            *)

At(p, l) == p \in DOMAIN tasks /\ tasks[p].todo = l

Local(p, t) ==
  /\ tasks' = [tasks EXCEPT ![p] = t]
  /\ UNCHANGED <<overlap, player, emitted, open, doc, presence, faults>>

\* PlaybackState: paused by the mirror of the node's player or by the clock.
ReadState(p) ==
  /\ At(p, "state")
  /\ LET g == tasks[p].guild
     IN  Local(p, [tasks[p] EXCEPT !.paused = Head(reports[g]) \/ clock[g] = "frozen",
                                   !.timely = Len(reports[g]) = 1,
                                   !.seen = now[g], !.todo = "snapshot"])

\* Mutant: the track of the state that was read before.
ReadQueue_StateNow(p) ==
  /\ At(p, "snapshot")
  /\ Local(p, [tasks[p] EXCEPT !.upcoming = upcoming[tasks[p].guild],
                               !.todo = IF tasks[p].paused THEN "write" ELSE "clock"])

\* Snapshot
ReadQueue(p) ==
  /\ At(p, "snapshot")
  /\ Local(p, [tasks[p] EXCEPT !.seen = now[tasks[p].guild],
                               !.upcoming = upcoming[tasks[p].guild],
                               !.todo = IF tasks[p].paused THEN "write" ELSE "clock"])

\* playbackStartUTC
ReadClock(p) ==
  /\ At(p, "clock")
  /\ LET g == tasks[p].guild
     IN  Local(p, [tasks[p] EXCEPT !.since = IF clock[g] = "runs" THEN epoch[g] ELSE 0,
                                   !.todo = "write"])

\* Mutant: paused is left out like the other empty fields.
Written_OmitPaused(t, old) ==
  [now      |-> IF t.seen # 0 THEN t.seen ELSE old.now,
   upcoming |-> t.upcoming,
   paused   |-> t.paused \/ old.paused,
   since    |-> IF t.since # 0 THEN t.since ELSE old.since,
   whole    |-> t.seen # 0,
   timely   |-> t.timely]

\* UpsertGuildPlayback: $set with the fields that are not empty.
Written(t, old) ==
  [now      |-> IF t.seen # 0 THEN t.seen ELSE old.now,
   upcoming |-> t.upcoming,
   paused   |-> t.paused,
   since    |-> IF t.since # 0 THEN t.since ELSE old.since,
   whole    |-> t.seen # 0,
   timely   |-> t.timely]

\* A failed write is only logged.
Write(p) ==
  /\ At(p, "write")
  /\ LET g == tasks[p].guild
     IN  \/ /\ open
            /\ doc' = [doc EXCEPT ![g] = Written(tasks[p], @)]
            /\ emitted' = emitted \cup {g}
            /\ UNCHANGED faults
         \/ open /\ faults < MaxFaults /\ faults' = faults + 1 /\ UNCHANGED <<doc, emitted>>
         \/ ~open /\ UNCHANGED <<doc, emitted, faults>>
  /\ tasks' = [tasks EXCEPT ![p].todo = "presence", ![p].left = Guilds]
  /\ UNCHANGED <<overlap, player, open, presence>>

-----------------------------------------------------------------------------
(* syncPresence                                                            *)

\* Mutant: the search for a guild that plays ends at the first guild.
LookAt_First(p) ==
  /\ At(p, "presence")
  /\ \E g \in tasks[p].left :
       Local(p, [tasks[p] EXCEPT !.label = now[g], !.left = {}, !.todo = "status"])

\* Mutant: the search does not end when no guild plays.
LookAt_Endless(p) ==
  /\ At(p, "presence")
  /\ \E g \in tasks[p].left :
       Local(p, [tasks[p] EXCEPT !.label = now[g], !.left = IF now[g] # 0 THEN {} ELSE @ \ {g},
                                 !.todo = IF now[g] # 0 THEN "status" ELSE "presence"])

\* The guilds are visited in the order of a map, up to the first that plays.
LookAt(p) ==
  /\ At(p, "presence")
  /\ \E g \in tasks[p].left :
       LET left == IF now[g] # 0 THEN {} ELSE tasks[p].left \ {g}
       IN  Local(p, [tasks[p] EXCEPT !.label = now[g], !.left = left,
                                     !.todo = IF left = {} THEN "status" ELSE "presence"])

\* Its error is ignored: the old status stays.
UpdateStatus(p) ==
  /\ At(p, "status")
  /\ \E told \in BOOLEAN :
       /\ IF told THEN presence' = tasks[p].label /\ UNCHANGED faults
                  ELSE faults < MaxFaults /\ faults' = faults + 1 /\ UNCHANGED presence
       /\ tasks' = [tasks EXCEPT ![p] = Ended(tasks[p].guild, told)]
  /\ UNCHANGED <<overlap, player, emitted, open, doc>>

Emission(p) ==
  ReadState(p) \/ ReadQueue(p) \/ ReadClock(p) \/ Write(p) \/ LookAt(p) \/ UpdateStatus(p)

-----------------------------------------------------------------------------

DocumentInit ==
  /\ overlap \in Overlaps
  /\ now = [g \in Guilds |-> 0]
  /\ upcoming = [g \in Guilds |-> 0]
  /\ clock = [g \in Guilds |-> "none"]
  /\ epoch = [g \in Guilds |-> 0]
  /\ reports = [g \in Guilds |-> <<FALSE>>]
  /\ past = [g \in Guilds |-> {<<0, 0>>}]
  /\ emitted = {}
  /\ open = TRUE
  /\ doc = [g \in Guilds |-> NoDocument]
  /\ presence = 0
  /\ tasks = <<>>
  /\ faults = 0

\* No task is at work: the bot waits for events.
Rest == Done /\ UNCHANGED docVars

DocumentNext ==
  \/ \E g \in Guilds : Operate(g) \/ Hear(g)
  \/ \E p \in 1 .. MaxTasks : Emission(p)
  \/ Rest

DocumentSpec == DocumentInit /\ [][DocumentNext]_docVars

-----------------------------------------------------------------------------
(* Properties.                                                             *)

Clocks  == {"none", "runs", "frozen"}
Todos   == {"state", "snapshot", "clock", "write", "presence", "status", "done"}

\* Every variable has its type, the mirror of the node's player is there, and
\* only a search that goes on has a guild left to look at.
DocumentTypeOK ==
  /\ overlap \in BOOLEAN
  /\ now \in [Guilds -> Numbers]
  /\ upcoming \in [Guilds -> Waiting]
  /\ clock \in [Guilds -> Clocks]
  /\ epoch \in [Guilds -> Numbers]
  /\ reports \in [Guilds -> Seq(BOOLEAN)]
  /\ \A g \in Guilds : reports[g] # <<>>
  /\ past \in [Guilds -> SUBSET (Numbers \X Waiting)]
  /\ emitted \subseteq Guilds
  /\ open \in BOOLEAN
  /\ doc \in [Guilds -> [now : Numbers, upcoming : Waiting, paused : BOOLEAN,
                         since : Numbers, whole : BOOLEAN, timely : BOOLEAN]]
  /\ presence \in Numbers
  /\ tasks \in Seq([guild : Guilds, todo : Todos, paused : BOOLEAN, timely : BOOLEAN,
                    seen : Numbers, upcoming : Waiting, since : Numbers,
                    left : SUBSET Guilds, label : Numbers, told : BOOLEAN])
  /\ \A p \in DOMAIN tasks : tasks[p].todo = "presence" <=> tasks[p].left # {}
  /\ faults \in 0 .. MaxFaults

\* However tasks overlap and writes fail: when the last write of a document
\* carried a track, the track and the queue it shows were the guild's track
\* and queue at the same moment.  (persistGuild reads the player twice.)
PairWasTrue ==
  \A g \in Guilds : doc[g].whole => <<doc[g].now, doc[g].upcoming>> \in past[g]

KeepsUp(g) ==
  /\ doc[g].upcoming = upcoming[g]
  /\ now[g] # 0 => doc[g].now = now[g]
  /\ clock[g] = "frozen" => doc[g].paused
  /\ doc[g].timely => doc[g].paused = (NodePaused(g) \/ clock[g] = "frozen")
  /\ clock[g] = "runs" /\ ~doc[g].paused => doc[g].since = epoch[g]

\* When tasks come one after another, the document of a guild whose last change
\* was emitted and written shows its queue, the track while one plays, a pause
\* of the clock and, unless it says paused, since when the track plays; the
\* fields that $set leaves out are those of which the reader needs nothing in
\* that state.  Whether it says paused is true of the node, too, if the node's
\* reports had been read.  (A Resume whose report comes after persistGuild
\* leaves "paused" in the document; a failed operation, or a failed write,
\* leaves it as it was.)
DocumentKeepsUp == ~overlap /\ Done => \A g \in emitted : KeepsUp(g)

\* Without overlaps, once the last change of any player has told Discord, the
\* status names a track that plays in some guild, and none only when all are
\* idle.  (An operation that fails changes its player without telling.)
PresenceIsTrue ==
  ~overlap /\ Done /\ tasks # <<>> /\ tasks[Len(tasks)].told
    => presence \in {now[g] : g \in Guilds} /\ (presence = 0 => \A g \in Guilds : now[g] = 0)

\* "UpsertGuildPlayback writes the latest player snapshot for a guild"
\* (store.go): at rest the document names the track that plays, or none.
DocumentIsLatest ==
  ~overlap /\ Done /\ faults = 0 => \A g \in emitted : doc[g].now = now[g]

=============================================================================
