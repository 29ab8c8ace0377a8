------------------------ MODULE PlaybackSafetyProofs ------------------------
(***************************************************************************)
(* More invariants of Playback for any constants: the mirrored player      *)
(* state catches up with the node, completed votes are acted on, and what  *)
(* users see and hear agrees as long as commands come one at a time and no *)
(* call has failed.                                                        *)
(***************************************************************************)
EXTENDS PlaybackProofs, FiniteSetTheorems

(***************************************************************************)
(* MirrorCaughtUp speaks of the moment when no event is on its way.  What  *)
(* makes it true is what the events on their way say: the last one reports *)
(* the node's state, and a track that ends by itself was reported playing  *)
(* right before, so that the mirror cannot be paused when it sees the end. *)
(***************************************************************************)

\* Event e tells the mirror that the node is in state s.
Reports(e, s) ==
  \/ e.type = "start"  /\ s = "playing"
  \/ e.type = "update" /\ s = e.state
  \/ OwnEnd(e)         /\ s = "idle"

LastReports == events # <<>> => Reports(events[Len(events)], NodeState)

\* In the events es, read by a mirror in state pl, own ends follow a report
\* that the node plays.
OwnEndsFollow(es, pl) ==
  \A i \in 1 .. Len(es) :
    OwnEnd(es[i]) => IF i = 1 THEN pl = "playing" ELSE Reports(es[i - 1], "playing")

MirrorInv == MirrorCaughtUp /\ LastReports /\ OwnEndsFollow(events, player)

\* Sending an event that is not an own end, or an own end after a report that
\* the node plays, keeps the chain.
LEMMA SendKeepsChain ==
  ASSUME NEW es \in Seq(Event), NEW e \in Event, NEW pl, OwnEndsFollow(es, pl),
         OwnEnd(e) => IF es = <<>> THEN pl = "playing"
                                   ELSE Reports(es[Len(es)], "playing")
  PROVE  OwnEndsFollow(Append(es, e), pl)
<1> DEFINE fs == Append(es, e)
<1>1. /\ Len(fs) = Len(es) + 1
      /\ \A i \in 1 .. Len(es) : fs[i] = es[i]
      /\ fs[Len(es) + 1] = e
  BY AppendProperties
<1>2. Len(es) \in Nat /\ (Len(es) = 0 <=> es = <<>>)
  BY LenProperties, EmptySeq
<1> HIDE DEF fs
<1> SUFFICES ASSUME NEW i \in 1 .. Len(fs), OwnEnd(fs[i])
             PROVE  IF i = 1 THEN pl = "playing" ELSE Reports(fs[i - 1], "playing")
  BY DEF OwnEndsFollow, fs
<1>3. CASE i = Len(es) + 1
  BY <1>1, <1>2, <1>3
<1>4. CASE i \in 1 .. Len(es)
  BY <1>1, <1>2, <1>4 DEF OwnEndsFollow
<1> QED
  BY <1>1, <1>2, <1>3, <1>4

\* A step that sends one event which reports the node's new state.
LEMMA SendKeepsMirror ==
  ASSUME DataOK, OwnEndsFollow(events, player), NEW es \in Seq(Event), NEW e \in Event,
         OwnEndsFollow(es, player), events' = Append(es, e), player' = player,
         OwnEnd(e) => IF es = <<>> THEN player = "playing"
                                   ELSE Reports(es[Len(es)], "playing"),
         Reports(e, NodeState')
  PROVE  MirrorInv'
<1>1. OwnEndsFollow(events', player')
  BY SendKeepsChain
<1>2. events'[Len(events')] = e /\ events' # <<>>
  BY AppendProperties, LenProperties, EmptySeq
<1> QED
  BY <1>1, <1>2 DEF MirrorInv, MirrorCaughtUp, LastReports, NodeState

\* A step that leaves node and mirror alone.
LEMMA SameMirror ==
  ASSUME MirrorInv, UNCHANGED <<player, linkdave>>
  PROVE  MirrorInv'
BY DEF MirrorInv, MirrorCaughtUp, LastReports, NodeState, linkdave

\* Each reaction of the node ends with an event that reports its new state.
LEMMA NodePlayMirror ==
  ASSUME TypeOK, MirrorInv, NEW t \in Track, NodePlay(t), player' = player
  PROVE  MirrorInv'
<1> DEFINE es == IF node = None THEN events
                 ELSE Append(events, TrackEnd(node, "replaced"))
<1>1. TrackStart(t) \in Event /\ ~OwnEnd(TrackStart(t))
      /\ Reports(TrackStart(t), "playing")
  BY DEF TrackStart, Event, OwnEnd, Reports
<1>2. node # None => /\ TrackEnd(node, "replaced") \in Event
                     /\ ~OwnEnd(TrackEnd(node, "replaced"))
  BY DEF TrackEnd, Event, OwnEnd, TypeOK, DataOK
<1>3. es \in Seq(Event) /\ OwnEndsFollow(es, player)
  BY <1>2, SendKeepsChain, AppendProperties DEF MirrorInv, TypeOK, DataOK
<1>4. events' = Append(es, TrackStart(t))
  BY <1>1, <1>3, AppendIsConcat DEF NodePlay
<1>5. NodeState' = "playing"
  BY NoneIsNoTrack DEF NodePlay, NodeState
<1> HIDE DEF es
<1> QED
  BY <1>1, <1>3, <1>4, <1>5, SendKeepsMirror DEF MirrorInv, TypeOK

LEMMA NodeStopMirror ==
  ASSUME TypeOK, MirrorInv, NodeStop, player' = player
  PROVE  MirrorInv'
<1>1. CASE node = None
  BY <1>1, SameMirror DEF NodeStop
<1>2. CASE node # None
  <2> DEFINE e == TrackEnd(node, "stopped")
             es == Append(events, e)
             u == PlayerUpdate("idle")
  <2>1. e \in Event /\ ~OwnEnd(e)
    BY <1>2 DEF TrackEnd, Event, OwnEnd, TypeOK, DataOK
  <2>2. u \in Event /\ ~OwnEnd(u) /\ Reports(u, "idle")
    BY DEF PlayerUpdate, Event, OwnEnd, Reports, PlayerStates
  <2>3. es \in Seq(Event) /\ OwnEndsFollow(es, player)
    BY <2>1, SendKeepsChain, AppendProperties DEF MirrorInv, TypeOK, DataOK
  <2>4. events' = events \o <<e, u>>
    BY <1>2 DEF NodeStop
  <2>5. NodeState' = "idle"
    BY <1>2 DEF NodeStop, NodeState
  <2> HIDE DEF e, u
  <2>6. events' = Append(es, u)
    BY <2>1, <2>2, <2>4 DEF TypeOK, DataOK
  <2> HIDE DEF es
  <2> QED
    BY <2>2, <2>3, <2>5, <2>6, SendKeepsMirror DEF MirrorInv, TypeOK
<1> QED
  BY <1>1, <1>2

LEMMA NodePauseMirror ==
  ASSUME TypeOK, MirrorInv, NEW b \in BOOLEAN, NodeSetPaused(b), player' = player
  PROVE  MirrorInv'
<1>1. CASE node = None \/ nodePaused = b
  BY <1>1, SameMirror DEF NodeSetPaused
<1>2. CASE ~(node = None \/ nodePaused = b)
  <2> DEFINE s == IF b THEN "paused" ELSE "playing"
             u == PlayerUpdate(s)
  <2>1. u \in Event /\ ~OwnEnd(u) /\ Reports(u, s)
    BY DEF PlayerUpdate, Event, OwnEnd, Reports, PlayerStates
  <2>2. events' = Append(events, u) /\ NodeState' = s
    BY <1>2 DEF NodeSetPaused, NodeState
  <2> HIDE DEF u
  <2> QED
    BY <2>1, <2>2, SendKeepsMirror DEF MirrorInv, TypeOK, DataOK
<1> QED
  BY <1>1, <1>2

\* The node plays when a track ends by itself, and the last event (or the
\* mirror, when there is none) says so.
LEMMA NodeFinishMirror ==
  ASSUME TypeOK, MirrorInv, NodeFinish
  PROVE  MirrorInv'
<1>1. PICK r \in EndReasons : events' = Append(events, TrackEnd(node, r))
  BY DEF NodeFinish
<1> DEFINE e == TrackEnd(node, r)
<1>2. e \in Event /\ OwnEnd(e) /\ Reports(e, "idle")
  BY ReasonsAssumption DEF NodeFinish, TrackEnd, Event, OwnEnd, Reports, TypeOK, DataOK
<1>3. NodeState = "playing" /\ NodeState' = "idle" /\ player' = player
  BY DEF NodeFinish, NodeState
<1>4. IF events = <<>> THEN player = "playing"
                       ELSE Reports(events[Len(events)], "playing")
  BY <1>3 DEF MirrorInv, MirrorCaughtUp, LastReports
<1> HIDE DEF e
<1> QED
  BY <1>1, <1>2, <1>3, <1>4, SendKeepsMirror DEF MirrorInv, TypeOK, DataOK, e

\* The read loop takes the first event: if it was the last one, the mirror
\* is what it reports; otherwise the chain goes on behind it.
LEMMA ReceiveMirror ==
  ASSUME TypeOK, MirrorInv, Receive
  PROVE  MirrorInv'
<1> DEFINE e == events[1]
<1>1. /\ events \in Seq(Event) /\ events # <<>> /\ Head(events) = e
      /\ player' = Mirrored(e) /\ events' = Tail(events)
      /\ Len(events) \in Nat \ {0}
  BY LenProperties, EmptySeq DEF Receive, TypeOK, DataOK
<1>2. /\ Len(events') = Len(events) - 1
      /\ \A i \in 1 .. Len(events') : events'[i] = events[i + 1]
      /\ e \in Event
  BY <1>1, HeadTailProperties
<1>3. NodeState' = NodeState
  BY DEF Receive, NodeState
<1>4. OwnEnd(e) => player = "playing"
  BY <1>1 DEF MirrorInv, OwnEndsFollow
<1>5. \A s : Reports(e, s) => player' = s
  BY <1>1, <1>2, <1>4 DEF Reports, Mirrored, OwnEnd, Event
<1>6. MirrorCaughtUp'
  <2> SUFFICES ASSUME events' = <<>> PROVE player' = NodeState'
    BY DEF MirrorCaughtUp, NodeState
  <2>1. Len(events) = 1
    BY <1>1, <1>2
  <2> QED
    BY <1>1, <1>3, <1>5, <2>1 DEF MirrorInv, LastReports
<1>7. LastReports'
  <2> SUFFICES ASSUME events' # <<>>
               PROVE  Reports(events'[Len(events')], NodeState')
    BY DEF LastReports, NodeState
  <2>1. Len(events') \in Nat \ {0}
    BY <1>1, <1>2, HeadTailProperties, EmptySeq
  <2>2. events'[Len(events')] = events[Len(events)]
    BY <1>1, <1>2, <2>1
  <2> QED
    BY <1>1, <1>3, <2>2 DEF MirrorInv, LastReports
<1>8. OwnEndsFollow(events', player')
  <2> SUFFICES ASSUME NEW i \in 1 .. Len(events'), OwnEnd(events'[i])
               PROVE  IF i = 1 THEN player' = "playing"
                               ELSE Reports(events'[i - 1], "playing")
    BY DEF OwnEndsFollow
  <2>1. i + 1 \in 1 .. Len(events) /\ OwnEnd(events[i + 1])
    BY <1>1, <1>2
  <2>2. Reports(events[i], "playing")
    BY <2>1 DEF MirrorInv, OwnEndsFollow
  <2>3. CASE i = 1
    BY <1>5, <2>2, <2>3
  <2>4. CASE i # 1
    <3>1. i - 1 \in 1 .. Len(events') /\ events'[i - 1] = events[i]
      BY <1>1, <1>2, <2>4
    <3> QED
      BY <2>2, <2>4, <3>1
  <2> QED
    BY <2>3, <2>4
<1> QED
  BY <1>6, <1>7, <1>8 DEF MirrorInv

\* The steps of a process that touch the node are its REST calls.
LEMMA CallsMirror ==
  ASSUME TypeOK, MirrorInv, NEW p \in Processes,
         \/ PlayCall(p)
         \/ \E from, l : StopCall(p, from, l)
         \/ \E from, l : \E b \in BOOLEAN : PauseCall(p, from, b, l)
  PROVE  MirrorInv'
<1>1. CASE PlayCall(p)
  <2>1. Head(arg[p]) \in Track /\ player' = player
    BY <1>1, TakeHead DEF PlayCall, TypeOK, ControlOK, Carrying
  <2> QED
    BY <1>1, <2>1, NodePlayMirror, SameMirror DEF PlayCall
<1>2. ASSUME NEW from, NEW l, StopCall(p, from, l) PROVE MirrorInv'
  BY <1>2, NodeStopMirror, SameMirror DEF StopCall
<1>3. ASSUME NEW from, NEW l, NEW b \in BOOLEAN, PauseCall(p, from, b, l)
      PROVE  MirrorInv'
  BY <1>3, NodePauseMirror, SameMirror DEF PauseCall
<1> QED
  BY <1>1, <1>2, <1>3

LEMMA SharedStepMirror ==
  ASSUME TypeOK, MirrorInv, NEW p \in Processes, SharedStep(p)
  PROVE  MirrorInv'
BY CallsMirror, SameMirror
DEF SharedStep, MarkStart, Drop, QueueStep, ClearClock

LEMMA HandlerStepMirror ==
  ASSUME TypeOK, MirrorInv, NEW h \in Handlers, HandlerStep(h)
  PROVE  MirrorInv'
<1>1. h \in Processes
  BY DEF Processes
<1>2. CASE ResetStaleQueue(h) \/ Resolve(h) \/ EnqueueItems(h) \/ EditQueue(h)
  BY <1>2, SameMirror
  DEF ResetStaleQueue, Resolve, EnqueueItems, EditQueue, Branch, QueueStep, ClearClock,
      AppendItem, QueueEdit
<1>3. CASE SkipTrack(h)
  BY <1>1, <1>3, CallsMirror, SameMirror DEF SkipTrack, CastVote, ClearVotes, SkipPop
<1>4. CASE PauseResume(h)
  BY <1>1, <1>4, CallsMirror, SameMirror DEF PauseResume, MarkPaused
<1>5. CASE ClearAll(h)
  BY <1>1, <1>5, CallsMirror, SameMirror
  DEF ClearAll, QueueStep, ClearClock, ClearVotes, Branch
<1> QED
  BY <1>1, <1>2, <1>3, <1>4, <1>5, SharedStepMirror
  DEF HandlerStep

LEMMA MirrorInvariant == Spec => []MirrorInv
<1>1. Init => MirrorInv
  BY EmptySeq DEF Init, MirrorInv, MirrorCaughtUp, LastReports, OwnEndsFollow, NodeState
<1>2. TypeOK /\ MirrorInv /\ [Next]_vars => MirrorInv'
  <2> SUFFICES ASSUME TypeOK, MirrorInv, [Next]_vars PROVE MirrorInv'
    OBVIOUS
  <2>1. ASSUME NEW h \in Handlers, Begin(h) PROVE MirrorInv'
    BY <2>1, SameMirror DEF Begin
  <2>2. ASSUME NEW h \in Handlers, HandlerStep(h) PROVE MirrorInv'
    BY <2>2, HandlerStepMirror
  <2>3. CASE ReaderStep
    <3>1. CASE OnTrackEnd
      BY <3>1, SameMirror
      DEF OnTrackEnd, Branch, CopyNow, AppendItem, AdvanceQueue
    <3> QED
      BY <2>3, <3>1, LabelFacts, ReceiveMirror, SharedStepMirror DEF ReaderStep
  <2>4. CASE NodeFinish
    BY <2>4, NodeFinishMirror
  <2>5. CASE UNCHANGED vars
    BY <2>5, SameMirror DEF vars
  <2> QED
    BY <2>1, <2>2, <2>3, <2>4, <2>5 DEF Next, Rest
<1> QED
  BY <1>1, <1>2, TypeCorrect, PTL DEF Spec

\* However many handlers pause, stop and play over one another, with calls
\* that fail or lose their reply, the state Player.onTrackStart,
\* onPlayerUpdate and onTrackEnd leave is the node's once every event was read.
THEOREM MirrorCatchesUp == Spec => []MirrorCaughtUp
<1>1. MirrorInv => MirrorCaughtUp
  BY DEF MirrorInv
<1> QED
  BY <1>1, MirrorInvariant, PTL

-----------------------------------------------------------------------------
(* VotesAreActedOn is inductive once the votes are known to be finite.     *)

VotesInv == IsFiniteSet(votes) /\ VotesAreActedOn

LEMMA ThresholdIsPositive ==
  ASSUME NEW n \in Audience
  PROVE  VoteSkipThreshold(n) \in Nat \ {0}
BY AudienceAssumption DEF VoteSkipThreshold

\* Without votes there is nothing to act on.
LEMMA NoVotes ==
  ASSUME votes' = {}
  PROVE  VotesInv'
<1>1. IsFiniteSet({}) /\ Cardinality({}) = 0
  BY FS_EmptySet
<1>2. PICK n \in Audience : TRUE
  BY AudienceAssumption
<1>3. ~(Cardinality(votes') >= VoteSkipThreshold(n))
  BY <1>1, <1>2, ThresholdIsPositive
<1> QED
  BY <1>1, <1>2, <1>3 DEF VotesInv, VotesAreActedOn

Clearing(h) == pc[h] = "vote_clear"

\* Whoever is about to clear the votes stays there until its own step.
LEMMA OthersKeepClearing ==
  ASSUME ControlOK, NEW p \in Processes, ~Clearing(p),
         (\E l, s : Move(p, l, s)) \/ UNCHANGED pc
  PROVE  \A h \in Handlers : Clearing(h) => Clearing(h)'
BY DEF Move, ControlOK, Clearing, Processes

LEMMA SameVotes ==
  ASSUME TypeOK, VotesInv, votes' = votes, NEW p \in Processes, ~Clearing(p),
         (\E l, s : Move(p, l, s)) \/ UNCHANGED pc
  PROVE  VotesInv'
<1>1. \A h \in Handlers : Clearing(h) => Clearing(h)'
  BY OthersKeepClearing DEF TypeOK
<1> QED
  BY <1>1 DEF VotesInv, VotesAreActedOn, Clearing

\* The voter who completes the votes goes on to clear them.
LEMMA CastVoteActs ==
  ASSUME TypeOK, VotesInv, NEW h \in Handlers, CastVote(h)
  PROVE  VotesInv'
<1>1. IsFiniteSet(votes')
  BY FS_AddElement DEF CastVote, VotesInv
<1>2. PICK n \in Audience :
        IF Cardinality(votes') < VoteSkipThreshold(n)
          THEN Finish(h) ELSE Goto(h, "vote_clear")
  BY DEF CastVote
<1>3. Cardinality(votes') \in Nat /\ VoteSkipThreshold(n) \in Nat
  BY <1>1, FS_CardinalityType, ThresholdIsPositive
<1>4. CASE Cardinality(votes') < VoteSkipThreshold(n)
  <2>1. ~(Cardinality(votes') >= VoteSkipThreshold(n))
    BY <1>3, <1>4
  <2> QED
    BY <1>1, <2>1 DEF VotesInv, VotesAreActedOn
<1>5. CASE ~(Cardinality(votes') < VoteSkipThreshold(n))
  <2>1. pc'[h] = "vote_clear"
    BY <1>2, <1>5 DEF Goto, Move, TypeOK, ControlOK, Processes
  <2> QED
    BY <1>1, <2>1 DEF VotesInv, VotesAreActedOn
<1> QED
  BY <1>4, <1>5

LEMMA BranchVotes ==
  ASSUME TypeOK, VotesInv, NEW p \in Processes, NEW from, NEW cond, NEW yes, NEW no,
         from # "vote_clear", Branch(p, from, cond, yes, no)
  PROVE  VotesInv'
BY SameVotes DEF Branch, Goto, Finish, Clearing

LEMMA SharedStepVotes ==
  ASSUME TypeOK, VotesInv, NEW p \in Processes, SharedStep(p)
  PROVE  VotesInv'
<1>1. CASE PlayCall(p)
  BY <1>1, SameVotes DEF PlayCall, Finish, Clearing
<1>2. CASE MarkStart(p)
  BY <1>2, NoVotes DEF MarkStart
<1>3. CASE Drop(p)
  BY <1>3, SameVotes DEF Drop, QueueStep, Goto, Clearing
<1>4. CASE ClearClock(p, "drop_clock", "idle")
  BY <1>4, SameVotes DEF ClearClock, Finish, Clearing
<1> QED
  BY <1>1, <1>2, <1>3, <1>4 DEF SharedStep

LEMMA RequestVotes ==
  ASSUME TypeOK, VotesInv, NEW h \in Handlers,
         ResetStaleQueue(h) \/ Resolve(h) \/ EnqueueItems(h) \/ EditQueue(h)
  PROVE  VotesInv'
<1> h \in Processes
  BY DEF Processes
<1>1. CASE ResetStaleQueue(h)
  BY <1>1, BranchVotes, SameVotes
  DEF ResetStaleQueue, QueueStep, ClearClock, Goto, Finish, Clearing
<1>2. CASE Resolve(h)
  BY <1>2, SameVotes DEF Resolve, Goto, Finish, Clearing
<1>3. CASE EnqueueItems(h)
  BY <1>3, BranchVotes, SameVotes
  DEF EnqueueItems, QueueStep, AppendItem, Goto, Clearing
<1>4. CASE EditQueue(h)
  BY <1>4, SameVotes DEF EditQueue, QueueEdit, Finish, Clearing
<1> QED
  BY <1>1, <1>2, <1>3, <1>4

LEMMA ControlVotes ==
  ASSUME TypeOK, VotesInv, NEW h \in Handlers,
         SkipTrack(h) \/ PauseResume(h) \/ ClearAll(h)
  PROVE  VotesInv'
<1> h \in Processes
  BY DEF Processes
<1>1. ASSUME NEW from, NEW l, from # "vote_clear", StopCall(h, from, l)
      PROVE  VotesInv'
  BY <1>1, SameVotes DEF StopCall, Goto, Finish, Clearing
<1>2. ASSUME NEW from, NEW l, ClearVotes(h, from, l)
      PROVE  VotesInv'
  BY <1>2, NoVotes DEF ClearVotes
<1>3. CASE SkipTrack(h)
  <2>1. CASE SkipPop(h)
    BY <2>1, SameVotes DEF SkipPop, Goto, Clearing
  <2> QED
    BY <1>1, <1>2, <1>3, <2>1, CastVoteActs DEF SkipTrack
<1>4. CASE PauseResume(h)
  BY <1>4, SameVotes DEF PauseResume, PauseCall, MarkPaused, Goto, Finish, Clearing
<1>5. CASE ClearAll(h)
  <2>1. CASE QueueStep(h, "clear", Clear(queue), "clear_clock")
             \/ ClearClock(h, "clear_clock", "clear_votes")
    BY <2>1, SameVotes DEF QueueStep, ClearClock, Goto, Finish, Clearing
  <2> QED
    BY <1>1, <1>2, <1>5, <2>1, BranchVotes DEF ClearAll
<1> QED
  BY <1>3, <1>4, <1>5

LEMMA ReaderVotes ==
  ASSUME TypeOK, VotesInv, Receive \/ OnTrackEnd
  PROVE  VotesInv'
<1> Reader \in Processes
  BY DEF Processes
<1>1. CASE Receive
  <2>1. \A h \in Handlers : Clearing(h) => Clearing(h)'
    BY <1>1, ReaderIsNoHandler DEF Receive, Clearing, TypeOK, ControlOK, Processes
  <2> QED
    BY <1>1, <2>1 DEF Receive, VotesInv, VotesAreActedOn, Clearing
<1>2. CASE OnTrackEnd
  <2>1. ASSUME NEW from, NEW yes, NEW no, from # "vote_clear", CopyNow(from, yes, no)
        PROVE  VotesInv'
    BY <2>1, SameVotes DEF CopyNow, Goto, Clearing
  <2>2. CASE AppendItem(Reader, "requeue", "advance") \/ AdvanceQueue
    BY <2>2, SameVotes DEF AppendItem, AdvanceQueue, Goto, Clearing
  <2> QED
    BY <1>2, <2>1, <2>2, BranchVotes DEF OnTrackEnd
<1> QED
  BY <1>1, <1>2

\* With any number of voters and of listeners, Service.VoteSkip never leaves
\* votes behind that would suffice for every audience, unless a voter is just
\* about to clear them and skip.
THEOREM CompletedVotesAct == Spec => []VotesAreActedOn
<1>1. Init => VotesInv
  <2> SUFFICES ASSUME Init PROVE VotesInv
    OBVIOUS
  <2>1. IsFiniteSet(votes) /\ Cardinality(votes) = 0
    BY FS_EmptySet DEF Init
  <2>2. PICK n \in Audience : TRUE
    BY AudienceAssumption
  <2>3. ~(Cardinality(votes) >= VoteSkipThreshold(n))
    BY <2>1, <2>2, ThresholdIsPositive
  <2> QED
    BY <2>1, <2>2, <2>3 DEF VotesInv, VotesAreActedOn
<1>2. TypeOK /\ VotesInv /\ [Next]_vars => VotesInv'
  <2> SUFFICES ASSUME TypeOK, VotesInv, [Next]_vars PROVE VotesInv'
    OBVIOUS
  <2>1. ASSUME NEW h \in Handlers, Begin(h) PROVE VotesInv'
    <3>1. h \in Processes
      BY DEF Processes
    <3> QED
      BY <2>1, <3>1, SameVotes DEF Begin, Goto, Clearing
  <2>2. ASSUME NEW h \in Handlers, HandlerStep(h) PROVE VotesInv'
    <3>1. h \in Processes
      BY DEF Processes
    <3> QED
      BY <2>2, <3>1, RequestVotes, ControlVotes, SharedStepVotes DEF HandlerStep
  <2>3. CASE ReaderStep
    BY <2>3, LabelFacts, ReaderVotes, SharedStepVotes DEF ReaderStep
  <2>4. CASE NodeFinish \/ UNCHANGED vars
    BY <2>4 DEF NodeFinish, vars, control, VotesInv, VotesAreActedOn
  <2> QED
    BY <2>1, <2>2, <2>3, <2>4 DEF Next, Rest
<1>3. VotesInv => VotesAreActedOn
  BY DEF VotesInv
<1> QED
  BY <1>1, <1>2, <1>3, TypeCorrect, PTL DEF Spec

-----------------------------------------------------------------------------
(* Calm: users and tracks begin when all is quiet, and no call fails.      *)

\* What a queue is while nothing is in progress.
Settled(q) == /\ q.active <=> q.now # None
              /\ q.now = None => q.items = <<>>

Emptied(q) == q.now = None /\ q.items = <<>> /\ ~q.active

ClockOf(s) == CASE s = "idle"    -> "none"
                [] s = "playing" -> "running"
                [] s = "paused"  -> "frozen"

\* The node streams the current track, and the clock shows how.
Sound == /\ queue.now = node
         /\ Settled(queue)
         /\ clock = ClockOf(NodeState)

NoOwnEnds == \A i \in DOMAIN events : ~OwnEnd(events[i])

\* Labels at which no call has begun to change anything.
SoundLabels == {"idle", "play", "stale_playing", "stale_paused", "resolve",
                "enq_playing", "enq_paused", "enq_active", "set_active", "append",
                "skip", "vote", "vote_clear", "pause", "resume", "clear",
                "remove", "boost", "shuffle", "loop"}

\* Labels at which the mirrored state is still to be read.
MirrorLabels == {"play", "stale_playing", "stale_paused", "resolve",
                 "enq_playing", "enq_paused", "clear", "clear_clock",
                 "clear_votes", "clear_playing", "clear_paused"}

GivenUp == {"skip_stop", "drop", "drop_clock", "clear_clock", "clear_votes",
            "clear_playing", "clear_paused", "clear_stop"}

\* The hook of a track's own end, before it plays another one.
EndLabels == {"end_active", "end_track", "end_now", "end_queue",
              "end_finished", "requeue", "advance"}

\* What a process at label l with tracks s in hand may rely on.
At(l, s) ==
  /\ l \notin {"stale_clear", "stale_clock"}
  /\ l \in SoundLabels => Sound
  /\ l \in MirrorLabels => events = <<>>
  /\ l \in {"stale_playing", "stale_paused", "append"} => queue.now # None
  /\ l \in {"stale_paused", "enq_paused", "clear_paused"} => player # "playing"
  /\ l \in {"enq_active", "set_active", "set_now", "start", "drop", "drop_clock"}
       => node = None
  /\ l = "set_now" => queue.now = None /\ queue.items = <<>>
  /\ l \in {"start", "skip_play", "next_play"}
       => queue.now = Head(s) /\ Settled(queue)
  /\ l \in {"tail", "mark"}
       => /\ queue.now = node /\ node # None /\ ~nodePaused
          /\ Settled(queue)
  /\ l \in GivenUp => Emptied(queue)
  /\ l \in {"clear_votes", "clear_playing", "clear_paused", "clear_stop"} => clock = "none"
  /\ l \in {"freeze", "thaw"}
       => /\ queue.now = node /\ Settled(queue)
          /\ node = None => clock = "none"
          /\ node # None => /\ clock \in {"running", "frozen"}
                            /\ nodePaused = (l = "freeze")
  /\ l \in EndLabels => Settled(queue) /\ queue.now # None /\ node = None

\* One process at most is at work, on something begun in quiet.
Alone(p) == \A q \in Processes \ {p} : pc[q] = "idle"

\* A track has ended, and the read loop does not know yet.
EndUnread ==
  /\ \A q \in Processes : pc[q] = "idle"
  /\ Len(events) = 1 /\ OwnEnd(events[1])
  /\ Settled(queue) /\ queue.now # None /\ node = None

AtWork(p) == Alone(p) /\ NoOwnEnds /\ At(pc[p], arg[p])

CalmInv == EndUnread \/ \E p \in Processes : AtWork(p)
LEMMA NoFault ==
  ASSUME TypeOK, faults' = 0
  PROVE  ~Fault
BY DEF TypeOK, DataOK, Fault

\* A process that has moved.
LEMMA Moved ==
  ASSUME ControlOK, NEW p \in Processes, NEW l, NEW s, Move(p, l, s), Alone(p)
  PROVE  pc'[p] = l /\ arg'[p] = s /\ Alone(p)'
BY DEF ControlOK, Move, Alone

LEMMA WentTo ==
  ASSUME ControlOK, NEW p \in Processes, NEW l, Goto(p, l), Alone(p)
  PROVE  pc'[p] = l /\ arg'[p] = arg[p] /\ Alone(p)'
BY Moved DEF Goto

LEMMA Finished ==
  ASSUME ControlOK, NEW p \in Processes, Finish(p), Alone(p)
  PROVE  pc'[p] = "idle" /\ arg'[p] = <<>> /\ Alone(p)'
BY Moved DEF Finish

LEMMA Branched ==
  ASSUME ControlOK, NEW p \in Processes, NEW from, NEW cond, NEW yes, NEW no,
         cond \in BOOLEAN,
         Branch(p, from, cond, yes, no), Alone(p)
  PROVE  /\ pc[p] = from
         /\ pc'[p] = (IF cond THEN yes ELSE no) /\ Alone(p)'
         /\ UNCHANGED <<queue, player, clock, votes, linkdave, bounds>>
<1> DEFINE l == IF cond THEN yes ELSE no
<1>1. /\ pc[p] = from
      /\ IF l = "idle" THEN Finish(p) ELSE Goto(p, l)
      /\ UNCHANGED <<queue, player, clock, votes, linkdave, bounds>>
  BY DEF Branch
<1> HIDE DEF l
<1>2. pc'[p] = l /\ Alone(p)'
  BY <1>1, WentTo, Finished
<1> QED
  BY <1>1, <1>2 DEF l

\* The mirror of a process that begins, or that has not called the node yet.
LEMMA MirrorIsNode ==
  ASSUME TypeOK, MirrorInv, events = <<>>
  PROVE  /\ player = NodeState
         /\ player = "idle" <=> node = None
BY NoneIsNoTrack DEF MirrorInv, MirrorCaughtUp, NodeState

LEMMA SameEnds ==
  ASSUME NoOwnEnds, UNCHANGED events
  PROVE  NoOwnEnds'
BY DEF NoOwnEnds

LEMMA SameSound ==
  ASSUME UNCHANGED <<queue, clock, node, nodePaused>>
  PROVE  Sound' <=> Sound
BY DEF Sound, Settled, NodeState

\* A branch leaves all but the label as it was.
LEMMA BranchCalm ==
  ASSUME TypeOK, NEW p \in Processes, AtWork(p), NEW from, NEW cond \in BOOLEAN, NEW yes, NEW no,
         Branch(p, from, cond, yes, no)
  PROVE  /\ pc[p] = from /\ pc'[p] = (IF cond THEN yes ELSE no)
         /\ Alone(p)' /\ NoOwnEnds'
         /\ UNCHANGED <<queue, player, clock, node, nodePaused, events>>
         /\ Sound' <=> Sound
<1>1. ControlOK /\ Alone(p)
  BY DEF TypeOK, AtWork
<1>2. /\ pc[p] = from
      /\ pc'[p] = (IF cond THEN yes ELSE no) /\ Alone(p)'
      /\ UNCHANGED <<queue, player, clock, votes, linkdave, bounds>>
  BY <1>1, Branched
<1> QED
  BY <1>2, SameSound, SameEnds DEF linkdave, AtWork

LEMMA CallerCalm ==
  ASSUME TypeOK, NEW h \in Handlers
  PROVE  /\ h \in Processes /\ h # Reader /\ queue.active \in BOOLEAN
         /\ (player = "playing") \in BOOLEAN /\ (player = "paused") \in BOOLEAN
<1>1. queue.active \in BOOLEAN
  BY DEF TypeOK, DataOK, Queue
<1>2. (player = "playing") \in BOOLEAN /\ (player = "paused") \in BOOLEAN
  OBVIOUS
<1>3. h # Reader /\ h \in Processes
  BY ReaderIsNoHandler DEF Processes
<1> QED
  BY <1>1, <1>2, <1>3

\* ensureVoice never finds a stale queue in calm: the mirror is not idle
\* while the queue is active.
LEMMA StaleCalm ==
  ASSUME TypeOK, MirrorInv, faults' = 0, NEW h \in Handlers, AtWork(h),
         ResetStaleQueue(h) \/ Resolve(h)
  PROVE  AtWork(h)'
<1>0. /\ h \in Processes /\ queue.active \in BOOLEAN
      /\ (player = "playing") \in BOOLEAN /\ (player = "paused") \in BOOLEAN
  BY CallerCalm
<1>m. events = <<>> => player = NodeState /\ (player = "idle" <=> node = None)
  BY MirrorIsNode
<1>p. player \in {"idle", "playing", "paused"}
  BY DEF TypeOK, DataOK, PlayerStates
<1>1. CASE Branch(h, "play", queue.active, "stale_playing", "resolve")
  <2>1. /\ pc[h] = "play" /\ pc'[h] = (IF queue.active THEN "stale_playing" ELSE "resolve")
        /\ Alone(h)' /\ NoOwnEnds'
        /\ UNCHANGED <<queue, player, clock, node, nodePaused, events>>
        /\ Sound' <=> Sound
    BY <1>0, <1>1, BranchCalm
  <2>2. Sound /\ events = <<>>
    BY <2>1 DEF AtWork, At, SoundLabels, MirrorLabels, GivenUp, EndLabels
  <2>3. At(pc[h], arg[h])'
    BY <2>1, <2>2 DEF At, SoundLabels, MirrorLabels, GivenUp, EndLabels, Sound, Settled, Emptied
  <2> QED
    BY <2>1, <2>3 DEF AtWork
<1>2. CASE Branch(h, "stale_playing", player = "playing", "resolve", "stale_paused")
  <2>1. /\ pc[h] = "stale_playing" /\ pc'[h] = (IF player = "playing" THEN "resolve" ELSE "stale_paused")
        /\ Alone(h)' /\ NoOwnEnds'
        /\ UNCHANGED <<queue, player, clock, node, nodePaused, events>>
        /\ Sound' <=> Sound
    BY <1>0, <1>2, BranchCalm
  <2>2. Sound /\ events = <<>> /\ queue.now # None
    BY <2>1 DEF AtWork, At, SoundLabels, MirrorLabels, GivenUp, EndLabels
  <2>3. At(pc[h], arg[h])'
    BY <2>1, <2>2 DEF At, SoundLabels, MirrorLabels, GivenUp, EndLabels, Sound, Settled, Emptied
  <2> QED
    BY <2>1, <2>3 DEF AtWork
<1>3. CASE Branch(h, "stale_paused", player = "paused", "resolve", "stale_clear")
  <2>1. /\ pc[h] = "stale_paused" /\ pc'[h] = (IF player = "paused" THEN "resolve" ELSE "stale_clear")
        /\ Alone(h)' /\ NoOwnEnds'
        /\ UNCHANGED <<queue, player, clock, node, nodePaused, events>>
        /\ Sound' <=> Sound
    BY <1>0, <1>3, BranchCalm
  <2>2. Sound /\ events = <<>> /\ queue.now # None /\ player # "playing"
    BY <2>1 DEF AtWork, At, SoundLabels, MirrorLabels, GivenUp, EndLabels
  <2>3. At(pc[h], arg[h])'
    BY <2>1, <2>2, <1>m, <1>p DEF At, SoundLabels, MirrorLabels, GivenUp, EndLabels, Sound, Settled, Emptied
  <2> QED
    BY <2>1, <2>3 DEF AtWork
<1>4. CASE Resolve(h)
  <2>1. ~Fault
    BY NoFault
  <2>2. /\ pc[h] = "resolve" /\ Goto(h, "enq_playing")
        /\ UNCHANGED <<queue, player, clock, node, nodePaused, events>>
    BY <1>4, <2>1 DEF Resolve, linkdave
  <2>3. pc'[h] = "enq_playing" /\ Alone(h)' /\ NoOwnEnds' /\ (Sound' <=> Sound)
    BY <1>0, <2>2, WentTo, SameEnds, SameSound DEF AtWork, TypeOK
  <2>4. Sound /\ events = <<>>
    BY <2>2 DEF AtWork, At, SoundLabels, MirrorLabels
  <2>5. At(pc[h], arg[h])'
    BY <2>2, <2>3, <2>4 DEF At, SoundLabels, MirrorLabels, GivenUp, EndLabels
  <2> QED
    BY <2>3, <2>5 DEF AtWork
<1>5. CASE \/ QueueStep(h, "stale_clear", Clear(queue), "stale_clock")
           \/ ClearClock(h, "stale_clock", "resolve")
  BY <1>5 DEF AtWork, At, QueueStep, ClearClock
<1> QED
  BY <1>1, <1>2, <1>3, <1>4, <1>5 DEF ResetStaleQueue

LEMMA EnqueueCalm ==
  ASSUME TypeOK, MirrorInv, NEW h \in Handlers, AtWork(h), EnqueueItems(h)
  PROVE  AtWork(h)'
<1>0. /\ h \in Processes /\ queue.active \in BOOLEAN
      /\ (player = "playing") \in BOOLEAN /\ (player = "paused") \in BOOLEAN
  BY CallerCalm
<1>m. events = <<>> => player = NodeState /\ (player = "idle" <=> node = None)
  BY MirrorIsNode
<1>p. player \in {"idle", "playing", "paused"}
  BY DEF TypeOK, DataOK, PlayerStates
<1>t. queue \in Queue /\ arg[h] \in Seq(Track) /\ (pc[h] \in Carrying => Head(arg[h]) \in Track)
  BY <1>0, TakeHead DEF TypeOK, DataOK, ControlOK
<1>1. CASE Branch(h, "enq_playing", player = "playing", "append", "enq_paused")
  <2>1. /\ pc[h] = "enq_playing" /\ pc'[h] = (IF player = "playing" THEN "append" ELSE "enq_paused")
        /\ Alone(h)' /\ NoOwnEnds'
        /\ UNCHANGED <<queue, player, clock, node, nodePaused, events>>
        /\ Sound' <=> Sound
    BY <1>0, <1>1, BranchCalm
  <2>2. Sound /\ events = <<>>
    BY <2>1 DEF AtWork, At, SoundLabels, MirrorLabels, GivenUp, EndLabels
  <2>3. At(pc[h], arg[h])'
    BY <2>1, <2>2, <1>m, <1>p DEF At, SoundLabels, MirrorLabels, GivenUp, EndLabels, Sound, Settled, Emptied
  <2> QED
    BY <2>1, <2>3 DEF AtWork
<1>2. CASE Branch(h, "enq_paused", player = "paused", "append", "enq_active")
  <2>1. /\ pc[h] = "enq_paused" /\ pc'[h] = (IF player = "paused" THEN "append" ELSE "enq_active")
        /\ Alone(h)' /\ NoOwnEnds'
        /\ UNCHANGED <<queue, player, clock, node, nodePaused, events>>
        /\ Sound' <=> Sound
    BY <1>0, <1>2, BranchCalm
  <2>2. Sound /\ events = <<>> /\ player # "playing"
    BY <2>1 DEF AtWork, At, SoundLabels, MirrorLabels, GivenUp, EndLabels
  <2>3. At(pc[h], arg[h])'
    BY <2>1, <2>2, <1>m, <1>p DEF At, SoundLabels, MirrorLabels, GivenUp, EndLabels, Sound, Settled, Emptied
  <2> QED
    BY <2>1, <2>3 DEF AtWork
<1>3. CASE Branch(h, "enq_active", queue.active, "append", "set_active")
  <2>1. /\ pc[h] = "enq_active" /\ pc'[h] = (IF queue.active THEN "append" ELSE "set_active")
        /\ Alone(h)' /\ NoOwnEnds'
        /\ UNCHANGED <<queue, player, clock, node, nodePaused, events>>
        /\ Sound' <=> Sound
    BY <1>0, <1>3, BranchCalm
  <2>2. Sound /\ node = None
    BY <2>1 DEF AtWork, At, SoundLabels, MirrorLabels, GivenUp, EndLabels
  <2>3. At(pc[h], arg[h])'
    BY <2>1, <2>2 DEF At, SoundLabels, MirrorLabels, GivenUp, EndLabels, Sound, Settled, Emptied
  <2> QED
    BY <2>1, <2>3 DEF AtWork
<1>4. ASSUME NEW from, NEW l, AppendItem(h, from, l), <<from, l>> \in {<<"append", "idle">>, <<"tail", "mark">>}
      PROVE  AtWork(h)'
  <2>1. /\ pc[h] = from /\ pc'[h] \in {from, l} /\ Alone(h)' /\ NoOwnEnds'
        /\ queue' = Enqueue(queue, Head(arg[h]))
        /\ UNCHANGED <<player, clock, node, nodePaused, events>>
    BY <1>0, <1>4, Moved, SameEnds DEF AppendItem, AtWork, TypeOK, linkdave
  <2>2. /\ from \in Carrying
        /\ queue'.now = queue.now /\ queue'.active = queue.active
    BY <1>4, <1>t, <2>1 DEF Enqueue, Queue, Carrying
  <2>3. /\ Settled(queue) /\ queue.now # None /\ queue.now = node
        /\ from = "append" => Sound
        /\ from = "tail" => node # None /\ ~nodePaused
    BY <1>4, <2>1 DEF AtWork, At, SoundLabels, Sound
  <2>4. /\ Settled(queue)' /\ queue'.now # None /\ queue'.now = node'
        /\ from = "append" => Sound'
    BY <2>1, <2>2, <2>3 DEF Settled, Sound, NodeState
  <2>5. At(pc[h], arg[h])'
    BY <1>4, <2>1, <2>3, <2>4 DEF At, SoundLabels, MirrorLabels, GivenUp, EndLabels
  <2> QED
    BY <2>1, <2>5 DEF AtWork
<1>5. CASE QueueStep(h, "set_active", SetActive(queue, TRUE), "set_now")
  <2>1. /\ pc[h] = "set_active" /\ pc'[h] = "set_now" /\ Alone(h)' /\ NoOwnEnds'
        /\ queue' = SetActive(queue, TRUE)
        /\ UNCHANGED <<player, clock, node, nodePaused, events>>
    BY <1>0, <1>5, WentTo, SameEnds DEF QueueStep, AtWork, TypeOK, linkdave
  <2>2. Sound /\ node = None
    BY <2>1 DEF AtWork, At, SoundLabels
  <2>3. queue'.now = None /\ queue'.items = <<>>
    BY <1>t, <2>1, <2>2 DEF Sound, Settled, SetActive, Queue
  <2>4. At(pc[h], arg[h])'
    BY <2>1, <2>2, <2>3 DEF At, SoundLabels, MirrorLabels, GivenUp, EndLabels
  <2> QED
    BY <2>1, <2>4 DEF AtWork
<1>6. CASE QueueStep(h, "set_now", SetNowPlaying(queue, Head(arg[h])), "start")
  <2>1. /\ pc[h] = "set_now" /\ pc'[h] = "start" /\ Alone(h)' /\ NoOwnEnds'
        /\ arg'[h] = arg[h]
        /\ queue' = SetNowPlaying(queue, Head(arg[h]))
        /\ UNCHANGED <<player, clock, node, nodePaused, events>>
    BY <1>0, <1>6, WentTo, SameEnds DEF QueueStep, AtWork, TypeOK, linkdave
  <2>2. node = None /\ queue.items = <<>> /\ Head(arg[h]) # None
    BY <1>t, <2>1, NoneIsNoTrack DEF AtWork, At, Carrying
  <2>3. queue'.now = Head(arg[h]) /\ queue'.items = <<>> /\ queue'.active
    BY <1>t, <2>1, <2>2 DEF SetNowPlaying, Queue
  <2>4. At(pc[h], arg[h])'
    BY <2>1, <2>2, <2>3 DEF At, SoundLabels, MirrorLabels, GivenUp, EndLabels, Settled
  <2> QED
    BY <2>1, <2>4 DEF AtWork
<1> QED
  BY <1>1, <1>2, <1>3, <1>4, <1>5, <1>6 DEF EnqueueItems

\* What the node sends on a call is no track's own end.
LEMMA SendNoEnd ==
  ASSUME NEW es \in Seq(Event), NEW e \in Event, ~OwnEnd(e),
         \A i \in DOMAIN es : ~OwnEnd(es[i])
  PROVE  /\ Append(es, e) \in Seq(Event)
         /\ \A i \in DOMAIN Append(es, e) : ~OwnEnd(Append(es, e)[i])
<1>1. /\ Append(es, e) \in Seq(Event) /\ Len(Append(es, e)) = Len(es) + 1
      /\ \A i \in 1 .. Len(es) : Append(es, e)[i] = es[i]
      /\ Append(es, e)[Len(es) + 1] = e
  BY AppendProperties
<1>2. DOMAIN es = 1 .. Len(es) /\ DOMAIN Append(es, e) = 1 .. Len(Append(es, e)) /\ Len(es) \in Nat
  BY <1>1, LenProperties
<1> QED
  BY <1>1, <1>2

LEMMA NodeEventsOwn ==
  ASSUME NEW t \in Track
  PROVE  /\ TrackStart(t) \in Event /\ ~OwnEnd(TrackStart(t))
         /\ \A r \in {"replaced", "stopped"} :
              TrackEnd(t, r) \in Event /\ ~OwnEnd(TrackEnd(t, r))
         /\ \A s \in PlayerStates :
              PlayerUpdate(s) \in Event /\ ~OwnEnd(PlayerUpdate(s))
BY DEF TrackStart, TrackEnd, PlayerUpdate, OwnEnd, Event

LEMMA PlayNoEnd ==
  ASSUME TypeOK, NoOwnEnds, NEW t \in Track, NodePlay(t)
  PROVE  NoOwnEnds' /\ node' = t /\ nodePaused' = FALSE
<1> DEFINE es == IF node = None THEN events ELSE Append(events, TrackEnd(node, "replaced"))
<1>1. events \in Seq(Event) /\ node \in Track \cup {None}
  BY DEF TypeOK, DataOK
<1>2. es \in Seq(Event) /\ \A i \in DOMAIN es : ~OwnEnd(es[i])
  <2>1. CASE node = None
    BY <1>1, <2>1 DEF NoOwnEnds
  <2>2. CASE node # None
    BY <1>1, <2>2, SendNoEnd, NodeEventsOwn DEF NoOwnEnds
  <2> QED
    BY <2>1, <2>2
<1>3. events' = es \o <<TrackStart(t)>> /\ node' = t /\ nodePaused' = FALSE
  BY DEF NodePlay
<1> HIDE DEF es
<1>4. es \o <<TrackStart(t)>> = Append(es, TrackStart(t))
  BY <1>2, NodeEventsOwn, AppendIsConcat
<1> QED
  BY <1>2, <1>3, <1>4, SendNoEnd, NodeEventsOwn DEF NoOwnEnds

LEMMA StopNoEnd ==
  ASSUME TypeOK, NoOwnEnds, NodeStop
  PROVE  NoOwnEnds' /\ node' = None
<1>1. events \in Seq(Event) /\ node \in Track \cup {None}
  BY DEF TypeOK, DataOK
<1>2. CASE node = None
  BY <1>2, SameEnds DEF NodeStop, linkdave
<1>3. CASE node # None
  <2> DEFINE e1 == TrackEnd(node, "stopped")
             e2 == PlayerUpdate("idle")
  <2>1. e1 \in Event /\ e2 \in Event /\ ~OwnEnd(e1) /\ ~OwnEnd(e2)
    BY <1>1, <1>3, NodeEventsOwn DEF PlayerStates
  <2>2. events' = events \o <<e1, e2>> /\ node' = None
    BY <1>3 DEF NodeStop
  <2> HIDE DEF e1, e2
  <2>3. events \o <<e1, e2>> = Append(Append(events, e1), e2)
    BY <1>1, <2>1
  <2>4. Append(events, e1) \in Seq(Event)
        /\ \A i \in DOMAIN Append(events, e1) : ~OwnEnd(Append(events, e1)[i])
    BY <1>1, <2>1, SendNoEnd DEF NoOwnEnds
  <2> QED
    BY <2>1, <2>2, <2>3, <2>4, SendNoEnd DEF NoOwnEnds
<1> QED
  BY <1>2, <1>3

LEMMA PauseNoEnd ==
  ASSUME TypeOK, NoOwnEnds, NEW b \in BOOLEAN, NodeSetPaused(b)
  PROVE  NoOwnEnds' /\ node' = node /\ (node # None => nodePaused' = b)
<1>1. events \in Seq(Event) /\ node \in Track \cup {None}
  BY DEF TypeOK, DataOK
<1>2. CASE node = None \/ nodePaused = b
  BY <1>2, SameEnds DEF NodeSetPaused, linkdave
<1>3. CASE ~(node = None \/ nodePaused = b)
  <2>1. /\ nodePaused' = b /\ node' = node
        /\ \E s \in {"paused", "playing"} : events' = Append(events, PlayerUpdate(s))
    BY <1>3 DEF NodeSetPaused
  <2>2. PICK s \in {"paused", "playing"} : events' = Append(events, PlayerUpdate(s))
    BY <2>1
  <2>3. PlayerUpdate(s) \in Event /\ ~OwnEnd(PlayerUpdate(s))
    BY <1>1, <1>3, NodeEventsOwn DEF PlayerStates
  <2> QED
    BY <1>1, <2>1, <2>2, <2>3, SendNoEnd DEF NoOwnEnds
<1> QED
  BY <1>2, <1>3

LEMMA PlayCalm ==
  ASSUME TypeOK, faults' = 0, NEW p \in Processes, AtWork(p), PlayCall(p)
  PROVE  AtWork(p)'
<1>1. ~Fault
  BY NoFault
<1>2. /\ pc[p] \in {"start", "skip_play", "next_play"}
      /\ NodePlay(Head(arg[p]))
      /\ Move(p, IF pc[p] = "start" /\ Len(arg[p]) > 1 THEN "tail" ELSE "mark", Tail(arg[p]))
      /\ UNCHANGED <<queue, player, clock>>
  BY <1>1 DEF PlayCall
<1>3. Head(arg[p]) \in Track
  BY <1>2, TakeHead DEF TypeOK, ControlOK, Carrying
<1>4. queue.now = Head(arg[p]) /\ Settled(queue)
  BY <1>2 DEF AtWork, At
<1>5. NoOwnEnds' /\ node' = Head(arg[p]) /\ nodePaused' = FALSE
  BY <1>2, <1>3, PlayNoEnd DEF AtWork
<1>6. pc'[p] \in {"tail", "mark"} /\ Alone(p)'
  BY <1>2, Moved DEF AtWork, TypeOK
<1>7. queue'.now = node' /\ Settled(queue)' /\ node' # None
  BY <1>2, <1>3, <1>4, <1>5, NoneIsNoTrack DEF Settled
<1>8. At(pc[p], arg[p])'
  BY <1>5, <1>6, <1>7 DEF At, SoundLabels, MirrorLabels, GivenUp, EndLabels
<1> QED
  BY <1>5, <1>6, <1>8 DEF AtWork

LEMMA StopCalm ==
  ASSUME TypeOK, faults' = 0, NEW p \in Processes, AtWork(p),
         StopCall(p, "skip_stop", "drop") \/ StopCall(p, "clear_stop", "idle")
  PROVE  AtWork(p)'
<1>1. ~Fault
  BY NoFault
<1>2. /\ NodeStop /\ UNCHANGED <<queue, player, clock>>
      /\ \/ pc[p] = "skip_stop" /\ Goto(p, "drop")
         \/ pc[p] = "clear_stop" /\ Finish(p)
  BY <1>1 DEF StopCall
<1>3. NoOwnEnds' /\ node' = None
  BY <1>2, StopNoEnd DEF AtWork
<1>4. /\ Emptied(queue) /\ (pc[p] = "clear_stop" => clock = "none")
  BY <1>2 DEF AtWork, At, GivenUp
<1>5. Alone(p)' /\ (IF pc[p] = "skip_stop" THEN pc'[p] = "drop" ELSE pc'[p] = "idle")
  BY <1>2, WentTo, Finished DEF AtWork, TypeOK
<1>6. Emptied(queue)' /\ (pc[p] = "clear_stop" => Sound')
  BY <1>2, <1>3, <1>4 DEF Emptied, Sound, Settled, NodeState, ClockOf
<1>7. At(pc[p], arg[p])'
  BY <1>2, <1>3, <1>5, <1>6 DEF At, SoundLabels, MirrorLabels, GivenUp, EndLabels
<1> QED
  BY <1>3, <1>5, <1>7 DEF AtWork

LEMMA PauseCalm ==
  ASSUME TypeOK, faults' = 0, NEW h \in Handlers, AtWork(h), PauseResume(h)
  PROVE  AtWork(h)'
<1>0. h \in Processes /\ ~Fault
  BY CallerCalm, NoFault
<1>1. ASSUME NEW b \in BOOLEAN, NEW from, NEW l, PauseCall(h, from, b, l),
             <<from, l, b>> \in {<<"pause", "freeze", TRUE>>, <<"resume", "thaw", FALSE>>}
      PROVE  AtWork(h)'
  <2>1. /\ pc[h] = from /\ NodeSetPaused(b) /\ Goto(h, l)
        /\ UNCHANGED <<queue, player, clock>>
    BY <1>0, <1>1 DEF PauseCall
  <2>2. NoOwnEnds' /\ node' = node /\ (node # None => nodePaused' = b)
    BY <2>1, PauseNoEnd DEF AtWork
  <2>3. Sound
    BY <1>1, <2>1 DEF AtWork, At, SoundLabels
  <2>4. pc'[h] = l /\ Alone(h)'
    BY <1>0, <2>1, WentTo DEF AtWork, TypeOK
  <2>5. /\ queue'.now = node' /\ Settled(queue)'
        /\ node' = None => clock' = "none"
        /\ node' # None => clock' \in {"running", "frozen"} /\ nodePaused' = (l = "freeze")
    BY <1>1, <2>1, <2>2, <2>3 DEF Sound, Settled, ClockOf, NodeState
  <2>6. At(pc[h], arg[h])'
    BY <1>1, <2>4, <2>5 DEF At, SoundLabels, MirrorLabels, GivenUp, EndLabels
  <2> QED
    BY <2>2, <2>4, <2>6 DEF AtWork
<1>2. ASSUME NEW from \in {"freeze", "thaw"}, NEW old, NEW new, MarkPaused(h, from, old, new),
             IF from = "freeze" THEN old = {"running", "frozen"} /\ new = "frozen"
                                ELSE old = {"frozen"} /\ new = "running"
      PROVE  AtWork(h)'
  <2>1. /\ pc[h] = from /\ clock' = (IF clock \in old THEN new ELSE clock) /\ Finish(h)
        /\ UNCHANGED <<queue, player, node, nodePaused, events>>
    BY <1>2 DEF MarkPaused, linkdave
  <2>2. pc'[h] = "idle" /\ Alone(h)' /\ NoOwnEnds'
    BY <1>0, <2>1, Finished, SameEnds DEF AtWork, TypeOK
  <2>3. /\ queue.now = node /\ Settled(queue)
        /\ node = None => clock = "none"
        /\ node # None => clock \in {"running", "frozen"} /\ nodePaused = (from = "freeze")
    BY <2>1 DEF AtWork, At
  <2>4. clock' = ClockOf(NodeState')
    <3>1. CASE node = None
      BY <1>2, <2>1, <2>3, <3>1 DEF NodeState, ClockOf
    <3>2. CASE node # None
      BY <1>2, <2>1, <2>3, <3>2 DEF NodeState, ClockOf
    <3> QED
      BY <3>1, <3>2
  <2>5. Sound'
    BY <2>1, <2>3, <2>4 DEF Sound, Settled
  <2>6. At(pc[h], arg[h])'
    BY <2>2, <2>5 DEF At, SoundLabels, MirrorLabels, GivenUp, EndLabels
  <2> QED
    BY <2>2, <2>6 DEF AtWork
<1> QED
  BY <1>1, <1>2 DEF PauseResume

\* The steps of a skip before its calls.
LEMMA SkipCalm ==
  ASSUME TypeOK, NEW h \in Handlers, AtWork(h),
         CastVote(h) \/ ClearVotes(h, "vote_clear", "skip") \/ SkipPop(h)
  PROVE  AtWork(h)'
<1>0. h \in Processes /\ queue \in Queue
  BY CallerCalm DEF TypeOK, DataOK
<1>1. Sound /\ NoOwnEnds'
  BY SameEnds DEF AtWork, At, SoundLabels, CastVote, ClearVotes, SkipPop, linkdave
<1>2. CASE CastVote(h) \/ ClearVotes(h, "vote_clear", "skip")
  <2>1. pc'[h] \in {"idle", "vote_clear", "skip"} /\ Alone(h)'
    BY <1>0, <1>2, WentTo, Finished DEF CastVote, ClearVotes, AtWork, TypeOK
  <2>2. Sound'
    BY <1>1, <1>2, SameSound DEF CastVote, ClearVotes, linkdave
  <2>3. At(pc[h], arg[h])'
    BY <2>1, <2>2 DEF At, SoundLabels, MirrorLabels, GivenUp, EndLabels
  <2> QED
    BY <1>1, <2>1, <2>3 DEF AtWork
<1>3. CASE SkipPop(h)
  <2>1. /\ queue' = Advance(queue)
        /\ IF queue'.now = None THEN Goto(h, "skip_stop")
                                ELSE Move(h, "skip_play", <<queue'.now>>)
    BY <1>3 DEF SkipPop, Skip
  <2>2. queue'.now = None => Emptied(queue)'
    <3>1. queue.items # <<>> => Head(queue.items) # None
      BY <1>0, TakeHead, NoneIsNoTrack DEF Queue
    <3> QED
      BY <1>0, <2>1, <3>1 DEF Advance, Emptied, Queue
  <2>3. queue'.now # None => Settled(queue)'
    BY <1>0, <1>1, <2>1 DEF Advance, Sound, Settled, Queue
  <2>4. /\ Alone(h)'
        /\ IF queue'.now = None THEN pc'[h] = "skip_stop"
                                ELSE pc'[h] = "skip_play" /\ arg'[h] = <<queue'.now>>
    <3>1. CASE queue'.now = None
      BY <1>0, <2>1, <3>1, WentTo DEF AtWork, TypeOK
    <3>2. CASE queue'.now # None
      <4>1. PICK t : t = queue'.now
        OBVIOUS
      <4> QED
        BY <1>0, <2>1, <3>2, <4>1, Moved DEF AtWork, TypeOK
    <3> QED
      BY <3>1, <3>2
  <2>5. At(pc[h], arg[h])'
    <3>1. queue'.now # None => Head(arg'[h]) = queue'.now
      BY <2>4
    <3> QED
      BY <2>2, <2>3, <2>4, <3>1 DEF At, SoundLabels, MirrorLabels, GivenUp, EndLabels
  <2> QED
    BY <1>1, <2>4, <2>5 DEF AtWork
<1> QED
  BY <1>2, <1>3

LEMMA ClearCalm ==
  ASSUME TypeOK, MirrorInv, faults' = 0, NEW h \in Handlers, AtWork(h), ClearAll(h)
  PROVE  AtWork(h)'
<1>0. /\ h \in Processes /\ queue \in Queue
      /\ (player = "playing") \in BOOLEAN /\ (player = "paused") \in BOOLEAN
  BY CallerCalm DEF TypeOK, DataOK
<1>m. events = <<>> => player = NodeState /\ (player = "idle" <=> node = None)
  BY MirrorIsNode
<1>p. player \in {"idle", "playing", "paused"}
  BY DEF TypeOK, DataOK, PlayerStates
<1>1. CASE QueueStep(h, "clear", Clear(queue), "clear_clock")
  <2>1. /\ pc[h] = "clear" /\ pc'[h] = "clear_clock" /\ Alone(h)' /\ NoOwnEnds'
        /\ queue' = Clear(queue) /\ UNCHANGED events
    BY <1>0, <1>1, WentTo, SameEnds DEF QueueStep, AtWork, TypeOK, linkdave
  <2>2. events = <<>>
    BY <2>1 DEF AtWork, At, MirrorLabels
  <2>3. Emptied(queue)'
    BY <1>0, <2>1 DEF Emptied, Clear, Queue
  <2>4. At(pc[h], arg[h])'
    BY <2>1, <2>2, <2>3 DEF At, SoundLabels, MirrorLabels, GivenUp, EndLabels
  <2> QED
    BY <2>1, <2>4 DEF AtWork
<1>2. CASE \/ ClearClock(h, "clear_clock", "clear_votes")
           \/ ClearVotes(h, "clear_votes", "clear_playing")
  <2>1. /\ \/ pc[h] = "clear_clock" /\ pc'[h] = "clear_votes" /\ clock' = "none"
           \/ pc[h] = "clear_votes" /\ pc'[h] = "clear_playing" /\ clock' = clock
        /\ Alone(h)' /\ NoOwnEnds' /\ UNCHANGED <<queue, events>>
    <3>1. /\ \/ pc[h] = "clear_clock" /\ Goto(h, "clear_votes") /\ clock' = "none"
             \/ pc[h] = "clear_votes" /\ Goto(h, "clear_playing") /\ clock' = clock
          /\ UNCHANGED <<queue, events>>
      BY <1>2 DEF ClearClock, ClearVotes, linkdave
    <3>2. ControlOK /\ Alone(h) /\ NoOwnEnds
      BY DEF AtWork, TypeOK
    <3>3. NoOwnEnds'
      BY <3>1, <3>2, SameEnds
    <3>4. CASE pc[h] = "clear_clock" /\ Goto(h, "clear_votes") /\ clock' = "none"
      BY <1>0, <3>1, <3>2, <3>3, <3>4, WentTo
    <3>5. CASE pc[h] = "clear_votes" /\ Goto(h, "clear_playing") /\ clock' = clock
      BY <1>0, <3>1, <3>2, <3>3, <3>5, WentTo
    <3> QED
      BY <3>1, <3>4, <3>5
  <2>2. /\ events = <<>> /\ Emptied(queue)
        /\ pc[h] = "clear_votes" => clock = "none"
    BY <2>1 DEF AtWork, At, MirrorLabels, GivenUp
  <2>3. At(pc[h], arg[h])'
    BY <2>1, <2>2 DEF At, SoundLabels, MirrorLabels, GivenUp, EndLabels, Emptied
  <2> QED
    BY <2>1, <2>3 DEF AtWork
<1>3. CASE Branch(h, "clear_playing", player = "playing", "clear_stop", "clear_paused")
  <2>1. /\ pc[h] = "clear_playing" /\ pc'[h] = (IF player = "playing" THEN "clear_stop" ELSE "clear_paused")
        /\ Alone(h)' /\ NoOwnEnds'
        /\ UNCHANGED <<queue, player, clock, node, nodePaused, events>>
        /\ Sound' <=> Sound
    BY <1>0, <1>3, BranchCalm
  <2>2. Emptied(queue) /\ clock = "none" /\ events = <<>>
    BY <2>1 DEF AtWork, At, SoundLabels, MirrorLabels, GivenUp, EndLabels
  <2>3. At(pc[h], arg[h])'
    BY <2>1, <2>2 DEF At, SoundLabels, MirrorLabels, GivenUp, EndLabels, Sound, Settled, Emptied
  <2> QED
    BY <2>1, <2>3 DEF AtWork
<1>4. CASE Branch(h, "clear_paused", player = "paused", "clear_stop", "idle")
  <2>1. /\ pc[h] = "clear_paused" /\ pc'[h] = (IF player = "paused" THEN "clear_stop" ELSE "idle")
        /\ Alone(h)' /\ NoOwnEnds'
        /\ UNCHANGED <<queue, player, clock, node, nodePaused, events>>
        /\ Sound' <=> Sound
    BY <1>0, <1>4, BranchCalm
  <2>2. Emptied(queue) /\ clock = "none" /\ events = <<>> /\ player # "playing"
    BY <2>1 DEF AtWork, At, SoundLabels, MirrorLabels, GivenUp, EndLabels
  <2>3. At(pc[h], arg[h])'
    BY <2>1, <2>2, <1>m, <1>p DEF At, SoundLabels, MirrorLabels, GivenUp, EndLabels, Sound, Settled, Emptied,
      NodeState, ClockOf
  <2> QED
    BY <2>1, <2>3 DEF AtWork
<1>5. CASE StopCall(h, "clear_stop", "idle")
  BY <1>0, <1>5, StopCalm
<1> QED
  BY <1>1, <1>2, <1>3, <1>4, <1>5 DEF ClearAll

\* An edit of the waiting tracks leaves some, unless there were none.
LEMMA EditsSettled ==
  ASSUME NEW q \in Queue, Settled(q), NEW r,
         \/ \E i \in Nat : r \in {RemoveUpcoming(q, i), MoveUpcomingToFront(q, i)}
         \/ r \in ShuffleUpcoming(q)
         \/ \E m \in LoopModes : r = SetLoop(q, m)
  PROVE  r.now = q.now /\ Settled(r)
<1>1. ASSUME NEW i \in Nat, r \in {RemoveUpcoming(q, i), MoveUpcomingToFront(q, i)}
      PROVE  r.now = q.now /\ Settled(r)
  <2>1. r.now = q.now /\ r.active = q.active
    BY <1>1, QueueEditsType
  <2>2. q.items = <<>> => r = q
    BY <1>1 DEF RemoveUpcoming, MoveUpcomingToFront, ValidIndex
  <2> QED
    BY <2>1, <2>2 DEF Settled
<1>2. CASE r \in ShuffleUpcoming(q)
  <2>1. r.now = q.now /\ r.active = q.active /\ r \in Queue
    BY <1>2, ShuffleType
  <2>2. q.items = <<>> => r.items = <<>>
    <3> SUFFICES ASSUME q.items = <<>> PROVE r.items = <<>>
      OBVIOUS
    <3>1. \E f : r = [q EXCEPT !.items = [i \in 1 .. 0 |-> q.items[f[i]]]]
      BY <1>2 DEF ShuffleUpcoming
    <3>2. PICK f : r.items = [i \in 1 .. 0 |-> q.items[f[i]]]
      BY <3>1 DEF Queue
    <3>3. r.items \in Seq(Track) /\ DOMAIN r.items = {}
      BY <2>1, <3>2 DEF Queue
    <3>4. Len(r.items) = 0
      <4>1. Len(r.items) \in Nat /\ DOMAIN r.items = 1 .. Len(r.items)
        BY <3>3, LenProperties
      <4>2. Len(r.items) > 0 => 1 \in DOMAIN r.items
        <5> DEFINE n == Len(r.items)
        <5>1. n \in Nat /\ DOMAIN r.items = 1 .. n
          BY <4>1
        <5> HIDE DEF n
        <5> QED
          BY <5>1 DEF n
      <4> QED
        BY <3>3, <4>1, <4>2
    <3> QED
      BY <3>3, <3>4, EmptySeq
  <2> QED
    BY <2>1, <2>2 DEF Settled
<1>3. ASSUME NEW m \in LoopModes, r = SetLoop(q, m)
      PROVE  r.now = q.now /\ Settled(r)
  BY <1>3 DEF SetLoop, Queue, Settled
<1> QED
  BY <1>1, <1>2, <1>3

LEMMA EditCalm ==
  ASSUME TypeOK, NEW h \in Handlers, AtWork(h), EditQueue(h)
  PROVE  AtWork(h)'
<1>0. h \in Processes /\ queue \in Queue
  BY CallerCalm DEF TypeOK, DataOK
<1>1. /\ pc[h] \in {"remove", "boost", "shuffle", "loop"} /\ Finish(h)
      /\ UNCHANGED <<player, clock, node, nodePaused, events>>
      /\ \/ \E i \in Nat : queue' \in {RemoveUpcoming(queue, i), MoveUpcomingToFront(queue, i)}
         \/ queue' \in ShuffleUpcoming(queue)
         \/ \E m \in LoopModes : queue' = SetLoop(queue, m)
  BY DEF EditQueue, QueueEdit, linkdave
<1>2. Sound
  BY <1>1 DEF AtWork, At, SoundLabels
<1>3. queue'.now = queue.now /\ Settled(queue')
  BY <1>0, <1>1, <1>2, EditsSettled DEF Sound
<1>4. Sound'
  BY <1>1, <1>2, <1>3 DEF Sound, Settled, NodeState
<1>5. pc'[h] = "idle" /\ Alone(h)' /\ NoOwnEnds'
  BY <1>0, <1>1, Finished, SameEnds DEF AtWork, TypeOK
<1>6. At(pc[h], arg[h])'
  BY <1>4, <1>5 DEF At, SoundLabels, MirrorLabels, GivenUp, EndLabels
<1> QED
  BY <1>5, <1>6 DEF AtWork

LEMMA SharedCalm ==
  ASSUME TypeOK, faults' = 0, NEW p \in Processes, AtWork(p), SharedStep(p)
  PROVE  AtWork(p)'
<1>0. queue \in Queue
  BY DEF TypeOK, DataOK
<1>1. CASE MarkStart(p)
  <2>1. /\ pc[p] = "mark" /\ clock' = "running" /\ Finish(p)
        /\ UNCHANGED <<queue, node, nodePaused, events>>
    BY <1>1 DEF MarkStart, linkdave
  <2>2. pc'[p] = "idle" /\ Alone(p)' /\ NoOwnEnds'
    BY <2>1, Finished, SameEnds DEF AtWork, TypeOK
  <2>3. Sound'
    BY <2>1 DEF AtWork, At, Sound, Settled, NodeState, ClockOf
  <2>4. At(pc[p], arg[p])'
    BY <2>2, <2>3 DEF At, SoundLabels, MirrorLabels, GivenUp, EndLabels
  <2> QED
    BY <2>2, <2>4 DEF AtWork
<1>2. CASE Drop(p)
  <2>1. /\ pc[p] = "drop" /\ pc'[p] = "drop_clock" /\ Alone(p)' /\ NoOwnEnds'
        /\ queue' = Clear(queue) /\ node' = node
    BY <1>2, WentTo, SameEnds DEF Drop, QueueStep, AtWork, TypeOK, linkdave
  <2>2. node = None
    BY <2>1 DEF AtWork, At
  <2>3. Emptied(queue)'
    BY <1>0, <2>1 DEF Emptied, Clear, Queue
  <2>4. At(pc[p], arg[p])'
    BY <2>1, <2>2, <2>3 DEF At, SoundLabels, MirrorLabels, GivenUp, EndLabels
  <2> QED
    BY <2>1, <2>4 DEF AtWork
<1>3. CASE ClearClock(p, "drop_clock", "idle")
  <2>1. /\ pc[p] = "drop_clock" /\ clock' = "none" /\ Finish(p)
        /\ UNCHANGED <<queue, node, nodePaused, events>>
    BY <1>3 DEF ClearClock, linkdave
  <2>2. pc'[p] = "idle" /\ Alone(p)' /\ NoOwnEnds'
    BY <2>1, Finished, SameEnds DEF AtWork, TypeOK
  <2>3. Sound'
    BY <2>1 DEF AtWork, At, GivenUp, Emptied, Sound, Settled, NodeState, ClockOf
  <2>4. At(pc[p], arg[p])'
    BY <2>2, <2>3 DEF At, SoundLabels, MirrorLabels, GivenUp, EndLabels
  <2> QED
    BY <2>2, <2>4 DEF AtWork
<1> QED
  BY <1>1, <1>2, <1>3, PlayCalm DEF SharedStep

LEMMA HandlerCalm ==
  ASSUME TypeOK, MirrorInv, faults' = 0, NEW h \in Handlers, AtWork(h), HandlerStep(h)
  PROVE  AtWork(h)'
<1>1. h \in Processes
  BY CallerCalm
<1> QED
  BY <1>1, StaleCalm, EnqueueCalm, SkipCalm, StopCalm, PauseCalm, ClearCalm, EditCalm, SharedCalm
  DEF HandlerStep, SkipTrack

-----------------------------------------------------------------------------
(* The read loop in calm.                                                  *)

LEMMA EndCalm ==
  ASSUME TypeOK, MirrorInv, AtWork(Reader), OnTrackEnd
  PROVE  AtWork(Reader)'
<1>0. /\ Reader \in Processes /\ queue \in Queue /\ queue.active \in BOOLEAN
      /\ (queue.loop = "track") \in BOOLEAN /\ (queue.loop = "queue") \in BOOLEAN
  <2>1. (queue.loop = "track") \in BOOLEAN /\ (queue.loop = "queue") \in BOOLEAN
    OBVIOUS
  <2> QED
    BY <2>1 DEF Processes, TypeOK, DataOK, Queue
<1>1. pc[Reader] \in EndLabels
  BY DEF OnTrackEnd, Branch, CopyNow, AppendItem, AdvanceQueue, EndLabels
<1>2. /\ Settled(queue) /\ queue.now # None /\ node = None /\ ControlOK
      /\ Alone(Reader) /\ NoOwnEnds
  BY <1>1 DEF AtWork, At, TypeOK
<1>3. NoOwnEnds' /\ node' = node
  BY <1>2, SameEnds DEF OnTrackEnd, Branch, CopyNow, AppendItem, AdvanceQueue, linkdave
<1>4. CASE \/ Branch(Reader, "end_active", queue.active, "end_track", "idle")
           \/ Branch(Reader, "end_track", queue.loop = "track", "end_now", "end_queue")
           \/ Branch(Reader, "end_queue", queue.loop = "queue", "end_finished", "advance")
  <2>1. queue.active
    BY <1>2 DEF Settled
  <2>2. /\ pc'[Reader] \in {"end_track", "end_now", "end_queue", "end_finished", "advance"}
        /\ Alone(Reader)' /\ UNCHANGED queue
    <3>1. CASE Branch(Reader, "end_active", queue.active, "end_track", "idle")
      <4>1. /\ pc'[Reader] = (IF queue.active THEN "end_track" ELSE "idle")
            /\ Alone(Reader)' /\ UNCHANGED queue
        BY <1>0, <3>1, BranchCalm
      <4>2. pc'[Reader] = "end_track"
        BY <2>1, <4>1
      <4> QED
        BY <4>1, <4>2
    <3>2. CASE Branch(Reader, "end_track", queue.loop = "track", "end_now", "end_queue")
      BY <1>0, <3>2, BranchCalm
    <3>3. CASE Branch(Reader, "end_queue", queue.loop = "queue", "end_finished", "advance")
      BY <1>0, <3>3, BranchCalm
    <3> QED
      BY <1>4, <3>1, <3>2, <3>3
  <2>3. At(pc[Reader], arg[Reader])'
    BY <1>2, <1>3, <2>2 DEF At, SoundLabels, MirrorLabels, GivenUp, EndLabels, Settled
  <2> QED
    BY <1>3, <2>2, <2>3 DEF AtWork
<1>5. CASE CopyNow("end_now", "next_play", "end_queue") \/ CopyNow("end_finished", "requeue", "advance")
  <2>1. /\ \E l \in {"next_play", "requeue"} : Move(Reader, l, <<queue.now>>)
        /\ UNCHANGED queue
    BY <1>2, <1>5 DEF CopyNow
  <2>2. PICK l \in {"next_play", "requeue"} :
          \E t \in {queue.now} : Move(Reader, l, <<t>>)
    BY <2>1
  <2>3. pc'[Reader] = l /\ arg'[Reader] = <<queue.now>> /\ Alone(Reader)'
    BY <1>0, <1>2, <2>2, Moved
  <2>4. At(pc[Reader], arg[Reader])'
    <3>1. Head(arg'[Reader]) = queue'.now
      BY <2>1, <2>2, <2>3
    <3>2. Settled(queue') /\ queue'.now # None /\ node' = None
      BY <1>2, <1>3, <2>1
    <3> QED
      BY <2>3, <3>1, <3>2 DEF At, SoundLabels, MirrorLabels, GivenUp, EndLabels, Settled
  <2> QED
    BY <1>3, <2>3, <2>4 DEF AtWork
<1>6. CASE AppendItem(Reader, "requeue", "advance")
  <2>1. /\ pc[Reader] = "requeue" /\ pc'[Reader] \in {"requeue", "advance"} /\ Alone(Reader)'
        /\ queue' = Enqueue(queue, Head(arg[Reader]))
    BY <1>0, <1>2, <1>6, Moved DEF AppendItem
  <2>2. queue'.now = queue.now /\ queue'.active = queue.active
    BY <1>0, <2>1 DEF Enqueue, Queue
  <2>3. At(pc[Reader], arg[Reader])'
    BY <1>2, <1>3, <2>1, <2>2 DEF At, SoundLabels, MirrorLabels, GivenUp, EndLabels, Settled
  <2> QED
    BY <1>3, <2>1, <2>3 DEF AtWork
<1>7. CASE AdvanceQueue
  <2>1. /\ queue' = Advance(queue)
        /\ IF queue'.now = None THEN Goto(Reader, "drop_clock")
                                ELSE Move(Reader, "next_play", <<queue'.now>>)
    BY <1>7 DEF AdvanceQueue
  <2>2. queue'.now = None => Emptied(queue)'
    <3>1. queue.items # <<>> => Head(queue.items) # None
      BY <1>0, TakeHead, NoneIsNoTrack DEF Queue
    <3> QED
      BY <1>0, <2>1, <3>1 DEF Advance, Emptied, Queue
  <2>3. queue'.now # None => Settled(queue)'
    BY <1>0, <1>2, <2>1 DEF Advance, Settled, Queue
  <2>4. /\ Alone(Reader)'
        /\ IF queue'.now = None
             THEN pc'[Reader] = "drop_clock"
             ELSE pc'[Reader] = "next_play" /\ arg'[Reader] = <<queue'.now>>
    <3>1. CASE queue'.now = None
      BY <1>0, <1>2, <2>1, <3>1, WentTo
    <3>2. CASE queue'.now # None
      <4>1. PICK t : t = queue'.now
        OBVIOUS
      <4> QED
        BY <1>0, <1>2, <2>1, <3>2, <4>1, Moved
    <3> QED
      BY <3>1, <3>2
  <2>5. At(pc[Reader], arg[Reader])'
    <3>1. queue'.now # None => Head(arg'[Reader]) = queue'.now
      BY <2>4
    <3> QED
      BY <1>2, <1>3, <2>2, <2>3, <2>4, <3>1 DEF At, SoundLabels, MirrorLabels, GivenUp, EndLabels
  <2> QED
    BY <1>3, <2>4, <2>5 DEF AtWork
<1> QED
  BY <1>4, <1>5, <1>6, <1>7 DEF OnTrackEnd

\* The read loop takes an event: a report, while whoever is at work no longer
\* looks at the mirror, or the end of a track.
LEMMA ReceiveCalm ==
  ASSUME TypeOK, CalmInv, Receive
  PROVE  CalmInv'
<1>1. /\ events \in Seq(Event) /\ events # <<>> /\ events' = Tail(events)
      /\ pc[Reader] = "idle" /\ Reader \in Processes /\ ControlOK
      /\ UNCHANGED <<queue, clock, node, nodePaused, arg>>
      /\ Len(events) \in Nat /\ Head(events) = events[1]
  BY LenProperties DEF Receive, TypeOK, DataOK, Processes
<1>2. /\ Len(events') = Len(events) - 1 /\ events' \in Seq(Event)
      /\ \A i \in 1 .. Len(events') : events'[i] = events[i + 1]
      /\ DOMAIN events' = 1 .. Len(events') /\ DOMAIN events = 1 .. Len(events)
      /\ Len(events) > 0
  BY <1>1, HeadTailProperties, LenProperties, EmptySeq
<1>3. CASE EndUnread
  <2>1. /\ Len(events') = 0 /\ OwnEnd(Head(events))
        /\ Settled(queue) /\ queue.now # None /\ node = None
        /\ \A q \in Processes : pc[q] = "idle"
    BY <1>1, <1>2, <1>3 DEF EndUnread
  <2>2. pc' = [pc EXCEPT ![Reader] = "end_active"]
    BY <2>1 DEF Receive
  <2>3. NoOwnEnds'
    BY <1>2, <2>1 DEF NoOwnEnds
  <2>4. pc'[Reader] = "end_active" /\ Alone(Reader)'
    BY <1>1, <2>1, <2>2 DEF Alone, ControlOK
  <2>5. At(pc[Reader], arg[Reader])'
    BY <1>1, <2>1, <2>4 DEF At, SoundLabels, MirrorLabels, GivenUp, EndLabels, Settled
  <2> QED
    BY <1>1, <2>3, <2>4, <2>5 DEF AtWork, CalmInv
<1>4. ASSUME NEW p \in Processes, AtWork(p)
      PROVE  CalmInv'
  <2>1. NoOwnEnds /\ ~OwnEnd(Head(events))
    BY <1>1, <1>2, <1>4 DEF AtWork, NoOwnEnds
  <2>2. pc' = pc
    BY <2>1 DEF Receive
  <2>3. NoOwnEnds'
    BY <1>1, <1>2, <2>1 DEF NoOwnEnds
  <2>4. pc[p] \notin MirrorLabels
    BY <1>1, <1>4 DEF AtWork, At
  <2>5. Sound' <=> Sound
    BY <1>1, SameSound
  <2>6. At(pc[p], arg[p])'
    BY <1>1, <1>4, <2>2, <2>4, <2>5
    DEF AtWork, At, SoundLabels, MirrorLabels, GivenUp, EndLabels, Settled, Emptied
  <2> QED
    BY <1>4, <2>2, <2>3, <2>6 DEF AtWork, Alone, CalmInv
<1> QED
  BY <1>3, <1>4 DEF CalmInv

-----------------------------------------------------------------------------
(* Who begins, begins in quiet.                                            *)

LEMMA QuietIsSound ==
  ASSUME TypeOK, CalmInv, Quiet
  PROVE  Sound /\ NoOwnEnds
<1>1. ~EndUnread
  BY LenProperties DEF Quiet, EndUnread, TypeOK, DataOK
<1>2. PICK p \in Processes : AtWork(p)
  BY <1>1 DEF CalmInv
<1> QED
  BY <1>2 DEF AtWork, At, SoundLabels, Quiet

LEMMA BeginCalm ==
  ASSUME TypeOK, CalmInv, OneAtATime, NEW h \in Handlers, Begin(h)
  PROVE  CalmInv'
<1>1. /\ Quiet /\ ControlOK /\ h \in Processes
      /\ UNCHANGED <<queue, player, clock, node, nodePaused, events>>
  BY CallerCalm DEF Begin, MayStart, TypeOK, linkdave
<1>2. Sound /\ NoOwnEnds /\ events = <<>> /\ Alone(h)
  BY <1>1, QuietIsSound DEF Quiet, Alone
<1>3. pc'[h] \in AllCommands /\ Alone(h)'
  <2>1. CASE \E c \in Commands \ {"play"} : Goto(h, c)
    BY <1>1, <1>2, <2>1, WentTo, CommandsAssumption
  <2>2. CASE \E n \in RequestSizes :
               Move(h, "play", [i \in 1 .. n |-> [req |-> requests + 1, pos |-> i]])
    BY <1>1, <1>2, <2>2, Moved DEF AllCommands
  <2> QED
    BY <2>1, <2>2 DEF Begin
<1>4. Sound' /\ NoOwnEnds'
  BY <1>1, <1>2, SameSound, SameEnds
<1>5. At(pc[h], arg[h])'
  BY <1>1, <1>2, <1>3, <1>4 DEF At, AllCommands, SoundLabels, MirrorLabels, GivenUp, EndLabels
<1> QED
  BY <1>1, <1>3, <1>4, <1>5 DEF AtWork, CalmInv

LEMMA FinishCalm ==
  ASSUME TypeOK, CalmInv, OneAtATime, NodeFinish
  PROVE  CalmInv'
<1>1. Quiet /\ node # None /\ node' = None /\ UNCHANGED <<queue, pc>>
  BY DEF NodeFinish, MayStart, control
<1>2. Sound
  BY <1>1, QuietIsSound
<1>3. PICK r \in EndReasons : events' = Append(events, TrackEnd(node, r))
  BY DEF NodeFinish
<1>4. events' = <<TrackEnd(node, r)>>
  BY <1>1, <1>3 DEF Quiet
<1>5. Len(events') = 1 /\ OwnEnd(events'[1])
  BY <1>3, <1>4, ReasonsAssumption DEF TrackEnd, OwnEnd
<1> QED
  BY <1>1, <1>2, <1>5 DEF EndUnread, CalmInv, Quiet, Sound, Settled

\* Who takes a step of a method is at work, and nobody else is.
LEMMA OnlyWorker ==
  ASSUME CalmInv, NEW p \in Processes, pc[p] # "idle"
  PROVE  AtWork(p)
<1>1. PICK q \in Processes : AtWork(q)
  BY DEF CalmInv, EndUnread
<1> QED
  BY <1>1 DEF AtWork, Alone

LEMMA HandlerBusy ==
  ASSUME NEW h \in Handlers, HandlerStep(h)
  PROVE  pc[h] # "idle"
<1>1. CASE SharedStep(h)
  BY <1>1 DEF SharedStep, PlayCall, MarkStart, Drop, QueueStep, ClearClock
<1>2. CASE ResetStaleQueue(h) \/ Resolve(h) \/ EnqueueItems(h)
  BY <1>2 DEF ResetStaleQueue, Resolve, EnqueueItems, Branch, QueueStep, ClearClock, AppendItem
<1>3. CASE SkipTrack(h) \/ PauseResume(h)
  BY <1>3 DEF SkipTrack, CastVote, ClearVotes, SkipPop, StopCall, PauseResume, PauseCall, MarkPaused
<1>4. CASE ClearAll(h) \/ EditQueue(h)
  BY <1>4 DEF ClearAll, QueueStep, ClearClock, ClearVotes, Branch, StopCall, EditQueue, QueueEdit
<1> QED
  BY <1>1, <1>2, <1>3, <1>4 DEF HandlerStep

LEMMA ReaderBusy ==
  ASSUME OnTrackEnd \/ SharedStep(Reader)
  PROVE  pc[Reader] # "idle"
BY DEF OnTrackEnd, Branch, CopyNow, AppendItem, AdvanceQueue, SharedStep, PlayCall, MarkStart,
  Drop, QueueStep, ClearClock

LEMMA NodeKeepsFaults ==
  ASSUME TypeOK, NEW h \in Processes, PlayCall(h) \/ (\E from, l : StopCall(h, from, l))
  PROVE  faults' = 0 => faults = 0
BY DEF TypeOK, DataOK, PlayCall, StopCall, Fault

\* Failures are not forgotten.
LEMMA FaultsStay ==
  ASSUME TypeOK, [Next]_vars, faults' = 0
  PROVE  faults = 0
<1>1. ASSUME NEW h \in Handlers, Begin(h) PROVE faults = 0
  BY <1>1 DEF Begin
<1>2. ASSUME NEW p \in Processes, SharedStep(p) PROVE faults = 0
  BY <1>2, NodeKeepsFaults
  DEF SharedStep, MarkStart, Drop, QueueStep, ClearClock, bounds
<1>3. ASSUME NEW h \in Handlers, HandlerStep(h) PROVE faults = 0
  <2>0. h \in Processes
    BY CallerCalm
  <2>1. CASE ResetStaleQueue(h) \/ EnqueueItems(h) \/ EditQueue(h)
    BY <2>1 DEF ResetStaleQueue, EnqueueItems, EditQueue, Branch, QueueStep, QueueEdit, ClearClock,
       AppendItem, bounds
  <2>4. CASE Resolve(h)
    <3>1. faults \in Nat /\ faults' \in {faults, faults + 1}
      BY <2>4 DEF TypeOK, DataOK, Resolve, Fault
    <3> QED
      BY <3>1
  <2>2. CASE SkipTrack(h) \/ ClearAll(h)
    BY <2>0, <2>2, NodeKeepsFaults
    DEF SkipTrack, CastVote, ClearVotes, SkipPop, ClearAll, QueueStep, ClearClock, Branch, bounds
  <2>3. CASE PauseResume(h)
    <3>1. faults \in Nat /\ faults' \in {faults, faults + 1}
      <4>1. CASE \E from, l : \E b \in BOOLEAN : PauseCall(h, from, b, l)
        BY <4>1 DEF TypeOK, DataOK, PauseCall, Fault
      <4>2. CASE \E from, old, new : MarkPaused(h, from, old, new)
        BY <4>2 DEF TypeOK, DataOK, MarkPaused, bounds
      <4> QED
        BY <2>3, <4>1, <4>2 DEF PauseResume
    <3> QED
      BY <3>1
  <2> QED
    BY <1>2, <1>3, <2>0, <2>1, <2>2, <2>3, <2>4 DEF HandlerStep
<1>4. CASE Receive \/ OnTrackEnd \/ NodeFinish \/ UNCHANGED vars
  BY <1>4 DEF Receive, OnTrackEnd, Branch, CopyNow, AppendItem, AdvanceQueue, NodeFinish, vars,
     bounds
<1> QED
  BY <1>1, <1>2, <1>3, <1>4, LabelFacts DEF Next, ReaderStep, Rest

LEMMA CalmInvariant ==
  ASSUME OneAtATime
  PROVE  Spec => [](faults = 0 => CalmInv)
<1>1. Init => CalmInv
  <2> SUFFICES ASSUME Init PROVE CalmInv
    OBVIOUS
  <2>1. Reader \in Processes /\ pc[Reader] = "idle" /\ Alone(Reader)
    BY DEF Init, Processes, Alone
  <2>2. Sound /\ NoOwnEnds
    BY DEF Init, Sound, NewQueue, Settled, ClockOf, NodeState, NoOwnEnds
  <2>3. At(pc[Reader], arg[Reader])
    BY <2>1, <2>2 DEF At, SoundLabels, MirrorLabels, GivenUp, EndLabels
  <2> QED
    BY <2>1, <2>2, <2>3 DEF AtWork, CalmInv
<1>2. TypeOK /\ MirrorInv /\ (faults = 0 => CalmInv) /\ [Next]_vars => (faults = 0 => CalmInv)'
  <2> SUFFICES ASSUME TypeOK, MirrorInv, faults = 0 => CalmInv, [Next]_vars, faults' = 0
               PROVE  CalmInv'
    OBVIOUS
  <2>0. CalmInv
    BY FaultsStay
  <2>1. ASSUME NEW h \in Handlers, HandlerStep(h) PROVE CalmInv'
    <3>1. h \in Processes /\ pc[h] # "idle"
      BY <2>1, CallerCalm, HandlerBusy
    <3>2. AtWork(h)
      BY <2>0, <3>1, OnlyWorker
    <3> QED
      BY <2>1, <3>1, <3>2, HandlerCalm DEF CalmInv
  <2>2. CASE OnTrackEnd \/ SharedStep(Reader)
    <3>1. Reader \in Processes /\ pc[Reader] # "idle"
      BY <2>2, ReaderBusy DEF Processes
    <3>2. AtWork(Reader)
      BY <2>0, <3>1, OnlyWorker
    <3> QED
      BY <2>2, <3>1, <3>2, EndCalm, SharedCalm DEF CalmInv
  <2>3. CASE UNCHANGED vars
    BY <2>0, <2>3 DEF vars, linkdave, control, CalmInv, EndUnread, AtWork, Alone, NoOwnEnds, At,
       Sound, Settled, Emptied, NodeState
  <2> QED
    BY <2>0, <2>1, <2>2, <2>3, BeginCalm, FinishCalm, ReceiveCalm DEF Next, ReaderStep, Rest
<1> QED
  BY <1>1, <1>2, TypeCorrect, MirrorInvariant, PTL DEF Spec

LEMMA CalmTruth ==
  ASSUME TypeOK, CalmInv
  PROVE  HeardIsShown /\ ClockAgrees /\ NothingStranded
BY QuietIsSound DEF HeardIsShown, ClockAgrees, NothingStranded, Sound, Settled, ClockOf

\* When users and tracks leave each other the time to finish, then as long as
\* no call has failed, the track shown as playing is the one that is streamed
\* whenever nothing is in progress: the queue moves before Play and Stop are
\* called, and the read loop learns of the calls only later.
THEOREM HeardShownInCalm ==
  ASSUME OneAtATime
  PROVE  Spec => [](faults = 0 => HeardIsShown)
<1>1. TypeOK /\ (faults = 0 => CalmInv) => (faults = 0 => HeardIsShown)
  BY CalmTruth
<1> QED
  BY <1>1, TypeCorrect, CalmInvariant, PTL

\* In the same way the clock runs whenever the node plays, stands still
\* whenever it is paused, and is gone when it is idle: markPlaybackPause and
\* markPlaybackResume, which follow their calls, do not depend on the mirror.
THEOREM ClockAgreesInCalm ==
  ASSUME OneAtATime
  PROVE  Spec => [](faults = 0 => ClockAgrees)
<1>1. TypeOK /\ (faults = 0 => CalmInv) => (faults = 0 => ClockAgrees)
  BY CalmTruth
<1> QED
  BY <1>1, TypeCorrect, CalmInvariant, PTL

\* And no track waits behind an idle player: enqueueItems, which appends when
\* the mirror or the queue says that something plays, is told the truth.
THEOREM NothingStrandedInCalm ==
  ASSUME OneAtATime
  PROVE  Spec => [](faults = 0 => NothingStranded)
<1>1. TypeOK /\ (faults = 0 => CalmInv) => (faults = 0 => NothingStranded)
  BY CalmTruth
<1> QED
  BY <1>1, TypeCorrect, CalmInvariant, PTL
=============================================================================
