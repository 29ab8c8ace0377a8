--------------------------- MODULE PlaybackProofs ---------------------------
(***************************************************************************)
(* Safety of Playback for any number of handlers, any set of commands and  *)
(* any bounds.                                                             *)
(***************************************************************************)
EXTENDS Playback, SequenceTheorems, TLAPS

-----------------------------------------------------------------------------
(* What the queue operations of GuildQueue return, for every queue and     *)
(* every set of tracks.                                                    *)

\* Removing one element of a sequence leaves the others, in their order: every
\* position of the result comes from the same position before i and from the
\* next one from i on.
LEMMA RemoveAtProperties ==
  ASSUME NEW S, NEW s \in Seq(S), NEW i \in 1 .. Len(s)
  PROVE  /\ RemoveAt(s, i) \in Seq(S)
         /\ Len(RemoveAt(s, i)) = Len(s) - 1
         /\ \A j \in 1 .. Len(s) - 1 :
              RemoveAt(s, i)[j] = s[IF j < i THEN j ELSE j + 1]
<1> DEFINE a == SubSeq(s, 1, i - 1)
           b == SubSeq(s, i + 1, Len(s))
<1>1. /\ a \in Seq(S) /\ Len(a) = i - 1
      /\ \A j \in 1 .. i - 1 : a[j] = s[j]
  BY SubSeqProperties
<1>2. /\ b \in Seq(S) /\ Len(b) = Len(s) - i
      /\ \A j \in 1 .. Len(s) - i : b[j] = s[i + j]
  BY SubSeqProperties
<1>3. RemoveAt(s, i) = a \o b
  BY DEF RemoveAt
<1> HIDE DEF a, b
<1>4. /\ a \o b \in Seq(S)
      /\ Len(a \o b) = Len(a) + Len(b)
      /\ \A j \in 1 .. Len(a) + Len(b) :
           (a \o b)[j] = IF j <= Len(a) THEN a[j] ELSE b[j - Len(a)]
  BY <1>1, <1>2, ConcatProperties
<1> QED
  BY <1>1, <1>2, <1>3, <1>4

\* Taking the head of a list of tracks.
LEMMA TakeHead ==
  ASSUME NEW S, NEW s \in Seq(S), s # <<>>
  PROVE  /\ Head(s) \in S /\ Tail(s) \in Seq(S)
         /\ Len(s) > 1 => Tail(s) # <<>>
<1>1. Head(s) \in S /\ Tail(s) \in Seq(S) /\ Len(Tail(s)) = Len(s) - 1
  BY HeadTailProperties
<1>2. Len(s) > 1 => Len(Tail(s)) # 0
  BY <1>1, LenProperties
<1> QED
  BY <1>1, <1>2, EmptySeq

\* Every operation returns a queue again.
LEMMA QueueOperationsType ==
  ASSUME NEW q \in Queue, NEW t \in Track
  PROVE  /\ Enqueue(q, t) \in Queue
         /\ \A a \in BOOLEAN : SetActive(q, a) \in Queue
         /\ SetNowPlaying(q, t) \in Queue
         /\ Advance(q) \in Queue /\ Skip(q) \in Queue
         /\ Clear(q) \in Queue
         /\ \A m \in LoopModes : SetLoop(q, m) \in Queue
<1>1. Enqueue(q, t) \in Queue
  BY DEF Enqueue, Queue
<1>2. \A a \in BOOLEAN : SetActive(q, a) \in Queue
  BY DEF SetActive, Queue
<1>3. SetNowPlaying(q, t) \in Queue
  BY DEF SetNowPlaying, Queue
<1>4. Advance(q) \in Queue
  <2>1. CASE q.items = <<>>
    BY <2>1 DEF Advance, Queue
  <2>2. CASE q.items # <<>>
    <3>1. Head(q.items) \in Track /\ Tail(q.items) \in Seq(Track)
      BY <2>2, HeadTailProperties DEF Queue
    <3> QED
      BY <2>2, <3>1 DEF Advance, Queue
  <2> QED
    BY <2>1, <2>2
<1>5. Clear(q) \in Queue
  BY EmptySeq DEF Clear, Queue
<1>6. \A m \in LoopModes : SetLoop(q, m) \in Queue
  BY DEF SetLoop, Queue
<1> QED
  BY <1>1, <1>2, <1>3, <1>4, <1>5, <1>6 DEF Skip

\* Advance always leaves a current track in the queue, or an inactive queue.
LEMMA AdvanceActive ==
  ASSUME NEW q \in Queue
  PROVE  /\ Advance(q).active => Advance(q).now # None
         /\ Advance(q).now # None => Advance(q).now \in Track
BY NoneIsNoTrack DEF Advance, Queue

\* A queue edit returns a queue, and touches nothing but the waiting tracks.
LEMMA QueueEditsType ==
  ASSUME NEW q \in Queue, NEW i \in Nat
  PROVE  /\ RemoveUpcoming(q, i) \in Queue
         /\ MoveUpcomingToFront(q, i) \in Queue
         /\ \A r \in {RemoveUpcoming(q, i), MoveUpcomingToFront(q, i)} :
              r.now = q.now /\ r.active = q.active /\ r.loop = q.loop
<1>1. CASE ~ValidIndex(q, i)
  BY <1>1 DEF RemoveUpcoming, MoveUpcomingToFront
<1>2. CASE ValidIndex(q, i)
  <2>1. q.items \in Seq(Track) /\ i \in 1 .. Len(q.items)
    BY <1>2 DEF Queue, ValidIndex
  <2>2. RemoveAt(q.items, i) \in Seq(Track)
    BY <2>1, RemoveAtProperties
  <2>3. <<q.items[i]>> \o RemoveAt(q.items, i) \in Seq(Track)
    BY <2>1, <2>2, ElementOfSeq, ConcatProperties
  <2> QED
    BY <1>2, <2>2, <2>3 DEF RemoveUpcoming, MoveUpcomingToFront, Queue
<1> QED
  BY <1>1, <1>2

\* So does a shuffle.
LEMMA ShuffleType ==
  ASSUME NEW q \in Queue, NEW r \in ShuffleUpcoming(q)
  PROVE  r \in Queue /\ r.now = q.now /\ r.active = q.active /\ r.loop = q.loop
<1> DEFINE n == Len(q.items)
<1>1. PICK f \in [1 .. n -> 1 .. n] :
        r = [q EXCEPT !.items = [j \in 1 .. n |-> q.items[f[j]]]]
  BY DEF ShuffleUpcoming
<1>2. n \in Nat /\ \A j \in 1 .. n : q.items[f[j]] \in Track
  BY ElementOfSeq, LenProperties DEF Queue
<1>3. [j \in 1 .. n |-> q.items[f[j]]] \in Seq(Track)
  BY <1>2
<1> QED
  BY <1>1, <1>3 DEF Queue

-----------------------------------------------------------------------------
(* Control.                                                                *)

\* Control: a move to a label of the process's own code, with a track in hand
\* where the code takes one, keeps ControlOK.
LEMMA MoveOK ==
  ASSUME ControlOK, NEW p \in Processes, NEW l \in LabelsOf(p),
         NEW s \in Seq(Track), l \in Carrying => s # <<>>, Move(p, l, s)
  PROVE  ControlOK'
<1> USE DEF ControlOK
<1>1. LabelsOf(p) \subseteq HandlerLabels \cup ReaderLabels
  BY DEF LabelsOf
<1>2. /\ pc' \in [Processes -> HandlerLabels \cup ReaderLabels]
      /\ arg' \in [Processes -> Seq(Track)]
  BY <1>1 DEF Move
<1>3. \A q \in Processes : pc'[q] \in LabelsOf(q)
                            /\ (pc'[q] \in Carrying => arg'[q] # <<>>)
  BY DEF Move
<1>4. ended' \in Track \cup {None}
  BY DEF Move
<1> QED
  BY <1>2, <1>3, <1>4

\* The labels without a track in hand can be reached with any locals, and a
\* process that holds on to its locals can go on to any label of its code.
LEMMA GotoOK ==
  ASSUME ControlOK, NEW p \in Processes, NEW l \in LabelsOf(p),
         l \in Carrying => arg[p] # <<>>, Goto(p, l)
  PROVE  ControlOK'
BY MoveOK DEF Goto, ControlOK

LEMMA FinishOK ==
  ASSUME ControlOK, NEW p \in Processes, Finish(p)
  PROVE  ControlOK'
<1>1. "idle" \in LabelsOf(p) /\ "idle" \notin Carrying /\ <<>> \in Seq(Track)
  BY EmptySeq DEF LabelsOf, HandlerLabels, ReaderLabels, Carrying
<1> QED
  BY <1>1, MoveOK DEF Finish

LEMMA BranchOK ==
  ASSUME TypeOK, NEW p \in Processes, NEW from, NEW cond,
         NEW yes \in LabelsOf(p), NEW no \in LabelsOf(p),
         {yes, no} \cap Carrying # {} => from \in Carrying,
         Branch(p, from, cond, yes, no)
  PROVE  TypeOK'
<1> DEFINE l == IF cond THEN yes ELSE no
<1>1. DataOK'
  BY DEF Branch, TypeOK, DataOK, linkdave, bounds
<1>2. l \in {yes, no} /\ (l \in Carrying => arg[p] # <<>>)
  BY DEF Branch, TypeOK, ControlOK
<1>3. Finish(p) \/ Goto(p, l)
  BY DEF Branch
<1> QED
  BY <1>1, <1>2, <1>3, FinishOK, GotoOK DEF TypeOK

\* The node's reactions to a call.
NodeOK == node \in Track \cup {None} /\ nodePaused \in BOOLEAN /\ events \in Seq(Event)

LEMMA NodeActionsOK ==
  ASSUME NodeOK, NEW t \in Track, NEW b \in BOOLEAN,
         NodePlay(t) \/ NodeStop \/ NodeSetPaused(b) \/ UNCHANGED linkdave
  PROVE  NodeOK'
<1> USE DEF NodeOK
<1>1. /\ TrackStart(t) \in Event
      /\ node # None => TrackEnd(node, "replaced") \in Event
                        /\ TrackEnd(node, "stopped") \in Event
      /\ \A s \in PlayerStates : PlayerUpdate(s) \in Event
  BY DEF Event, TrackStart, TrackEnd, PlayerUpdate
<1>2. CASE NodePlay(t)
  <2> DEFINE es == IF node = None THEN events
                   ELSE Append(events, TrackEnd(node, "replaced"))
  <2>1. es \in Seq(Event) /\ <<TrackStart(t)>> \in Seq(Event)
    BY <1>1, AppendProperties
  <2>2. es \o <<TrackStart(t)>> \in Seq(Event)
    BY <2>1, ConcatProperties
  <2> QED
    BY <1>2, <2>2 DEF NodePlay
<1>3. CASE NodeStop
  <2>1. CASE node = None
    BY <1>3, <2>1 DEF NodeStop, linkdave
  <2>2. CASE node # None
    <3>1. <<TrackEnd(node, "stopped"), PlayerUpdate("idle")>> \in Seq(Event)
      BY <1>1, <2>2 DEF PlayerStates
    <3>2. events \o <<TrackEnd(node, "stopped"), PlayerUpdate("idle")>> \in Seq(Event)
      BY <3>1, ConcatProperties
    <3> QED
      BY <1>3, <2>2, <3>2 DEF NodeStop
  <2> QED
    BY <2>1, <2>2
<1>4. CASE NodeSetPaused(b)
  BY <1>1, <1>4, AppendProperties DEF NodeSetPaused, PlayerStates, linkdave
<1>5. CASE UNCHANGED linkdave
  BY <1>5 DEF linkdave
<1> QED
  BY <1>2, <1>3, <1>4, <1>5

\* Where each handler label leads: used to see that every jump stays inside
\* the code of its process.
LEMMA LabelFacts ==
  /\ \A h \in Handlers : h \in Processes /\ LabelsOf(h) = HandlerLabels
  /\ Reader \in Processes /\ LabelsOf(Reader) = ReaderLabels
  /\ \A p \in Processes :
       {"idle", "mark", "drop", "drop_clock"} \subseteq LabelsOf(p)
BY ReaderIsNoHandler DEF Processes, LabelsOf, HandlerLabels, ReaderLabels

\* Steps that change the queue by one locked method.
LEMMA QueueStepOK ==
  ASSUME TypeOK, NEW p \in Processes, NEW from, NEW q \in Queue,
         NEW l \in LabelsOf(p), l \in Carrying => from \in Carrying,
         QueueStep(p, from, q, l)
  PROVE  TypeOK'
<1>1. DataOK'
  BY DEF QueueStep, TypeOK, DataOK, linkdave, bounds
<1>2. ControlOK'
  BY GotoOK DEF QueueStep, TypeOK, ControlOK
<1> QED
  BY <1>1, <1>2 DEF TypeOK

LEMMA QueueEditOK ==
  ASSUME TypeOK, NEW p \in Processes, NEW from, NEW q \in Queue,
         QueueEdit(p, from, q)
  PROVE  TypeOK'
<1>1. DataOK'
  BY DEF QueueEdit, TypeOK, DataOK, linkdave, bounds
<1>2. ControlOK'
  BY FinishOK DEF QueueEdit, TypeOK
<1> QED
  BY <1>1, <1>2 DEF TypeOK

LEMMA ClearClockOK ==
  ASSUME TypeOK, NEW p \in Processes, NEW from, NEW l \in LabelsOf(p),
         l \in Carrying => from \in Carrying, ClearClock(p, from, l)
  PROVE  TypeOK'
<1>1. DataOK'
  BY DEF ClearClock, TypeOK, DataOK, linkdave, bounds
<1>2. ControlOK'
  BY GotoOK, FinishOK DEF ClearClock, TypeOK, ControlOK
<1> QED
  BY <1>1, <1>2 DEF TypeOK

LEMMA AppendItemOK ==
  ASSUME TypeOK, NEW p \in Processes, NEW from \in Carrying,
         from \in LabelsOf(p), NEW l \in LabelsOf(p), l \notin Carrying,
         AppendItem(p, from, l)
  PROVE  TypeOK'
<1>1. /\ arg[p] \in Seq(Track) /\ arg[p] # <<>>
  BY DEF AppendItem, TypeOK, ControlOK
<1>2. /\ Head(arg[p]) \in Track /\ Tail(arg[p]) \in Seq(Track)
      /\ Len(arg[p]) > 1 => Tail(arg[p]) # <<>>
  BY <1>1, TakeHead
<1>3. DataOK'
  <2>1. queue' \in Queue
    BY <1>2, QueueOperationsType DEF AppendItem, TypeOK, DataOK
  <2> QED
    BY <2>1 DEF AppendItem, TypeOK, DataOK, linkdave, bounds
<1>4. ControlOK'
  <2>1. CASE Len(arg[p]) > 1
    BY <1>2, <2>1, MoveOK DEF AppendItem, TypeOK
  <2>2. CASE ~(Len(arg[p]) > 1)
    BY <1>2, <2>2, MoveOK DEF AppendItem, TypeOK
  <2> QED
    BY <2>1, <2>2
<1> QED
  BY <1>3, <1>4 DEF TypeOK

\* Steps that may fail spend at most the bound on faults.
LEMMA FaultOK ==
  ASSUME DataOK, Fault \/ UNCHANGED faults
  PROVE  faults' \in 0 .. MaxFaults
BY BoundsAssumption DEF DataOK, Fault

\* A REST call: the node reacts or does not, the process goes on or gives up.
LEMMA CallOK ==
  ASSUME TypeOK, NodeOK', ControlOK', Fault \/ UNCHANGED faults,
         UNCHANGED <<queue, player, clock, votes, requests, commands>>
  PROVE  TypeOK'
<1>1. faults' \in 0 .. MaxFaults
  BY FaultOK DEF TypeOK
<1> QED
  BY <1>1 DEF TypeOK, DataOK, NodeOK

LEMMA PlayCallOK ==
  ASSUME TypeOK, NEW p \in Processes, PlayCall(p)
  PROVE  TypeOK'
<1>1. pc[p] \in Carrying /\ pc[p] \in LabelsOf(p)
  BY DEF PlayCall, Carrying, TypeOK, ControlOK
<1>2. /\ arg[p] \in Seq(Track) /\ arg[p] # <<>>
  BY <1>1 DEF TypeOK, ControlOK
<1>3. /\ Head(arg[p]) \in Track /\ Tail(arg[p]) \in Seq(Track)
      /\ Len(arg[p]) > 1 => Tail(arg[p]) # <<>>
  BY <1>2, TakeHead
<1>4. NodeOK'
  BY <1>3, NodeActionsOK DEF PlayCall, TypeOK, DataOK, NodeOK
<1>5. ControlOK'
  <2>1. CASE Finish(p)
    BY <2>1, FinishOK DEF TypeOK
  <2>2. CASE Move(p, "drop", <<>>)
    BY <2>2, LabelFacts, EmptySeq, MoveOK DEF TypeOK, Carrying
  <2>3. CASE /\ pc[p] = "start" /\ Len(arg[p]) > 1
             /\ Move(p, "tail", Tail(arg[p]))
    <3>1. "tail" \in LabelsOf(p)
      BY <1>1, <2>3 DEF LabelsOf, ReaderLabels, HandlerLabels, Carrying
    <3> QED
      BY <1>3, <2>3, <3>1, MoveOK DEF TypeOK
  <2>4. CASE Move(p, "mark", Tail(arg[p]))
    BY <1>3, <2>4, LabelFacts, MoveOK DEF TypeOK, Carrying
  <2> QED
    BY <2>1, <2>2, <2>3, <2>4 DEF PlayCall
<1> QED
  BY <1>4, <1>5, CallOK DEF PlayCall

LEMMA StopCallOK ==
  ASSUME TypeOK, NEW p \in Processes, NEW from, NEW l \in LabelsOf(p),
         l \notin Carrying, StopCall(p, from, l)
  PROVE  TypeOK'
<1>1. NodeOK'
  BY NodeActionsOK DEF StopCall, TypeOK, DataOK, NodeOK, NodeStop, linkdave
<1>2. ControlOK'
  BY GotoOK, FinishOK DEF StopCall, TypeOK
<1> QED
  BY <1>1, <1>2, CallOK DEF StopCall

LEMMA PauseCallOK ==
  ASSUME TypeOK, NEW h \in Handlers, NEW from, NEW b \in BOOLEAN,
         NEW l \in {"freeze", "thaw"}, PauseCall(h, from, b, l)
  PROVE  TypeOK'
<1>1. NodeOK'
  <2>1. NodeSetPaused(b) \/ UNCHANGED linkdave
    BY DEF PauseCall
  <2>2. NodeOK
    BY DEF TypeOK, DataOK, NodeOK
  <2>3. CASE NodeSetPaused(b)
    <3>1. PlayerUpdate(IF b THEN "paused" ELSE "playing") \in Event
      BY DEF PlayerUpdate, Event, PlayerStates
    <3> QED
      BY <2>2, <2>3, <3>1, AppendProperties DEF NodeSetPaused, NodeOK, linkdave
  <2> QED
    BY <2>1, <2>2, <2>3 DEF NodeOK, linkdave
<1>2. h \in Processes /\ l \in LabelsOf(h) /\ l \notin Carrying
  BY LabelFacts DEF HandlerLabels, Carrying
<1>3. ControlOK'
  BY <1>2, GotoOK, FinishOK DEF PauseCall, TypeOK
<1> QED
  BY <1>1, <1>3, CallOK DEF PauseCall

\* A step that changes the clock or the votes only.
LEMMA VotesAndClockOK ==
  ASSUME TypeOK, ControlOK', clock' \in {"none", "running", "frozen"},
         votes' \subseteq Handlers, UNCHANGED <<queue, player, linkdave, bounds>>
  PROVE  TypeOK'
BY DEF TypeOK, DataOK, linkdave, bounds

LEMMA SharedStepOK ==
  ASSUME TypeOK, NEW p \in Processes, SharedStep(p)
  PROVE  TypeOK'
<1>1. CASE PlayCall(p)
  BY <1>1, PlayCallOK
<1>2. CASE MarkStart(p)
  BY <1>2, FinishOK, VotesAndClockOK DEF MarkStart, TypeOK
<1>3. CASE Drop(p)
  <2>1. Clear(queue) \in Queue
    BY EmptySeq DEF TypeOK, DataOK, Clear, Queue
  <2> QED
    BY <1>3, <2>1, LabelFacts, QueueStepOK DEF Drop, Carrying
<1>4. CASE ClearClock(p, "drop_clock", "idle")
  BY <1>4, LabelFacts, ClearClockOK DEF Carrying
<1> QED
  BY <1>1, <1>2, <1>3, <1>4 DEF SharedStep

LEMMA ResetStaleQueueOK ==
  ASSUME TypeOK, NEW h \in Handlers, ResetStaleQueue(h)
  PROVE  TypeOK'
<1> h \in Processes
  BY DEF Processes
<1>1. {"play", "stale_playing", "stale_paused", "stale_clear", "stale_clock",
       "resolve"} \subseteq LabelsOf(h) \cap Carrying
  BY LabelFacts DEF HandlerLabels, Carrying
<1>2. Clear(queue) \in Queue
  BY EmptySeq DEF TypeOK, DataOK, Clear, Queue
<1>3. CASE Branch(h, "play", queue.active, "stale_playing", "resolve")
  BY <1>1, <1>3, BranchOK
<1>4. CASE Branch(h, "stale_playing", player = "playing", "resolve", "stale_paused")
  BY <1>1, <1>4, BranchOK
<1>5. CASE Branch(h, "stale_paused", player = "paused", "resolve", "stale_clear")
  BY <1>1, <1>5, BranchOK
<1>6. CASE QueueStep(h, "stale_clear", Clear(queue), "stale_clock")
  BY <1>1, <1>2, <1>6, QueueStepOK
<1>7. CASE ClearClock(h, "stale_clock", "resolve")
  BY <1>1, <1>7, ClearClockOK
<1> QED
  BY <1>3, <1>4, <1>5, <1>6, <1>7 DEF ResetStaleQueue

LEMMA EnqueueItemsOK ==
  ASSUME TypeOK, NEW h \in Handlers, EnqueueItems(h)
  PROVE  TypeOK'
<1> h \in Processes
  BY DEF Processes
<1>1. {"enq_playing", "enq_paused", "enq_active", "append", "set_active",
       "set_now", "start", "tail"} \subseteq LabelsOf(h) \cap Carrying
  BY LabelFacts DEF HandlerLabels, Carrying
<1>2. CASE Branch(h, "enq_playing", player = "playing", "append", "enq_paused")
  BY <1>1, <1>2, BranchOK
<1>3. CASE Branch(h, "enq_paused", player = "paused", "append", "enq_active")
  BY <1>1, <1>3, BranchOK
<1>4. CASE Branch(h, "enq_active", queue.active, "append", "set_active")
  BY <1>1, <1>4, BranchOK
<1>5. CASE AppendItem(h, "append", "idle")
  BY <1>1, <1>5, LabelFacts, AppendItemOK DEF Carrying
<1>6. CASE QueueStep(h, "set_active", SetActive(queue, TRUE), "set_now")
  <2>1. SetActive(queue, TRUE) \in Queue
    BY DEF SetActive, Queue, TypeOK, DataOK
  <2> QED
    BY <1>1, <1>6, <2>1, QueueStepOK
<1>7. CASE QueueStep(h, "set_now", SetNowPlaying(queue, Head(arg[h])), "start")
  <2>1. Head(arg[h]) \in Track
    BY <1>1, <1>7, TakeHead DEF QueueStep, TypeOK, ControlOK
  <2>2. SetNowPlaying(queue, Head(arg[h])) \in Queue
    BY <2>1, QueueOperationsType DEF TypeOK, DataOK
  <2> QED
    BY <1>1, <1>7, <2>2, QueueStepOK
<1>8. CASE AppendItem(h, "tail", "mark")
  BY <1>1, <1>8, LabelFacts, AppendItemOK DEF Carrying
<1> QED
  BY <1>2, <1>3, <1>4, <1>5, <1>6, <1>7, <1>8 DEF EnqueueItems

LEMMA ResolveOK ==
  ASSUME TypeOK, NEW h \in Handlers, Resolve(h)
  PROVE  TypeOK'
<1> h \in Processes
  BY DEF Processes
<1>1. "enq_playing" \in LabelsOf(h) /\ arg[h] # <<>>
  BY LabelFacts DEF HandlerLabels, Carrying, Resolve, TypeOK, ControlOK
<1>2. ControlOK'
  BY <1>1, GotoOK, FinishOK DEF Resolve, TypeOK
<1>3. NodeOK'
  BY DEF Resolve, linkdave, TypeOK, DataOK, NodeOK
<1> QED
  BY <1>2, <1>3, CallOK DEF Resolve

\* A pop hands the popped track to the process, or leads it to the branch for
\* an empty queue.
LEMMA PopOK ==
  ASSUME TypeOK, NEW p \in Processes,
         NEW empty \in LabelsOf(p), empty \notin Carrying,
         NEW next \in LabelsOf(p), queue' = Advance(queue),
         IF queue'.now = None THEN Goto(p, empty) ELSE Move(p, next, <<queue'.now>>),
         UNCHANGED <<player, clock, votes, linkdave, bounds>>
  PROVE  TypeOK'
<1>1. queue' \in Queue /\ (queue'.now # None => queue'.now \in Track)
  <2>1. queue \in Queue
    BY DEF TypeOK, DataOK
  <2>2. Advance(queue) \in Queue
    <3>1. CASE queue.items = <<>>
      BY <2>1, <3>1 DEF Advance, Queue
    <3>2. CASE queue.items # <<>>
      <4>1. Head(queue.items) \in Track /\ Tail(queue.items) \in Seq(Track)
        BY <2>1, <3>2, TakeHead DEF Queue
      <4> QED
        BY <2>1, <3>2, <4>1 DEF Advance, Queue
    <3> QED
      BY <3>1, <3>2
  <2> QED
    BY <2>2 DEF Queue
<1>2. DataOK'
  BY <1>1 DEF TypeOK, DataOK, linkdave, bounds
<1>3. ControlOK'
  <2>1. CASE Goto(p, empty)
    BY <2>1, GotoOK DEF TypeOK
  <2>2. CASE queue'.now # None /\ Move(p, next, <<queue'.now>>)
    <3> DEFINE s == <<queue'.now>>
    <3>1. s \in Seq(Track) /\ s # <<>>
      BY <1>1, <2>2
    <3> HIDE DEF s
    <3>2. Move(p, next, s)
      BY <2>2 DEF s
    <3> QED
      BY <3>1, <3>2, MoveOK DEF TypeOK
  <2> QED
    BY <2>1, <2>2
<1> QED
  BY <1>2, <1>3 DEF TypeOK

LEMMA SkipTrackOK ==
  ASSUME TypeOK, NEW h \in Handlers, SkipTrack(h)
  PROVE  TypeOK'
<1> h \in Processes
  BY DEF Processes
<1>1. /\ {"skip", "skip_play", "skip_stop", "vote_clear", "drop"} \subseteq LabelsOf(h)
      /\ {"skip", "skip_stop", "vote_clear", "drop"} \cap Carrying = {}
  BY LabelFacts DEF HandlerLabels, AllCommands, Carrying
<1>2. CASE CastVote(h)
  <2>1. ControlOK'
    BY <1>1, <1>2, GotoOK, FinishOK DEF CastVote, TypeOK
  <2> QED
    BY <1>2, <2>1, VotesAndClockOK DEF CastVote, TypeOK, DataOK
<1>3. CASE ClearVotes(h, "vote_clear", "skip")
  <2>1. ControlOK'
    BY <1>1, <1>3, GotoOK DEF ClearVotes, TypeOK
  <2> QED
    BY <1>3, <2>1, VotesAndClockOK DEF ClearVotes, TypeOK, DataOK
<1>4. CASE SkipPop(h)
  BY <1>1, <1>4, PopOK DEF SkipPop, Skip
<1>5. CASE StopCall(h, "skip_stop", "drop")
  BY <1>1, <1>5, StopCallOK
<1> QED
  BY <1>2, <1>3, <1>4, <1>5 DEF SkipTrack

LEMMA PauseResumeOK ==
  ASSUME TypeOK, NEW h \in Handlers, PauseResume(h)
  PROVE  TypeOK'
<1> h \in Processes
  BY DEF Processes
<1>1. ASSUME NEW from, NEW old, NEW new \in {"running", "frozen"},
             MarkPaused(h, from, old, new)
      PROVE  TypeOK'
  BY <1>1, FinishOK, VotesAndClockOK DEF MarkPaused, TypeOK, DataOK
<1> QED
  BY <1>1, PauseCallOK DEF PauseResume

LEMMA ClearAllOK ==
  ASSUME TypeOK, NEW h \in Handlers, ClearAll(h)
  PROVE  TypeOK'
<1> h \in Processes
  BY DEF Processes
<1>1. /\ {"idle", "clear_clock", "clear_votes", "clear_playing", "clear_paused",
          "clear_stop"} \subseteq LabelsOf(h) \ Carrying
  BY LabelFacts DEF HandlerLabels, Carrying
<1>2. CASE QueueStep(h, "clear", Clear(queue), "clear_clock")
  <2>1. Clear(queue) \in Queue
    BY EmptySeq DEF TypeOK, DataOK, Clear, Queue
  <2> QED
    BY <1>1, <1>2, <2>1, QueueStepOK
<1>3. CASE ClearClock(h, "clear_clock", "clear_votes")
  BY <1>1, <1>3, ClearClockOK
<1>4. CASE ClearVotes(h, "clear_votes", "clear_playing")
  <2>1. ControlOK'
    BY <1>1, <1>4, GotoOK DEF ClearVotes, TypeOK
  <2> QED
    BY <1>4, <2>1, VotesAndClockOK DEF ClearVotes, TypeOK, DataOK
<1>5. CASE Branch(h, "clear_playing", player = "playing", "clear_stop", "clear_paused")
  BY <1>1, <1>5, BranchOK
<1>6. CASE Branch(h, "clear_paused", player = "paused", "clear_stop", "idle")
  BY <1>1, <1>6, BranchOK
<1>7. CASE StopCall(h, "clear_stop", "idle")
  BY <1>1, <1>7, StopCallOK
<1> QED
  BY <1>2, <1>3, <1>4, <1>5, <1>6, <1>7 DEF ClearAll

LEMMA EditQueueOK ==
  ASSUME TypeOK, NEW h \in Handlers, EditQueue(h)
  PROVE  TypeOK'
<1> h \in Processes
  BY DEF Processes
<1>1. queue \in Queue /\ 1 .. Len(queue.items) + 1 \subseteq Nat
  BY LenProperties DEF TypeOK, DataOK, Queue
<1>2. ASSUME NEW i \in 1 .. Len(queue.items) + 1,
             \/ QueueEdit(h, "remove", RemoveUpcoming(queue, i))
             \/ QueueEdit(h, "boost", MoveUpcomingToFront(queue, i))
      PROVE  TypeOK'
  <2>1. RemoveUpcoming(queue, i) \in Queue /\ MoveUpcomingToFront(queue, i) \in Queue
    BY <1>1, QueueEditsType
  <2> QED
    BY <1>2, <2>1, QueueEditOK
<1>3. ASSUME NEW q \in ShuffleUpcoming(queue), QueueEdit(h, "shuffle", q)
      PROVE  TypeOK'
  <2>1. q \in Queue
    BY <1>1, ShuffleType
  <2> QED
    BY <1>3, <2>1, QueueEditOK
<1>4. ASSUME NEW m \in LoopModes, QueueEdit(h, "loop", SetLoop(queue, m))
      PROVE  TypeOK'
  <2>1. SetLoop(queue, m) \in Queue
    BY <1>1 DEF SetLoop, Queue
  <2> QED
    BY <1>4, <2>1, QueueEditOK
<1> QED
  BY <1>2, <1>3, <1>4 DEF EditQueue

LEMMA BeginOK ==
  ASSUME TypeOK, NEW h \in Handlers, Begin(h)
  PROVE  TypeOK'
<1> h \in Processes
  BY DEF Processes
<1>1. commands' \in 0 .. MaxCommands /\ requests' \in 0 .. MaxRequests
  BY BoundsAssumption DEF Begin, TypeOK, DataOK
<1>2. ControlOK'
  <2>1. ASSUME NEW c \in Commands \ {"play"}, Goto(h, c)
        PROVE  ControlOK'
    <3>1. c \in LabelsOf(h) /\ c \notin Carrying
      BY <2>1, LabelFacts, CommandsAssumption DEF HandlerLabels, AllCommands, Carrying
    <3> QED
      BY <2>1, <3>1, GotoOK DEF TypeOK
  <2>2. ASSUME NEW n \in RequestSizes, requests < MaxRequests,
               Move(h, "play", [i \in 1 .. n |-> [req |-> requests + 1, pos |-> i]])
        PROVE  ControlOK'
    <3> DEFINE s == [i \in 1 .. n |-> [req |-> requests + 1, pos |-> i]]
    <3>1. n \in Nat \ {0} /\ requests + 1 \in 1 .. MaxRequests
      BY <2>2, SizesAssumption, BoundsAssumption DEF TypeOK, DataOK
    <3>2. \A i \in 1 .. n : [req |-> requests + 1, pos |-> i] \in Track
      BY <3>1, TrackAssumption
    <3>3. s \in Seq(Track) /\ Len(s) = n
      BY <3>1, <3>2
    <3>4. s # <<>>
      BY <3>1, <3>3, EmptySeq
    <3>5. "play" \in LabelsOf(h)
      BY LabelFacts DEF HandlerLabels, AllCommands
    <3> HIDE DEF s
    <3>6. Move(h, "play", s)
      BY <2>2 DEF s
    <3> QED
      BY <3>3, <3>4, <3>5, <3>6, MoveOK DEF TypeOK
  <2> QED
    BY <2>1, <2>2 DEF Begin
<1> QED
  BY <1>1, <1>2 DEF Begin, TypeOK, DataOK, linkdave

LEMMA NodeFinishOK ==
  ASSUME TypeOK, NodeFinish
  PROVE  TypeOK'
<1>1. PICK r \in EndReasons : events' = Append(events, TrackEnd(node, r))
  BY DEF NodeFinish
<1>2. TrackEnd(node, r) \in Event
  BY DEF NodeFinish, TrackEnd, Event, TypeOK, DataOK
<1>3. events' \in Seq(Event)
  BY <1>1, <1>2, AppendProperties DEF TypeOK, DataOK
<1> QED
  BY <1>3 DEF NodeFinish, TypeOK, DataOK, ControlOK, control, bounds

LEMMA ReceiveOK ==
  ASSUME TypeOK, Receive
  PROVE  TypeOK'
<1> DEFINE e == Head(events)
<1>1. e \in Event /\ events' \in Seq(Event)
  BY HeadTailProperties DEF Receive, TypeOK, DataOK
<1>2. player' \in PlayerStates
  BY <1>1 DEF Receive, Mirrored, OwnEnd, Event, PlayerStates, TypeOK, DataOK
<1>3. DataOK'
  BY <1>1, <1>2 DEF Receive, TypeOK, DataOK, bounds
<1>4. ControlOK'
  <2>1. CASE OwnEnd(e)
    <3>1. e.track \in Track
      BY <1>1, <2>1 DEF OwnEnd, Event
    <3>2. "end_active" \in ReaderLabels /\ "end_active" \notin Carrying
      BY DEF ReaderLabels, Carrying
    <3>3. pc' = [pc EXCEPT ![Reader] = "end_active"] /\ ended' = e.track
          /\ arg' = arg
      BY <2>1 DEF Receive
    <3> QED
      BY <3>1, <3>2, <3>3, LabelFacts DEF TypeOK, ControlOK
  <2>2. CASE ~OwnEnd(e)
    BY <2>2 DEF Receive, TypeOK, ControlOK
  <2> QED
    BY <2>1, <2>2
<1> QED
  BY <1>3, <1>4 DEF TypeOK

LEMMA OnTrackEndOK ==
  ASSUME TypeOK, OnTrackEnd
  PROVE  TypeOK'
<1> Reader \in Processes
  BY DEF Processes
<1>1. /\ {"idle", "end_track", "end_now", "end_queue", "end_finished", "requeue",
          "advance", "next_play", "drop_clock"} \subseteq LabelsOf(Reader)
      /\ {"idle", "end_track", "end_now", "end_queue", "end_finished", "advance",
          "drop_clock"} \cap Carrying = {}
      /\ "requeue" \in Carrying
  BY LabelFacts DEF ReaderLabels, Carrying
<1>2. CASE Branch(Reader, "end_active", queue.active, "end_track", "idle")
  BY <1>1, <1>2, BranchOK
<1>3. CASE Branch(Reader, "end_track", queue.loop = "track", "end_now", "end_queue")
  BY <1>1, <1>3, BranchOK
<1>4. CASE Branch(Reader, "end_queue", queue.loop = "queue", "end_finished", "advance")
  BY <1>1, <1>4, BranchOK
<1>5. ASSUME NEW from, NEW yes \in LabelsOf(Reader), NEW no \in LabelsOf(Reader),
             no \notin Carrying, CopyNow(from, yes, no)
      PROVE  TypeOK'
  <2>1. DataOK'
    BY <1>5 DEF CopyNow, TypeOK, DataOK, linkdave, bounds
  <2>2. CASE Goto(Reader, no)
    BY <1>5, <2>1, <2>2, GotoOK DEF TypeOK
  <2>3. CASE queue.now # None /\ Move(Reader, yes, <<queue.now>>)
    <3>1. <<queue.now>> \in Seq(Track) /\ <<queue.now>> # <<>>
      BY <2>3 DEF TypeOK, DataOK, Queue
    <3> QED
      BY <1>5, <2>1, <2>3, <3>1, MoveOK DEF TypeOK
  <2> QED
    BY <1>5, <2>2, <2>3 DEF CopyNow
<1>6. CASE AppendItem(Reader, "requeue", "advance")
  BY <1>1, <1>6, AppendItemOK
<1>7. CASE AdvanceQueue
  BY <1>1, <1>7, PopOK DEF AdvanceQueue
<1> QED
  BY <1>1, <1>2, <1>3, <1>4, <1>5, <1>6, <1>7 DEF OnTrackEnd

-----------------------------------------------------------------------------

\* Type correctness, for every number of handlers, every set of commands and
\* every bound: in particular no process ever plays or appends the head of an
\* empty list of tracks, and the read loop never runs a handler's code.
THEOREM TypeCorrect == Spec => []TypeOK
<1>1. Init => TypeOK
  <2> SUFFICES ASSUME Init PROVE TypeOK
    OBVIOUS
  <2>1. DataOK
    <3>1. <<>> \in Seq(Event) /\ <<>> \in Seq(Track)
      BY EmptySeq
    <3>2. NewQueue \in Queue
      BY <3>1 DEF NewQueue, Queue, LoopModes
    <3>3. /\ requests \in 0 .. MaxRequests
          /\ commands \in 0 .. MaxCommands
          /\ faults \in 0 .. MaxFaults
      BY BoundsAssumption, SMT DEF Init
    <3>4. /\ player \in PlayerStates
          /\ clock \in {"none", "running", "frozen"}
          /\ votes \subseteq Handlers
          /\ node \in Track \cup {None} /\ nodePaused \in BOOLEAN
      BY Zenon DEF Init, PlayerStates
    <3>5. queue \in Queue /\ events \in Seq(Event)
      BY <3>1, <3>2, Zenon DEF Init
    <3> QED
      BY <3>3, <3>4, <3>5, Zenon DEF DataOK
  <2>2. ControlOK
    <3>1. "idle" \notin Carrying /\ "idle" \in HandlerLabels \cup ReaderLabels
      BY DEF Carrying, ReaderLabels
    <3>2. \A p \in Processes : "idle" \in LabelsOf(p)
      BY LabelFacts
    <3> QED
      BY <3>1, <3>2, EmptySeq DEF Init, ControlOK
  <2> QED
    BY <2>1, <2>2 DEF TypeOK
<1>2. TypeOK /\ [Next]_vars => TypeOK'
  <2> SUFFICES ASSUME TypeOK, [Next]_vars PROVE TypeOK'
    OBVIOUS
  <2>1. ASSUME NEW h \in Handlers, Begin(h) PROVE TypeOK'
    BY <2>1, BeginOK
  <2>2. ASSUME NEW h \in Handlers, HandlerStep(h) PROVE TypeOK'
    <3>1. CASE ResetStaleQueue(h) \/ Resolve(h) \/ EnqueueItems(h)
      BY <3>1, ResetStaleQueueOK, ResolveOK, EnqueueItemsOK
    <3>2. CASE SkipTrack(h) \/ PauseResume(h)
      BY <3>2, SkipTrackOK, PauseResumeOK
    <3>3. CASE ClearAll(h) \/ EditQueue(h)
      BY <3>3, ClearAllOK, EditQueueOK
    <3>4. CASE SharedStep(h)
      <4>1. h \in Processes
        BY DEF Processes
      <4> QED
        BY <3>4, <4>1, SharedStepOK
    <3> QED
      BY <2>2, <3>1, <3>2, <3>3, <3>4 DEF HandlerStep
  <2>3. CASE ReaderStep
    BY <2>3, LabelFacts, ReceiveOK, OnTrackEndOK, SharedStepOK DEF ReaderStep
  <2>4. CASE NodeFinish
    BY <2>4, NodeFinishOK
  <2>5. CASE UNCHANGED vars
    BY <2>5 DEF vars, linkdave, control, bounds, TypeOK, DataOK, ControlOK
  <2> QED
    BY <2>1, <2>2, <2>3, <2>4, <2>5 DEF Next, Rest
<1> QED
  BY <1>1, <1>2, PTL DEF Spec

-----------------------------------------------------------------------------
(* ActiveHasTrack is inductive relative to TypeOK.                         *)

InGap(h) == pc[h] = "set_now"

\* Only its own step takes a handler out of the gap.
LEMMA MoveKeepsGap ==
  ASSUME ControlOK, NEW p \in Processes, NEW l, NEW s, Move(p, l, s), ~InGap(p)
  PROVE  \A h \in Handlers : InGap(h) => InGap(h)'
BY DEF Move, ControlOK, InGap, Processes

LEMMA SameQueueActive ==
  ASSUME ActiveHasTrack, queue'.now = queue.now, queue'.active = queue.active,
         \A h \in Handlers : InGap(h) => InGap(h)'
  PROVE  ActiveHasTrack'
BY DEF ActiveHasTrack, InGap

LEMMA BranchActive ==
  ASSUME TypeOK, ActiveHasTrack, NEW p \in Processes, NEW from, NEW cond, NEW yes,
         NEW no, from # "set_now", Branch(p, from, cond, yes, no)
  PROVE  ActiveHasTrack'
<1>1. \A h \in Handlers : InGap(h) => InGap(h)'
  BY MoveKeepsGap DEF Branch, Goto, Finish, TypeOK, InGap
<1> QED
  BY <1>1, SameQueueActive DEF Branch

LEMMA SharedStepActive ==
  ASSUME TypeOK, ActiveHasTrack, NEW p \in Processes, SharedStep(p)
  PROVE  ActiveHasTrack'
<1>1. CASE PlayCall(p) \/ MarkStart(p) \/ ClearClock(p, "drop_clock", "idle")
  <2>1. \A h \in Handlers : InGap(h) => InGap(h)'
    BY <1>1, MoveKeepsGap
    DEF PlayCall, MarkStart, ClearClock, Finish, TypeOK, InGap
  <2> QED
    BY <1>1, <2>1, SameQueueActive DEF PlayCall, MarkStart, ClearClock
<1>2. CASE Drop(p)
  BY <1>2 DEF Drop, QueueStep, Clear, ActiveHasTrack, TypeOK, DataOK, Queue
<1> QED
  BY <1>1, <1>2 DEF SharedStep

\* A step that clears, pops, or sets the current track never leaves an active
\* queue without one.
LEMMA PopActive ==
  ASSUME TypeOK, queue' = Advance(queue)
  PROVE  ActiveHasTrack'
BY AdvanceActive DEF ActiveHasTrack, TypeOK, DataOK

LEMMA RequestActive ==
  ASSUME TypeOK, ActiveHasTrack, NEW h \in Handlers,
         ResetStaleQueue(h) \/ Resolve(h) \/ EnqueueItems(h)
  PROVE  ActiveHasTrack'
<1> h \in Processes
  BY DEF Processes
<1> DEFINE Gap == \A g \in Handlers : InGap(g) => InGap(g)'
<1>1. CASE ResetStaleQueue(h)
  <2>1. CASE QueueStep(h, "stale_clear", Clear(queue), "stale_clock")
    BY <2>1 DEF QueueStep, Clear, ActiveHasTrack, TypeOK, DataOK, Queue
  <2>2. CASE ClearClock(h, "stale_clock", "resolve")
    <3>1. Gap
      BY <2>2, MoveKeepsGap DEF ClearClock, Finish, Goto, TypeOK, InGap
    <3> QED
      BY <2>2, <3>1, SameQueueActive DEF ClearClock
  <2> QED
    BY <1>1, <2>1, <2>2, BranchActive DEF ResetStaleQueue
<1>2. CASE Resolve(h)
  <2>1. Gap
    BY <1>2, MoveKeepsGap DEF Resolve, Finish, Goto, TypeOK, InGap
  <2> QED
    BY <1>2, <2>1, SameQueueActive DEF Resolve
<1>3. ASSUME NEW from \in {"append", "tail"}, NEW l, AppendItem(h, from, l)
      PROVE  ActiveHasTrack'
  <2>1. Gap
    BY <1>3, MoveKeepsGap DEF AppendItem, TypeOK, InGap
  <2>2. queue'.now = queue.now /\ queue'.active = queue.active
    BY <1>3 DEF AppendItem, Enqueue, TypeOK, DataOK, Queue
  <2> QED
    BY <2>1, <2>2, SameQueueActive
<1>4. CASE QueueStep(h, "set_active", SetActive(queue, TRUE), "set_now")
  BY <1>4 DEF QueueStep, Goto, Move, ActiveHasTrack, TypeOK, ControlOK
<1>5. CASE QueueStep(h, "set_now", SetNowPlaying(queue, Head(arg[h])), "start")
  <2>1. Head(arg[h]) \in Track
    BY <1>5, TakeHead DEF QueueStep, TypeOK, ControlOK, Carrying
  <2> QED
    BY <1>5, <2>1, NoneIsNoTrack
    DEF QueueStep, SetNowPlaying, ActiveHasTrack, TypeOK, DataOK, Queue
<1>6. CASE EnqueueItems(h)
  BY <1>3, <1>4, <1>5, <1>6, BranchActive DEF EnqueueItems
<1> QED
  BY <1>1, <1>2, <1>6

LEMMA ControlActive ==
  ASSUME TypeOK, ActiveHasTrack, NEW h \in Handlers,
         SkipTrack(h) \/ PauseResume(h) \/ ClearAll(h) \/ EditQueue(h)
  PROVE  ActiveHasTrack'
<1> h \in Processes
  BY DEF Processes
<1> DEFINE Gap == \A g \in Handlers : InGap(g) => InGap(g)'
<1>1. ASSUME NEW from, NEW l, from # "set_now", ClearVotes(h, from, l) \/ ClearClock(h, from, l)
             \/ StopCall(h, from, l)
      PROVE  ActiveHasTrack'
  <2>1. Gap
    BY <1>1, MoveKeepsGap
    DEF ClearVotes, ClearClock, StopCall, Finish, Goto, TypeOK, InGap
  <2> QED
    BY <1>1, <2>1, SameQueueActive DEF ClearVotes, ClearClock, StopCall
<1>2. CASE CastVote(h)
  <2>1. Gap
    BY <1>2, MoveKeepsGap DEF CastVote, Finish, Goto, TypeOK, InGap
  <2> QED
    BY <1>2, <2>1, SameQueueActive DEF CastVote
<1>3. CASE SkipPop(h)
  BY <1>3, PopActive DEF SkipPop, Skip
<1>4. CASE SkipTrack(h)
  BY <1>1, <1>2, <1>3, <1>4 DEF SkipTrack
<1>5. CASE PauseResume(h)
  <2>1. Gap
    BY <1>5, MoveKeepsGap
    DEF PauseResume, PauseCall, MarkPaused, Finish, Goto, TypeOK, InGap
  <2> QED
    BY <1>5, <2>1, SameQueueActive DEF PauseResume, PauseCall, MarkPaused
<1>6. CASE ClearAll(h)
  <2>1. CASE QueueStep(h, "clear", Clear(queue), "clear_clock")
    BY <2>1 DEF QueueStep, Clear, ActiveHasTrack, TypeOK, DataOK, Queue
  <2> QED
    BY <1>1, <1>6, <2>1, BranchActive DEF ClearAll
<1>7. ASSUME NEW from, NEW q, from # "set_now", q.now = queue.now,
             q.active = queue.active, QueueEdit(h, from, q)
      PROVE  ActiveHasTrack'
  <2>1. Gap
    BY <1>7, MoveKeepsGap DEF QueueEdit, Finish, TypeOK, InGap
  <2> QED
    BY <1>7, <2>1, SameQueueActive DEF QueueEdit
<1>8. CASE EditQueue(h)
  <2>1. queue \in Queue /\ 1 .. Len(queue.items) + 1 \subseteq Nat
    BY LenProperties DEF TypeOK, DataOK, Queue
  <2>2. \A i \in 1 .. Len(queue.items) + 1 :
          \A r \in {RemoveUpcoming(queue, i), MoveUpcomingToFront(queue, i)} :
             r.now = queue.now /\ r.active = queue.active
    BY <2>1, QueueEditsType
  <2>3. \A r \in ShuffleUpcoming(queue) : r.now = queue.now /\ r.active = queue.active
    BY <2>1, ShuffleType
  <2>4. \A m \in LoopModes : SetLoop(queue, m).now = queue.now
                             /\ SetLoop(queue, m).active = queue.active
    BY <2>1 DEF SetLoop, Queue
  <2> QED
    BY <1>7, <1>8, <2>2, <2>3, <2>4 DEF EditQueue
<1> QED
  BY <1>4, <1>5, <1>6, <1>8

LEMMA ReaderActive ==
  ASSUME TypeOK, ActiveHasTrack, Receive \/ OnTrackEnd
  PROVE  ActiveHasTrack'
<1> Reader \in Processes
  BY DEF Processes
<1> DEFINE Gap == \A g \in Handlers : InGap(g) => InGap(g)'
<1>1. CASE Receive
  <2>1. Gap
    BY <1>1, ReaderIsNoHandler DEF Receive, TypeOK, ControlOK, InGap, Processes
  <2> QED
    BY <1>1, <2>1, SameQueueActive DEF Receive
<1>2. ASSUME NEW from, NEW yes, NEW no, from # "set_now", CopyNow(from, yes, no)
      PROVE  ActiveHasTrack'
  <2>1. Gap
    BY <1>2, MoveKeepsGap DEF CopyNow, Goto, TypeOK, InGap
  <2> QED
    BY <1>2, <2>1, SameQueueActive DEF CopyNow
<1>3. CASE AppendItem(Reader, "requeue", "advance")
  <2>1. Gap
    BY <1>3, MoveKeepsGap DEF AppendItem, TypeOK, InGap
  <2>2. queue'.now = queue.now /\ queue'.active = queue.active
    BY <1>3 DEF AppendItem, Enqueue, TypeOK, DataOK, Queue
  <2> QED
    BY <2>1, <2>2, SameQueueActive
<1>4. CASE AdvanceQueue
  BY <1>4, PopActive DEF AdvanceQueue
<1>5. CASE OnTrackEnd
  BY <1>2, <1>3, <1>4, <1>5, BranchActive DEF OnTrackEnd
<1> QED
  BY <1>1, <1>5

\* Under every interleaving of any number of handlers with the read loop, an
\* active queue has a current track outside the SetActive/SetNowPlaying gap,
\* which is what lets Service.onTrackEnd act on active queues only.
THEOREM ActiveQueueHasTrack == Spec => []ActiveHasTrack
<1>1. Init => ActiveHasTrack
  BY DEF Init, NewQueue, ActiveHasTrack
<1>2. TypeOK /\ ActiveHasTrack /\ [Next]_vars => ActiveHasTrack'
  <2> SUFFICES ASSUME TypeOK, ActiveHasTrack, [Next]_vars PROVE ActiveHasTrack'
    OBVIOUS
  <2>1. ASSUME NEW h \in Handlers, Begin(h) PROVE ActiveHasTrack'
    <3>1. \A g \in Handlers : InGap(g) => InGap(g)'
      BY <2>1, MoveKeepsGap DEF Begin, Goto, TypeOK, InGap, Processes
    <3> QED
      BY <2>1, <3>1, SameQueueActive DEF Begin
  <2>2. ASSUME NEW h \in Handlers, HandlerStep(h) PROVE ActiveHasTrack'
    <3>1. h \in Processes
      BY DEF Processes
    <3> QED
      BY <2>2, <3>1, RequestActive, ControlActive, SharedStepActive DEF HandlerStep
  <2>3. CASE ReaderStep
    BY <2>3, LabelFacts, ReaderActive, SharedStepActive DEF ReaderStep
  <2>4. CASE NodeFinish \/ UNCHANGED vars
    BY <2>4 DEF NodeFinish, vars, control, ActiveHasTrack
  <2> QED
    BY <2>1, <2>2, <2>3, <2>4 DEF Next, Rest
<1> QED
  BY <1>1, <1>2, TypeCorrect, PTL DEF Spec

=============================================================================
