-------------------------- MODULE LifecycleProofs --------------------------
(***************************************************************************)
(* Safety of Document and of Lifecycle, for any guilds and requests, and   *)
(* for any number of changes, failed calls, lives and greetings.          *)
(***************************************************************************)
EXTENDS Lifecycle, SequenceTheorems, TLAPS

-----------------------------------------------------------------------------
(* Types of the document's part.                                           *)

Task == [guild : Guilds, todo : Todos, paused : BOOLEAN, timely : BOOLEAN, seen : Numbers,
         upcoming : Waiting, since : Numbers, left : SUBSET Guilds, label : Numbers,
         told : BOOLEAN]

Documents == [now : Numbers, upcoming : Waiting, paused : BOOLEAN, since : Numbers,
              whole : BOOLEAN, timely : BOOLEAN]

Reported == Seq(BOOLEAN) \ {<<>>}

Searching(t) == t.todo = "presence" <=> t.left # {}

TasksType == tasks \in Seq(Task) /\ \A p \in DOMAIN tasks : Searching(tasks[p])

PlayerType ==
  /\ now \in [Guilds -> Numbers]
  /\ upcoming \in [Guilds -> Waiting]
  /\ clock \in [Guilds -> Clocks]
  /\ epoch \in [Guilds -> Numbers]
  /\ reports \in [Guilds -> Reported]
  /\ past \in [Guilds -> SUBSET (Numbers \X Waiting)]

StoreType ==
  /\ overlap \in BOOLEAN
  /\ emitted \subseteq Guilds
  /\ open \in BOOLEAN
  /\ doc \in [Guilds -> Documents]
  /\ presence \in Numbers
  /\ faults \in 0 .. MaxFaults

LEMMA ReportsType ==
  reports \in [Guilds -> Seq(BOOLEAN)] /\ (\A g \in Guilds : reports[g] # <<>>)
    <=> reports \in [Guilds -> Reported]
<1>1. ASSUME reports \in [Guilds -> Seq(BOOLEAN)], \A g \in Guilds : reports[g] # <<>>
      PROVE  reports \in [Guilds -> Reported]
  <2>1. \A g \in Guilds : reports[g] \in Reported
    BY <1>1 DEF Reported
  <2> QED
    BY <1>1, <2>1
<1>2. ASSUME reports \in [Guilds -> Reported]
      PROVE  reports \in [Guilds -> Seq(BOOLEAN)] /\ (\A g \in Guilds : reports[g] # <<>>)
  <2>1. \A g \in Guilds : reports[g] \in Seq(BOOLEAN) /\ reports[g] # <<>>
    BY <1>2 DEF Reported
  <2> QED
    BY <1>2, <2>1
<1> QED
  BY <1>1, <1>2

LEMMA TypeParts == DocumentTypeOK <=> PlayerType /\ StoreType /\ TasksType
BY ReportsType, Zenon
   DEF DocumentTypeOK, PlayerType, StoreType, TasksType, Task, Documents, Searching

LEMMA TypePartsNext == PlayerType' /\ StoreType' /\ TasksType' => DocumentTypeOK'
BY TypeParts, PTL

LEMMA NewTaskType ==
  ASSUME NEW g \in Guilds
  PROVE  /\ NewTask(g) \in Task /\ Searching(NewTask(g))
         /\ NewTask(g).todo = "state" /\ NewTask(g).guild = g
BY DocumentBounds DEF NewTask, Task, Searching, Numbers, Waiting, Todos

LEMMA EndedType ==
  ASSUME NEW g \in Guilds, NEW told \in BOOLEAN
  PROVE  /\ Ended(g, told) \in Task /\ Searching(Ended(g, told))
         /\ Ended(g, told).todo = "done" /\ Ended(g, told).told = told
         /\ Ended(g, told).guild = g
<1>1. 0 \in Numbers /\ 0 \in Waiting
  BY DocumentBounds DEF Numbers, Waiting
<1>2. Ended(g, told) \in Task
  BY <1>1 DEF Ended, NewTask, Task, Todos
<1>3. /\ Ended(g, told).todo = "done" /\ Ended(g, told).told = told
      /\ Ended(g, told).guild = g /\ Ended(g, told).left = {}
  BY DEF Ended, NewTask
<1> QED
  BY <1>2, <1>3 DEF Searching

\* One more task, and another record for a task.
LEMMA AppendTask ==
  ASSUME TasksType, NEW t \in Task, Searching(t), tasks' = Append(tasks, t)
  PROVE  /\ TasksType'
         /\ DOMAIN tasks' = DOMAIN tasks \cup {Len(tasks) + 1}
         /\ Len(tasks) + 1 \notin DOMAIN tasks /\ Len(tasks') = Len(tasks) + 1
         /\ tasks'[Len(tasks) + 1] = t
         /\ \A p \in DOMAIN tasks : tasks'[p] = tasks[p]
<1>1. tasks \in Seq(Task)
  BY DEF TasksType
<1>2. /\ tasks' \in Seq(Task) /\ Len(tasks') = Len(tasks) + 1
      /\ tasks'[Len(tasks) + 1] = t
      /\ \A i \in 1 .. Len(tasks) : tasks'[i] = tasks[i]
  BY <1>1, AppendProperties
<1>3. /\ DOMAIN tasks = 1 .. Len(tasks) /\ DOMAIN tasks' = 1 .. Len(tasks')
      /\ Len(tasks) \in Nat
  BY <1>1, <1>2, LenProperties
<1>4. DOMAIN tasks' = DOMAIN tasks \cup {Len(tasks) + 1} /\ Len(tasks) + 1 \notin DOMAIN tasks
  BY <1>2, <1>3
<1> QED
  BY <1>2, <1>3, <1>4 DEF TasksType, Searching

LEMMA ReplaceTask ==
  ASSUME TasksType, NEW p \in DOMAIN tasks, NEW t \in Task, Searching(t),
         tasks' = [tasks EXCEPT ![p] = t]
  PROVE  /\ TasksType' /\ DOMAIN tasks' = DOMAIN tasks /\ Len(tasks') = Len(tasks)
         /\ tasks'[p] = t
         /\ \A q \in DOMAIN tasks : q # p => tasks'[q] = tasks[q]
<1>1. tasks \in Seq(Task) /\ p \in 1 .. Len(tasks)
  BY DEF TasksType
<1>2. /\ tasks' \in Seq(Task) /\ Len(tasks') = Len(tasks)
      /\ \A j \in 1 .. Len(tasks) : tasks'[j] = IF j = p THEN t ELSE tasks[j]
  BY <1>1, ExceptSeq
<1>3. DOMAIN tasks = 1 .. Len(tasks) /\ DOMAIN tasks' = DOMAIN tasks
  BY <1>1, <1>2, LenProperties
<1> QED
  BY <1>2, <1>3 DEF TasksType, Searching

LEMMA TaskFields ==
  ASSUME TasksType, NEW p \in DOMAIN tasks
  PROVE  tasks[p] \in Task /\ Searching(tasks[p])
BY DEF TasksType

\* What the node reports next, and the last report.
LEMMA SaysType ==
  ASSUME PlayerType, NEW g \in Guilds
  PROVE  /\ \A b \in BOOLEAN : Says(g, b) \in Reported
         /\ Forgets(g) \in Reported
         /\ reports[g] \in Reported /\ NodePaused(g) \in BOOLEAN
<1>1. reports[g] \in Seq(BOOLEAN) /\ reports[g] # <<>>
  BY DEF PlayerType, Reported
<1>2. NodePaused(g) \in BOOLEAN
  BY <1>1 DEF NodePaused
<1>3. ASSUME NEW b \in BOOLEAN
      PROVE  Says(g, b) \in Seq(BOOLEAN) /\ Says(g, b) # <<>>
  <2>1. /\ Append(reports[g], b) \in Seq(BOOLEAN)
        /\ Len(Append(reports[g], b)) = Len(reports[g]) + 1 /\ Len(reports[g]) \in Nat
    BY <1>1, <1>3, AppendProperties, LenProperties
  <2>2. Append(reports[g], b) # <<>>
    BY <2>1
  <2> QED
    BY <1>1, <2>1, <2>2 DEF Says
<1>4. Forgets(g) \in Seq(BOOLEAN) /\ Forgets(g) # <<>>
  <2> DEFINE later == Tail(Says(g, FALSE))
             mirror == <<FALSE>>
  <2>1. later \in Seq(BOOLEAN)
    BY <1>3, HeadTailProperties
  <2>2. mirror \in Seq(BOOLEAN) /\ Len(mirror) = 1
    OBVIOUS
  <2> HIDE DEF later, mirror
  <2>3. /\ mirror \o later \in Seq(BOOLEAN)
        /\ Len(mirror \o later) = Len(mirror) + Len(later) /\ Len(later) \in Nat
    BY <2>1, <2>2, ConcatProperties, LenProperties
  <2>4. mirror \o later # <<>>
    BY <2>2, <2>3
  <2> QED
    BY <2>3, <2>4 DEF Forgets, mirror, later
<1> QED
  BY <1>1, <1>2, <1>3, <1>4 DEF Reported

\* What is left when one of several has been read.
LEMMA TailOfLonger ==
  ASSUME NEW s \in Seq(BOOLEAN), Len(s) > 1
  PROVE  Tail(s) \in Seq(BOOLEAN) /\ Tail(s) # <<>> /\ Tail(s)[Len(Tail(s))] = s[Len(s)]
<1>1. Len(s) \in Nat /\ s # <<>>
  BY LenProperties, EmptySeq
<1>2. PICK later : later = Tail(s)
  OBVIOUS
<1>3. /\ later \in Seq(BOOLEAN) /\ Len(later) = Len(s) - 1
      /\ \A i \in 1 .. Len(later) : later[i] = s[i + 1]
  BY <1>1, <1>2, HeadTailProperties
<1>4. PICK n : n = Len(s)
  OBVIOUS
<1>5. n \in Nat /\ n > 1 /\ Len(later) = n - 1
  BY <1>1, <1>3, <1>4
<1>6. later[n - 1] = s[n]
  <2>1. n - 1 \in 1 .. Len(later) /\ (n - 1) + 1 = n
    BY <1>5
  <2> QED
    BY <1>3, <2>1
<1>7. later # <<>>
  <2>1. Len(later) # 0
    BY <1>5
  <2> QED
    BY <2>1, EmptySeq
<1> QED
  BY <1>2, <1>3, <1>4, <1>5, <1>6, <1>7

\* The next report is read: the node is as it was.
LEMMA HearFacts ==
  ASSUME DocumentTypeOK, NEW g \in Guilds, Hear(g)
  PROVE  /\ DocumentTypeOK'
         /\ \A h \in Guilds : NodePaused(h)' = NodePaused(h)
         /\ UNCHANGED <<overlap, now, upcoming, clock, epoch, past, emitted, open, doc,
                        presence, tasks, faults>>
<1>1. /\ PlayerType /\ StoreType /\ TasksType
      /\ Len(reports[g]) > 1 /\ reports' = [reports EXCEPT ![g] = Tail(reports[g])]
      /\ UNCHANGED <<overlap, now, upcoming, clock, epoch, past, emitted, open, doc, presence,
                     tasks, faults>>
  BY TypeParts DEF Hear
<1>2. reports[g] \in Seq(BOOLEAN) /\ reports[g] # <<>>
  BY <1>1 DEF PlayerType, Reported
<1>3. /\ Tail(reports[g]) \in Seq(BOOLEAN) /\ Tail(reports[g]) # <<>>
      /\ Tail(reports[g])[Len(Tail(reports[g]))] = reports[g][Len(reports[g])]
  BY <1>1, <1>2, TailOfLonger
<1>6. \A h \in Guilds : reports'[h] = IF h = g THEN Tail(reports[g]) ELSE reports[h]
  BY <1>1 DEF PlayerType
<1>7. PlayerType'
  BY <1>1, <1>3 DEF PlayerType, Reported
<1>8. StoreType' /\ TasksType'
  BY <1>1 DEF StoreType, TasksType, Searching
<1>9. \A h \in Guilds : NodePaused(h)' = NodePaused(h)
  BY <1>3, <1>6 DEF NodePaused
<1> QED
  BY <1>1, <1>7, <1>8, <1>9, TypePartsNext

\* Whatever the operation, it is a turn of one guild's player.
Turns(g, track, waiting, c, e, r, t) ==
  /\ Turn(g, track, waiting, c, e, r, t)
  /\ t \in {NewTask(g), Ended(g, FALSE)}
  /\ c = "runs" => e # 0 \/ (clock[g] = "runs" /\ e = epoch[g])
  /\ faults' = faults \/ (faults < MaxFaults /\ faults' = faults + 1)

SomeTurn(g) ==
  \E track \in Numbers, waiting \in Waiting, c \in Clocks, e \in Numbers, r \in Reported,
     t \in Task : Turns(g, track, waiting, c, e, r, t)

LEMMA ChangeIsTurn ==
  ASSUME NEW g \in Guilds, NEW track \in Numbers, NEW waiting \in Waiting, NEW c \in Clocks,
         NEW e \in Numbers, NEW r \in Reported, Change(g, track, waiting, c, e, r),
         c = "runs" => e # 0 \/ (clock[g] = "runs" /\ e = epoch[g])
  PROVE  SomeTurn(g)
<1>1. Turns(g, track, waiting, c, e, r, NewTask(g))
  BY DEF Turns, Change
<1> QED
  BY <1>1, NewTaskType DEF SomeTurn

LEMMA OperateIsTurn ==
  ASSUME DocumentTypeOK, NEW g \in Guilds, Operate(g)
  PROVE  SomeTurn(g)
<1>1. /\ now[g] \in Numbers /\ upcoming[g] \in Waiting /\ clock[g] \in Clocks
      /\ epoch[g] \in Numbers /\ 0 \in Numbers /\ 0 \in Waiting /\ MaxWaiting \in Nat
      /\ Waiting = 0 .. MaxWaiting
  BY DocumentBounds DEF DocumentTypeOK, Numbers, Waiting
<1>2. Len(tasks) < MaxTasks => New \in Numbers /\ New # 0
  <2>1. Len(tasks) \in Nat
    BY LenProperties DEF DocumentTypeOK
  <2> QED
    BY <2>1, DocumentBounds DEF Numbers, New
<1>3. {"none", "runs", "frozen"} \subseteq Clocks
  BY DEF Clocks
<1>4. /\ reports[g] \in Reported /\ Forgets(g) \in Reported
      /\ \A b \in BOOLEAN : Says(g, b) \in Reported
  BY TypeParts, SaysType
<1>5. Says(g, FALSE) \in Reported /\ Says(g, TRUE) \in Reported
  BY <1>4
<1>6. CASE Start(g)
  <2>1. PICK waiting \in Waiting : Change(g, New, waiting, "runs", New, Says(g, FALSE))
    BY <1>6 DEF Start
  <2>2. New \in Numbers /\ New # 0
    BY <1>2, <2>1 DEF Change, Turn
  <2> QED
    BY <1>3, <1>5, <2>1, <2>2, ChangeIsTurn
<1>7. CASE Enqueue(g)
  <2>1. upcoming[g] + 1 \in Waiting
    BY <1>1, <1>7 DEF Enqueue
  <2> QED
    BY <1>1, <1>4, <1>7, <2>1, ChangeIsTurn DEF Enqueue
<1>8. CASE Remove(g)
  <2>1. upcoming[g] - 1 \in Waiting
    BY <1>1, <1>8 DEF Remove
  <2> QED
    BY <1>1, <1>4, <1>8, <2>1, ChangeIsTurn DEF Remove
<1>9. CASE Advance(g)
  <2>1. upcoming[g] - 1 \in Waiting
    BY <1>1, <1>9 DEF Advance
  <2>2. Change(g, New, upcoming[g] - 1, "runs", New, Says(g, FALSE))
    BY <1>9 DEF Advance
  <2>3. New \in Numbers /\ New # 0
    BY <1>2, <2>2 DEF Change, Turn
  <2> QED
    BY <1>3, <1>5, <2>1, <2>2, <2>3, ChangeIsTurn
<1>10. CASE Empty(g)
  <2>1. PICK r \in Reported : Change(g, 0, 0, "none", epoch[g], r)
    BY <1>4, <1>5, <1>10 DEF Empty
  <2> QED
    BY <1>1, <1>3, <2>1, ChangeIsTurn
<1>11. CASE Pause(g)
  <2>1. PICK c \in {"none", "frozen"} :
             Change(g, now[g], upcoming[g], c, epoch[g], Says(g, TRUE))
    BY <1>11 DEF Pause
  <2> QED
    BY <1>1, <1>3, <1>5, <2>1, ChangeIsTurn
<1>12. CASE Resume(g)
  <2>1. CASE Change(g, now[g], upcoming[g], "runs", New, Says(g, FALSE))
    <3>1. New \in Numbers /\ New # 0
      BY <1>2, <2>1 DEF Change, Turn
    <3> QED
      BY <1>1, <1>3, <1>5, <2>1, <3>1, ChangeIsTurn
  <2>2. CASE Change(g, now[g], upcoming[g], clock[g], epoch[g], Says(g, FALSE))
    BY <1>1, <1>5, <2>2, ChangeIsTurn
  <2> QED
    BY <1>12, <2>1, <2>2 DEF Resume
<1>13. CASE Fails(g)
  <2>1. (now[g] # 0) \in BOOLEAN
    OBVIOUS
  <2>2. PICK r \in Reported :
             LET Returns(track, waiting, c) ==
                   Turn(g, track, waiting, c, epoch[g], r, Ended(g, FALSE))
             IN  \/ Returns(now[g], upcoming[g], clock[g])
                 \/ upcoming[g] > 0 /\ Returns(New, upcoming[g] - 1, clock[g])
                 \/ upcoming[g] = 0 /\ Returns(0, 0, clock[g])
                 \/ Returns(0, 0, "none")
    BY <1>4, <1>13, <2>1 DEF Fails
  <2>3. \E track \in Numbers, waiting \in Waiting, c \in {clock[g], "none"} :
          Turn(g, track, waiting, c, epoch[g], r, Ended(g, FALSE))
    <3>1. CASE Turn(g, now[g], upcoming[g], clock[g], epoch[g], r, Ended(g, FALSE))
      BY <1>1, <3>1
    <3>2. CASE upcoming[g] > 0 /\ Turn(g, New, upcoming[g] - 1, clock[g], epoch[g], r, Ended(g, FALSE))
      <4>1. New \in Numbers /\ upcoming[g] - 1 \in Waiting
        BY <1>1, <1>2, <3>2 DEF Turn
      <4> QED
        BY <3>2, <4>1
    <3>3. CASE Turn(g, 0, 0, clock[g], epoch[g], r, Ended(g, FALSE))
      BY <1>1, <3>3
    <3>4. CASE Turn(g, 0, 0, "none", epoch[g], r, Ended(g, FALSE))
      BY <1>1, <3>4
    <3> QED
      BY <2>2, <3>1, <3>2, <3>3, <3>4
  <2>4. PICK track \in Numbers, waiting \in Waiting, c \in {clock[g], "none"} :
             Turn(g, track, waiting, c, epoch[g], r, Ended(g, FALSE))
    BY <2>3
  <2>5. faults < MaxFaults /\ faults' = faults + 1
    BY <1>13 DEF Fails
  <2>6. c \in Clocks /\ (c = "runs" => clock[g] = "runs")
    BY <1>1, <1>3
  <2>7. Turns(g, track, waiting, c, epoch[g], r, Ended(g, FALSE))
    BY <2>4, <2>5, <2>6 DEF Turns
  <2>8. Ended(g, FALSE) \in Task
    BY EndedType
  <2> QED
    BY <1>1, <2>6, <2>7, <2>8 DEF SomeTurn
<1> QED
  BY <1>6, <1>7, <1>8, <1>9, <1>10, <1>11, <1>12, <1>13 DEF Operate

LEMMA TurnTypes ==
  ASSUME DocumentTypeOK, NEW g \in Guilds, NEW track \in Numbers, NEW waiting \in Waiting,
         NEW c \in Clocks, NEW e \in Numbers, NEW r \in Reported, NEW t \in Task,
         Turns(g, track, waiting, c, e, r, t)
  PROVE  /\ DocumentTypeOK'
         /\ DOMAIN tasks' = DOMAIN tasks \cup {Len(tasks) + 1} /\ Len(tasks') = Len(tasks) + 1
         /\ \A p \in DOMAIN tasks : tasks'[p] = tasks[p]
         /\ tasks'[Len(tasks) + 1].todo \in {"state", "done"}
         /\ tasks'[Len(tasks) + 1].todo = "done" => ~tasks'[Len(tasks) + 1].told
<1>1. PlayerType /\ StoreType /\ TasksType
  BY TypeParts
<1>2. Searching(t) /\ t.todo \in {"state", "done"} /\ (t.todo = "done" => ~t.told)
  <2>1. CASE t = NewTask(g)
    BY <2>1, NewTaskType
  <2>2. CASE t = Ended(g, FALSE)
    <3>1. Searching(t) /\ t.todo = "done" /\ t.told = FALSE
      BY <2>2, EndedType
    <3> QED
      BY <3>1
  <2> QED
    BY <2>1, <2>2 DEF Turns
<1>3. tasks' = Append(tasks, t)
  BY DEF Turns, Turn
<1>4. /\ TasksType'
      /\ DOMAIN tasks' = DOMAIN tasks \cup {Len(tasks) + 1} /\ Len(tasks') = Len(tasks) + 1
      /\ tasks'[Len(tasks) + 1] = t /\ \A p \in DOMAIN tasks : tasks'[p] = tasks[p]
  BY <1>1, <1>2, <1>3, AppendTask
<1>5. faults' \in 0 .. MaxFaults
  BY <1>1, DocumentBounds DEF StoreType, Turns
<1>6. StoreType'
  BY <1>1, <1>5 DEF Turns, Turn, StoreType
<1>7. PlayerType'
  <2>1. /\ now' = [now EXCEPT ![g] = track] /\ upcoming' = [upcoming EXCEPT ![g] = waiting]
        /\ clock' = [clock EXCEPT ![g] = c] /\ epoch' = [epoch EXCEPT ![g] = e]
        /\ reports' = [reports EXCEPT ![g] = r]
        /\ past' = [past EXCEPT ![g] = past[g] \cup {<<track, waiting>>}]
    BY DEF Turns, Turn
  <2>2. past' \in [Guilds -> SUBSET (Numbers \X Waiting)]
    BY <1>1, <2>1 DEF PlayerType
  <2> QED
    BY <1>1, <2>1, <2>2 DEF PlayerType
<1> QED
  BY <1>2, <1>4, <1>6, <1>7, TypePartsNext

\* What a step of an emission makes of its task, and what of the rest.
LEMMA ReadStateFacts ==
  ASSUME DocumentTypeOK, NEW p, ReadState(p)
  PROVE  /\ DocumentTypeOK' /\ p \in DOMAIN tasks /\ tasks[p].todo = "state"
         /\ UNCHANGED <<overlap, player, emitted, open, doc, presence, faults>>
         /\ DOMAIN tasks' = DOMAIN tasks /\ Len(tasks') = Len(tasks)
         /\ \A q \in DOMAIN tasks : q # p => tasks'[q] = tasks[q]
         /\ tasks[p].guild \in Guilds
         /\ tasks'[p].guild = tasks[p].guild /\ tasks'[p].todo = "snapshot"
         /\ clock[tasks[p].guild] = "frozen" => tasks'[p].paused
         /\ tasks'[p].timely =>
              tasks'[p].paused = (NodePaused(tasks[p].guild) \/ clock[tasks[p].guild] = "frozen")
<1> DEFINE g == tasks[p].guild
           says == Head(reports[g]) \/ clock[g] = "frozen"
           read == Len(reports[g]) = 1
           t == [tasks[p] EXCEPT !.paused = says, !.timely = read, !.seen = now[g],
                                 !.todo = "snapshot"]
<1>0. /\ TasksType /\ PlayerType /\ StoreType /\ p \in DOMAIN tasks /\ tasks[p].todo = "state"
      /\ tasks' = [tasks EXCEPT ![p] = t]
      /\ UNCHANGED <<overlap, player, emitted, open, doc, presence, faults>>
  BY TypeParts DEF ReadState, At, Local
<1>1. tasks[p] \in Task /\ Searching(tasks[p])
  BY <1>0, TaskFields
<1>2. g \in Guilds
  BY <1>1 DEF Task
<1>3. now[g] \in Numbers /\ reports[g] \in Seq(BOOLEAN) /\ reports[g] # <<>>
  BY <1>0, <1>2 DEF PlayerType, Reported
<1>4. says \in BOOLEAN /\ read \in BOOLEAN
  OBVIOUS
<1>5. clock[g] = "frozen" => says
  OBVIOUS
<1>6. read => says = (NodePaused(g) \/ clock[g] = "frozen")
  <2>1. read => Head(reports[g]) = reports[g][Len(reports[g])]
    BY <1>3
  <2> QED
    BY <2>1 DEF NodePaused
<1> HIDE DEF says, read
<1>7. t \in Task
  BY <1>1, <1>3, <1>4 DEF Task, Todos
<1>8. /\ t.guild = g /\ t.todo = "snapshot" /\ t.left = tasks[p].left
      /\ t.paused = says /\ t.timely = read
  BY <1>1 DEF Task
<1>9. Searching(t)
  BY <1>0, <1>1, <1>8 DEF Searching
<1> HIDE DEF t
<1>10. StoreType' /\ PlayerType'
  BY <1>0 DEF StoreType, PlayerType, player
<1>11. /\ TasksType' /\ DOMAIN tasks' = DOMAIN tasks /\ Len(tasks') = Len(tasks)
       /\ tasks'[p] = t /\ \A q \in DOMAIN tasks : q # p => tasks'[q] = tasks[q]
  BY <1>0, <1>7, <1>9, ReplaceTask
<1>12. DocumentTypeOK'
  BY <1>10, <1>11, TypePartsNext
<1>13. t.timely => t.paused = (NodePaused(g) \/ clock[g] = "frozen")
  BY <1>6, <1>8, Zenon
<1>14. clock[g] = "frozen" => t.paused
  BY <1>5, <1>8, Zenon
<1>15. tasks'[p].timely => tasks'[p].paused = (NodePaused(g) \/ clock[g] = "frozen")
  BY <1>11, <1>13, Zenon
<1> QED
  BY <1>0, <1>2, <1>8, <1>11, <1>12, <1>14, <1>15

LEMMA ReadQueueFacts ==
  ASSUME DocumentTypeOK, NEW p, ReadQueue(p)
  PROVE  /\ DocumentTypeOK' /\ p \in DOMAIN tasks /\ tasks[p].todo = "snapshot"
         /\ UNCHANGED <<overlap, player, emitted, open, doc, presence, faults>>
         /\ DOMAIN tasks' = DOMAIN tasks /\ Len(tasks') = Len(tasks)
         /\ \A q \in DOMAIN tasks : q # p => tasks'[q] = tasks[q]
         /\ tasks[p].guild \in Guilds
         /\ tasks'[p].guild = tasks[p].guild
         /\ tasks'[p].todo = IF tasks[p].paused THEN "write" ELSE "clock"
         /\ tasks'[p].paused = tasks[p].paused /\ tasks'[p].timely = tasks[p].timely
         /\ tasks'[p].seen = now[tasks[p].guild]
         /\ tasks'[p].upcoming = upcoming[tasks[p].guild]
<1> DEFINE g == tasks[p].guild
           t == [tasks[p] EXCEPT !.seen = now[g], !.upcoming = upcoming[g],
                                 !.todo = IF tasks[p].paused THEN "write" ELSE "clock"]
<1>0. /\ TasksType /\ PlayerType /\ StoreType /\ p \in DOMAIN tasks
      /\ tasks[p].todo = "snapshot"
      /\ tasks' = [tasks EXCEPT ![p] = t]
      /\ UNCHANGED <<overlap, player, emitted, open, doc, presence, faults>>
  BY TypeParts DEF ReadQueue, At, Local
<1>1. tasks[p] \in Task /\ Searching(tasks[p])
  BY <1>0, TaskFields
<1>2. g \in Guilds
  BY <1>1 DEF Task
<1>3. now[g] \in Numbers /\ upcoming[g] \in Waiting
  BY <1>0, <1>2 DEF PlayerType
<1>4. t \in Task
  BY <1>1, <1>3 DEF Task, Todos
<1>5. /\ t.guild = g /\ t.todo = (IF tasks[p].paused THEN "write" ELSE "clock")
      /\ t.paused = tasks[p].paused /\ t.timely = tasks[p].timely
      /\ t.seen = now[g] /\ t.upcoming = upcoming[g]
      /\ t.left = tasks[p].left
  BY <1>1 DEF Task
<1>6. Searching(t)
  BY <1>0, <1>1, <1>5 DEF Searching
<1> HIDE DEF t
<1>7. StoreType' /\ PlayerType'
  BY <1>0 DEF StoreType, PlayerType, player
<1> QED
  BY <1>0, <1>2, <1>4, <1>5, <1>6, <1>7, ReplaceTask, TypePartsNext

LEMMA ReadClockFacts ==
  ASSUME DocumentTypeOK, NEW p, ReadClock(p)
  PROVE  /\ DocumentTypeOK' /\ p \in DOMAIN tasks /\ tasks[p].todo = "clock"
         /\ UNCHANGED <<overlap, player, emitted, open, doc, presence, faults>>
         /\ DOMAIN tasks' = DOMAIN tasks /\ Len(tasks') = Len(tasks)
         /\ \A q \in DOMAIN tasks : q # p => tasks'[q] = tasks[q]
         /\ tasks[p].guild \in Guilds
         /\ tasks'[p].guild = tasks[p].guild /\ tasks'[p].todo = "write"
         /\ tasks'[p].paused = tasks[p].paused /\ tasks'[p].timely = tasks[p].timely
         /\ tasks'[p].seen = tasks[p].seen /\ tasks'[p].upcoming = tasks[p].upcoming
         /\ clock[tasks[p].guild] = "runs" => tasks'[p].since = epoch[tasks[p].guild]
<1> DEFINE g == tasks[p].guild
           t == [tasks[p] EXCEPT !.since = IF clock[g] = "runs" THEN epoch[g] ELSE 0,
                                 !.todo = "write"]
<1>0. /\ TasksType /\ PlayerType /\ StoreType /\ p \in DOMAIN tasks
      /\ tasks[p].todo = "clock"
      /\ tasks' = [tasks EXCEPT ![p] = t]
      /\ UNCHANGED <<overlap, player, emitted, open, doc, presence, faults>>
  BY TypeParts DEF ReadClock, At, Local
<1>1. tasks[p] \in Task /\ Searching(tasks[p])
  BY <1>0, TaskFields
<1>2. g \in Guilds
  BY <1>1 DEF Task
<1>3. epoch[g] \in Numbers /\ 0 \in Numbers
  BY <1>0, <1>2, DocumentBounds DEF PlayerType, Numbers
<1>4. t \in Task
  BY <1>1, <1>3 DEF Task, Todos
<1>5. /\ t.guild = g /\ t.todo = "write" /\ t.left = tasks[p].left
      /\ t.paused = tasks[p].paused /\ t.timely = tasks[p].timely /\ t.seen = tasks[p].seen
      /\ t.upcoming = tasks[p].upcoming
      /\ clock[g] = "runs" => t.since = epoch[g]
  BY <1>1 DEF Task
<1>6. Searching(t)
  BY <1>0, <1>1, <1>5 DEF Searching
<1> HIDE DEF t
<1>7. StoreType' /\ PlayerType'
  BY <1>0 DEF StoreType, PlayerType, player
<1> QED
  BY <1>0, <1>2, <1>4, <1>5, <1>6, <1>7, ReplaceTask, TypePartsNext

LEMMA WriteFacts ==
  ASSUME DocumentTypeOK, NEW p, Write(p)
  PROVE  /\ DocumentTypeOK' /\ p \in DOMAIN tasks /\ tasks[p].todo = "write"
         /\ UNCHANGED <<overlap, player, open, presence>>
         /\ \/ /\ doc' = [doc EXCEPT ![tasks[p].guild] = Written(tasks[p], @)]
               /\ emitted' = emitted \cup {tasks[p].guild}
            \/ UNCHANGED <<doc, emitted>>
         /\ DOMAIN tasks' = DOMAIN tasks /\ Len(tasks') = Len(tasks)
         /\ \A q \in DOMAIN tasks : q # p => tasks'[q] = tasks[q]
         /\ tasks[p].guild \in Guilds
         /\ tasks'[p].guild = tasks[p].guild /\ tasks'[p].todo = "presence"
         /\ tasks'[p].left = Guilds
<1> DEFINE g == tasks[p].guild
           t == [tasks[p] EXCEPT !.todo = "presence", !.left = Guilds]
<1>0. /\ TasksType /\ PlayerType /\ StoreType /\ p \in DOMAIN tasks
      /\ tasks[p].todo = "write"
      /\ tasks' = [tasks EXCEPT ![p].todo = "presence", ![p].left = Guilds]
      /\ UNCHANGED <<overlap, player, open, presence>>
  BY TypeParts DEF Write, At
<1>1. tasks[p] \in Task /\ Searching(tasks[p])
  BY <1>0, TaskFields
<1>2. g \in Guilds
  BY <1>1 DEF Task
<1>3. \/ doc' = [doc EXCEPT ![g] = Written(tasks[p], @)] /\ emitted' = emitted \cup {g}
      \/ UNCHANGED <<doc, emitted>>
  BY DEF Write
<1>4. faults' = faults \/ (faults < MaxFaults /\ faults' = faults + 1)
  BY DEF Write
<1>5. t \in Task
  BY <1>1 DEF Task, Todos
<1>6. t.guild = g /\ t.todo = "presence" /\ t.left = Guilds
  BY <1>1 DEF Task
<1>7. Searching(t)
  BY <1>2, <1>6 DEF Searching
<1>8. tasks' = [tasks EXCEPT ![p] = t]
  BY <1>0
<1> HIDE DEF t
<1>9. doc' \in [Guilds -> Documents]
  <2>1. doc[g] \in Documents
    BY <1>0, <1>2 DEF StoreType
  <2>2. Written(tasks[p], doc[g]) \in Documents
    BY <1>1, <2>1 DEF Written, Task, Documents
  <2>3. doc' = [doc EXCEPT ![g] = Written(tasks[p], doc[g])] \/ doc' = doc
    BY <1>3
  <2> QED
    BY <1>0, <2>2, <2>3 DEF StoreType
<1>10. faults' \in 0 .. MaxFaults
  BY <1>0, <1>4, DocumentBounds DEF StoreType
<1>11. PlayerType'
  BY <1>0 DEF PlayerType, player
<1>12. StoreType'
  BY <1>0, <1>2, <1>3, <1>9, <1>10 DEF StoreType
<1>13. TasksType' /\ DOMAIN tasks' = DOMAIN tasks /\ Len(tasks') = Len(tasks)
         /\ tasks'[p] = t /\ \A q \in DOMAIN tasks : q # p => tasks'[q] = tasks[q]
  BY <1>0, <1>5, <1>7, <1>8, ReplaceTask
<1> QED
  BY <1>0, <1>2, <1>3, <1>6, <1>11, <1>12, <1>13, TypePartsNext

LEMMA LookAtFacts ==
  ASSUME DocumentTypeOK, NEW p, LookAt(p)
  PROVE  /\ DocumentTypeOK' /\ p \in DOMAIN tasks /\ tasks[p].todo = "presence"
         /\ UNCHANGED <<overlap, player, emitted, open, doc, presence, faults>>
         /\ DOMAIN tasks' = DOMAIN tasks /\ Len(tasks') = Len(tasks)
         /\ \A q \in DOMAIN tasks : q # p => tasks'[q] = tasks[q]
         /\ tasks'[p].guild = tasks[p].guild
         /\ tasks'[p].todo \in {"presence", "status"}
         /\ tasks'[p].todo = "presence" <=> tasks'[p].left # {}
         /\ \E g \in tasks[p].left :
              /\ g \in Guilds /\ tasks'[p].label = now[g]
              /\ tasks'[p].left = IF now[g] # 0 THEN {} ELSE tasks[p].left \ {g}
<1>0. /\ TasksType /\ PlayerType /\ StoreType /\ p \in DOMAIN tasks
      /\ tasks[p].todo = "presence"
      /\ UNCHANGED <<overlap, player, emitted, open, doc, presence, faults>>
  BY TypeParts DEF LookAt, At, Local
<1>1. tasks[p] \in Task /\ Searching(tasks[p])
  BY <1>0, TaskFields
<1> DEFINE rest(g) == IF now[g] # 0 THEN {} ELSE tasks[p].left \ {g}
           t(g) == [tasks[p] EXCEPT !.label = now[g], !.left = rest(g),
                       !.todo = IF rest(g) = {} THEN "status" ELSE "presence"]
<1>2. PICK g \in tasks[p].left : tasks' = [tasks EXCEPT ![p] = t(g)]
  BY DEF LookAt, Local
<1>3. g \in Guilds
  BY <1>1, <1>2 DEF Task
<1>4. now[g] \in Numbers
  BY <1>0, <1>3 DEF PlayerType
<1>5. rest(g) \in SUBSET Guilds
  BY <1>1 DEF Task
<1>6. t(g) \in Task
  BY <1>1, <1>4, <1>5 DEF Task, Todos
<1>7. /\ t(g).guild = tasks[p].guild /\ t(g).label = now[g] /\ t(g).left = rest(g)
      /\ t(g).todo = IF rest(g) = {} THEN "status" ELSE "presence"
  BY <1>1 DEF Task
<1>8. Searching(t(g))
  BY <1>7 DEF Searching
<1>9. StoreType' /\ PlayerType'
  BY <1>0 DEF StoreType, PlayerType, player
<1> HIDE DEF t
<1>10. TasksType' /\ DOMAIN tasks' = DOMAIN tasks /\ Len(tasks') = Len(tasks)
         /\ tasks'[p] = t(g) /\ \A q \in DOMAIN tasks : q # p => tasks'[q] = tasks[q]
  BY <1>0, <1>2, <1>6, <1>8, ReplaceTask
<1> QED
  BY <1>0, <1>3, <1>7, <1>9, <1>10, TypePartsNext

LEMMA UpdateStatusFacts ==
  ASSUME DocumentTypeOK, NEW p, UpdateStatus(p)
  PROVE  /\ DocumentTypeOK' /\ p \in DOMAIN tasks /\ tasks[p].todo = "status"
         /\ UNCHANGED <<overlap, player, emitted, open, doc>>
         /\ DOMAIN tasks' = DOMAIN tasks /\ Len(tasks') = Len(tasks)
         /\ \A q \in DOMAIN tasks : q # p => tasks'[q] = tasks[q]
         /\ tasks'[p].todo = "done"
         /\ tasks'[p].told => presence' = tasks[p].label
<1>0. /\ TasksType /\ PlayerType /\ StoreType /\ p \in DOMAIN tasks
      /\ tasks[p].todo = "status"
      /\ UNCHANGED <<overlap, player, emitted, open, doc>>
  BY TypeParts DEF UpdateStatus, At
<1>1. tasks[p].guild \in Guilds /\ tasks[p].label \in Numbers
  BY <1>0, TaskFields DEF Task
<1>2. PICK told \in BOOLEAN :
           /\ IF told THEN presence' = tasks[p].label /\ UNCHANGED faults
                      ELSE faults < MaxFaults /\ faults' = faults + 1 /\ UNCHANGED presence
           /\ tasks' = [tasks EXCEPT ![p] = Ended(tasks[p].guild, told)]
  BY DEF UpdateStatus
<1>3. PICK t : t = Ended(tasks[p].guild, told)
  OBVIOUS
<1>4. t \in Task /\ Searching(t) /\ t.todo = "done" /\ t.told = told
  BY <1>1, <1>3, EndedType
<1>5. /\ TasksType' /\ DOMAIN tasks' = DOMAIN tasks /\ Len(tasks') = Len(tasks)
      /\ tasks'[p] = t /\ \A q \in DOMAIN tasks : q # p => tasks'[q] = tasks[q]
  BY <1>0, <1>2, <1>3, <1>4, ReplaceTask
<1>6. presence' \in Numbers /\ faults' \in 0 .. MaxFaults
  BY <1>0, <1>1, <1>2, DocumentBounds DEF StoreType
<1>7. StoreType' /\ PlayerType'
  BY <1>0, <1>6 DEF StoreType, PlayerType, player
<1>8. t.told => presence' = tasks[p].label
  BY <1>2, <1>4
<1> QED
  BY <1>0, <1>4, <1>5, <1>7, <1>8, TypePartsNext

\* The steps of Document.
DocumentMoves ==
  \/ \E g \in Guilds : Operate(g) \/ Hear(g)
  \/ \E p \in 1 .. MaxTasks : Emission(p)
  \/ UNCHANGED docVars

LEMMA TypeStep ==
  ASSUME DocumentTypeOK, DocumentMoves
  PROVE  DocumentTypeOK' /\ UNCHANGED <<overlap, open>>
<1>1. ASSUME NEW g \in Guilds, Operate(g)
      PROVE  DocumentTypeOK' /\ UNCHANGED <<overlap, open>>
  <2>1. PICK track \in Numbers, waiting \in Waiting, c \in Clocks, e \in Numbers,
              r \in Reported, t \in Task : Turns(g, track, waiting, c, e, r, t)
    BY <1>1, OperateIsTurn DEF SomeTurn
  <2>2. UNCHANGED <<overlap, open>>
    BY <2>1 DEF Turns, Turn
  <2> QED
    BY <2>1, <2>2, TurnTypes
<1>2. ASSUME NEW g \in Guilds, Hear(g)
      PROVE  DocumentTypeOK' /\ UNCHANGED <<overlap, open>>
  BY <1>2, HearFacts
<1>3. ASSUME NEW p, Emission(p)
      PROVE  DocumentTypeOK' /\ UNCHANGED <<overlap, open>>
  BY <1>3, ReadStateFacts, ReadQueueFacts, ReadClockFacts, WriteFacts, LookAtFacts,
     UpdateStatusFacts DEF Emission
<1>4. ASSUME UNCHANGED docVars
      PROVE  DocumentTypeOK' /\ UNCHANGED <<overlap, open>>
  BY <1>4 DEF docVars, player, DocumentTypeOK
<1> QED
  BY <1>1, <1>2, <1>3, <1>4 DEF DocumentMoves

LEMMA DocumentStarts ==
  ASSUME DocumentInit
  PROVE  DocumentTypeOK /\ DOMAIN tasks = {}
<1>1. /\ 0 \in Numbers /\ 0 \in Waiting /\ 0 \in 0 .. MaxFaults
      /\ <<0, 0>> \in Numbers \X Waiting
  BY DocumentBounds DEF Numbers, Waiting
<1>2. PlayerType
  <2>1. <<FALSE>> \in Reported
    BY DEF Reported
  <2> QED
    BY <1>1, <2>1 DEF DocumentInit, PlayerType, Clocks
<1>3. StoreType
  BY <1>1, OverlapsAssumption DEF DocumentInit, StoreType, NoDocument, Documents
<1>4. tasks \in Seq(Task) /\ DOMAIN tasks = {}
  BY EmptySeq DEF DocumentInit
<1> QED
  BY <1>2, <1>3, <1>4, TypeParts DEF TasksType

-----------------------------------------------------------------------------
(* The document shows a track and a queue of the same moment: what a task  *)
(* has read in one piece stays what the queue has been.                    *)

PairInv ==
  /\ \A g \in Guilds : <<0, 0>> \in past[g] /\ <<now[g], upcoming[g]>> \in past[g]
  /\ \A p \in DOMAIN tasks :
       tasks[p].todo \in {"clock", "write"} =>
         <<tasks[p].seen, tasks[p].upcoming>> \in past[tasks[p].guild]
  /\ PairWasTrue

LEMMA WrittenWhole ==
  ASSUME NEW t, NEW old
  PROVE  Written(t, old).whole = (t.seen # 0)
BY DEF Written

\* A task that has nothing in hand, or what it had, or the queue of now.
LEMMA PairKept ==
  ASSUME PairInv, NEW p \in DOMAIN tasks, UNCHANGED <<player, doc>>,
         DOMAIN tasks' = DOMAIN tasks,
         \A q \in DOMAIN tasks : q # p => tasks'[q] = tasks[q],
         tasks'[p].todo \in {"clock", "write"} =>
           <<tasks'[p].seen, tasks'[p].upcoming>> \in past[tasks'[p].guild]
  PROVE  PairInv'
BY DEF PairInv, PairWasTrue, player

LEMMA PairStep ==
  ASSUME DocumentTypeOK, PairInv, DocumentMoves
  PROVE  PairInv'
<1>0. ASSUME NEW g \in Guilds, Hear(g)
      PROVE  PairInv'
  <2>1. UNCHANGED <<now, upcoming, past, doc, tasks>>
    BY <1>0, HearFacts
  <2> QED
    BY <2>1 DEF PairInv, PairWasTrue
<1>1. ASSUME NEW g \in Guilds, Operate(g)
      PROVE  PairInv'
  <2>1. PICK track \in Numbers, waiting \in Waiting, c \in Clocks, e \in Numbers,
              r \in Reported, t \in Task : Turns(g, track, waiting, c, e, r, t)
    BY <1>1, OperateIsTurn DEF SomeTurn
  <2>2. /\ now' = [now EXCEPT ![g] = track] /\ upcoming' = [upcoming EXCEPT ![g] = waiting]
        /\ past' = [past EXCEPT ![g] = @ \cup {<<track, waiting>>}] /\ UNCHANGED doc
    BY <2>1 DEF Turns, Turn
  <2>3. \A h \in Guilds : past[h] \subseteq past'[h] /\ <<now'[h], upcoming'[h]>> \in past'[h]
    BY <2>2 DEF PairInv, DocumentTypeOK
  <2>4. /\ DOMAIN tasks' = DOMAIN tasks \cup {Len(tasks) + 1}
        /\ \A p \in DOMAIN tasks : tasks'[p] = tasks[p] /\ tasks[p].guild \in Guilds
        /\ tasks'[Len(tasks) + 1].todo \in {"state", "done"}
    BY <2>1, TypeParts, TurnTypes, TaskFields DEF Task
  <2>5. PairWasTrue'
    BY <2>2, <2>3 DEF PairInv, PairWasTrue
  <2> QED
    BY <2>3, <2>4, <2>5 DEF PairInv
<1>2. ASSUME NEW p, ReadState(p) \/ LookAt(p) \/ UpdateStatus(p)
      PROVE  PairInv'
  BY <1>2, ReadStateFacts, LookAtFacts, UpdateStatusFacts, PairKept
<1>3. ASSUME NEW p, ReadQueue(p)
      PROVE  PairInv'
  <2>1. <<tasks'[p].seen, tasks'[p].upcoming>> \in past[tasks'[p].guild]
    BY <1>3, ReadQueueFacts DEF PairInv
  <2> QED
    BY <1>3, <2>1, ReadQueueFacts, PairKept
<1>4. ASSUME NEW p, ReadClock(p)
      PROVE  PairInv'
  <2>1. <<tasks'[p].seen, tasks'[p].upcoming>> \in past[tasks'[p].guild]
    BY <1>4, ReadClockFacts DEF PairInv
  <2> QED
    BY <1>4, <2>1, ReadClockFacts, PairKept
<1>5. ASSUME NEW p, Write(p)
      PROVE  PairInv'
  <2> DEFINE g == tasks[p].guild
  <2>1. /\ p \in DOMAIN tasks /\ tasks[p].todo = "write" /\ g \in Guilds
        /\ UNCHANGED player /\ DOMAIN tasks' = DOMAIN tasks
        /\ \A q \in DOMAIN tasks : q # p => tasks'[q] = tasks[q]
        /\ tasks'[p].todo = "presence"
        /\ doc' = [doc EXCEPT ![g] = Written(tasks[p], doc[g])] \/ doc' = doc
    BY <1>5, WriteFacts
  <2>2. <<tasks[p].seen, tasks[p].upcoming>> \in past[g]
    BY <2>1 DEF PairInv
  <2>3. ASSUME doc' = [doc EXCEPT ![g] = Written(tasks[p], doc[g])]
        PROVE  PairWasTrue'
    <3>1. doc'[g] = Written(tasks[p], doc[g]) /\ \A h \in Guilds : h # g => doc'[h] = doc[h]
      BY <2>1, <2>3 DEF DocumentTypeOK
    <3>2. /\ doc'[g].upcoming = tasks[p].upcoming
          /\ tasks[p].seen # 0 => doc'[g].now = tasks[p].seen
      BY <3>1 DEF Written
    <3>3. doc'[g].whole = (tasks[p].seen # 0)
      BY <3>1, WrittenWhole
    <3> QED
      BY <2>1, <2>2, <3>1, <3>2, <3>3 DEF PairWasTrue, PairInv, player
  <2>4. ASSUME doc' = doc
        PROVE  PairWasTrue'
    BY <2>1, <2>4 DEF PairWasTrue, PairInv, player
  <2> QED
    BY <2>1, <2>3, <2>4 DEF PairInv, player
<1>6. ASSUME UNCHANGED docVars
      PROVE  PairInv'
  BY <1>6 DEF docVars, player, PairInv, PairWasTrue
<1> QED
  BY <1>0, <1>1, <1>2, <1>3, <1>4, <1>5, <1>6 DEF Emission, DocumentMoves

-----------------------------------------------------------------------------
(* Tasks that come one after another: the one at work is the last, and     *)
(* what it has read is still so.                                           *)

OneByOne == \A p \in DOMAIN tasks : tasks[p].todo # "done" => p = Len(tasks)

Paused(g) == NodePaused(g) \/ clock[g] = "frozen"

Fresh(t) ==
  /\ t.todo \in {"snapshot", "clock", "write"} =>
       /\ clock[t.guild] = "frozen" => t.paused
       /\ t.timely => t.paused = Paused(t.guild)
  /\ t.todo \in {"clock", "write"} =>
       t.seen = now[t.guild] /\ t.upcoming = upcoming[t.guild]
  /\ t.todo = "clock" => ~t.paused
  /\ t.todo = "write" /\ ~t.paused /\ clock[t.guild] = "runs" => t.since = epoch[t.guild]

KeepsInv ==
  /\ \A g \in Guilds : clock[g] = "runs" => epoch[g] # 0
  /\ ~overlap => /\ OneByOne
                 /\ \A p \in DOMAIN tasks : Fresh(tasks[p])
                 /\ \A g \in emitted : KeepsUp(g)

LEMMA DoneMeans == Done <=> \A p \in DOMAIN tasks : tasks[p].todo = "done"
BY DEF Done, Running

\* What a document shows of a player stays true of it while neither changes.
LEMMA KeepsUpStays ==
  ASSUME NEW g, NEW h, h = g, KeepsUp(g), NodePaused(g)' = NodePaused(g), doc'[h] = doc[g],
         now'[h] = now[g], upcoming'[h] = upcoming[g], clock'[h] = clock[g],
         epoch'[h] = epoch[g]
  PROVE  KeepsUp(g)'
<1>1. doc'[g].timely => doc'[g].paused = (NodePaused(g)' \/ clock'[g] = "frozen")
  BY Zenon DEF KeepsUp
<1>2. /\ doc'[g].upcoming = upcoming'[g]
      /\ now'[g] # 0 => doc'[g].now = now'[g]
      /\ clock'[g] = "frozen" => doc'[g].paused
      /\ clock'[g] = "runs" /\ ~doc'[g].paused => doc'[g].since = epoch'[g]
  BY DEF KeepsUp
<1> QED
  BY <1>1, <1>2, Zenon DEF KeepsUp

LEMMA ChangeKeeps ==
  ASSUME DocumentTypeOK, KeepsInv, NEW g \in Guilds, Operate(g)
  PROVE  KeepsInv'
<1>1. PICK track \in Numbers, waiting \in Waiting, c \in Clocks, e \in Numbers,
            r \in Reported, t \in Task : Turns(g, track, waiting, c, e, r, t)
  BY OperateIsTurn DEF SomeTurn
<1>2. /\ clock' = [clock EXCEPT ![g] = c] /\ epoch' = [epoch EXCEPT ![g] = e]
      /\ now' = [now EXCEPT ![g] = track] /\ upcoming' = [upcoming EXCEPT ![g] = waiting]
      /\ reports' = [reports EXCEPT ![g] = r]
      /\ emitted' = emitted \ {g} /\ UNCHANGED <<overlap, doc>>
      /\ overlap \/ Done
      /\ c = "runs" => e # 0 \/ (clock[g] = "runs" /\ e = epoch[g])
  BY <1>1 DEF Turns, Turn
<1>3. \A h \in Guilds : clock'[h] = "runs" => epoch'[h] # 0
  BY <1>2 DEF KeepsInv, DocumentTypeOK
<1>4. /\ DOMAIN tasks' = DOMAIN tasks \cup {Len(tasks) + 1} /\ Len(tasks') = Len(tasks) + 1
      /\ \A p \in DOMAIN tasks : tasks'[p] = tasks[p]
      /\ tasks'[Len(tasks) + 1].todo \in {"state", "done"}
  BY <1>1, TurnTypes
<1>5. ASSUME ~overlap
      PROVE  /\ OneByOne' /\ \A p \in DOMAIN tasks' : Fresh(tasks[p])'
             /\ \A h \in emitted' : KeepsUp(h)'
  <2>1. \A p \in DOMAIN tasks : tasks[p].todo = "done"
    BY <1>2, <1>5, DoneMeans
  <2>2. OneByOne'
    BY <1>4, <2>1 DEF OneByOne
  <2>3. \A p \in DOMAIN tasks' : tasks'[p].todo \in {"done", "state"}
    BY <1>4, <2>1
  <2>4. \A p \in DOMAIN tasks' : Fresh(tasks[p])'
    BY <2>3 DEF Fresh
  <2>5. ASSUME NEW h \in emitted'
        PROVE  KeepsUp(h)'
    <3>1. KeepsUp(h) /\ h \in Guilds /\ h # g
      BY <1>2, <1>5, <2>5 DEF KeepsInv, DocumentTypeOK
    <3>2. /\ now'[h] = now[h] /\ upcoming'[h] = upcoming[h] /\ clock'[h] = clock[h]
          /\ epoch'[h] = epoch[h] /\ doc'[h] = doc[h] /\ reports'[h] = reports[h]
      BY <1>2, <3>1 DEF DocumentTypeOK
    <3>3. NodePaused(h)' = NodePaused(h)
      BY <3>2 DEF NodePaused
    <3> QED
      BY <3>1, <3>2, <3>3, KeepsUpStays
  <2> QED
    BY <2>2, <2>4, <2>5
<1> QED
  BY <1>2, <1>3, <1>5 DEF KeepsInv

LEMMA HearKeeps ==
  ASSUME DocumentTypeOK, KeepsInv, NEW g \in Guilds, Hear(g)
  PROVE  KeepsInv'
<1>1. /\ \A h \in Guilds : NodePaused(h)' = NodePaused(h)
      /\ UNCHANGED <<overlap, now, upcoming, clock, epoch, emitted, doc, tasks>>
  BY HearFacts
<1>2. ASSUME ~overlap, NEW h \in emitted
      PROVE  KeepsUp(h)'
  <2>1. KeepsUp(h) /\ h \in Guilds
    BY <1>2 DEF KeepsInv, DocumentTypeOK
  <2> QED
    BY <1>1, <2>1, KeepsUpStays
<1>3. ASSUME ~overlap, NEW p \in DOMAIN tasks
      PROVE  Fresh(tasks[p])'
  <2>1. Fresh(tasks[p])
    BY <1>3 DEF KeepsInv
  <2>2. tasks[p].guild \in Guilds
    BY <1>3, TypeParts, TaskFields DEF Task
  <2>3. Paused(tasks[p].guild)' = Paused(tasks[p].guild)
    BY <1>1, <2>2, Zenon DEF Paused
  <2>4. tasks' = tasks /\ clock' = clock /\ epoch' = epoch /\ now' = now /\ upcoming' = upcoming
    BY <1>1
  <2> QED
    BY <2>1, <2>3, <2>4, Zenon DEF Fresh
<1>4. ~overlap => OneByOne'
  BY <1>1 DEF KeepsInv, OneByOne
<1> QED
  BY <1>1, <1>2, <1>3, <1>4 DEF KeepsInv

\* A step of the last task that leaves player and document alone.
LEMMA TaskKeeps ==
  ASSUME KeepsInv, NEW p \in DOMAIN tasks, tasks[p].todo # "done",
         UNCHANGED <<overlap, player, emitted, doc>>,
         DOMAIN tasks' = DOMAIN tasks, Len(tasks') = Len(tasks),
         \A q \in DOMAIN tasks : q # p => tasks'[q] = tasks[q],
         ~overlap => Fresh(tasks'[p])
  PROVE  KeepsInv'
<1>1. \A q \in DOMAIN tasks' : ~overlap => Fresh(tasks[q])'
  BY DEF KeepsInv, Fresh, Paused, NodePaused, player
<1>2. ~overlap => OneByOne'
  BY DEF KeepsInv, OneByOne
<1>3. \A g \in emitted : KeepsUp(g) => KeepsUp(g)'
  BY DEF KeepsUp, NodePaused, player
<1> QED
  BY <1>1, <1>2, <1>3 DEF KeepsInv, player

LEMMA ReadsKeep ==
  ASSUME DocumentTypeOK, KeepsInv, NEW p,
         ReadState(p) \/ ReadQueue(p) \/ ReadClock(p) \/ LookAt(p) \/ UpdateStatus(p)
  PROVE  KeepsInv'
<1>1. CASE ReadState(p)
  <2>1. /\ tasks'[p].guild = tasks[p].guild /\ tasks'[p].todo = "snapshot"
        /\ clock[tasks[p].guild] = "frozen" => tasks'[p].paused
        /\ tasks'[p].timely => tasks'[p].paused = Paused(tasks[p].guild)
    BY <1>1, ReadStateFacts, Zenon DEF Paused
  <2>2. Fresh(tasks'[p])
    BY <2>1 DEF Fresh
  <2> QED
    BY <1>1, <2>2, ReadStateFacts, TaskKeeps
<1>2. CASE ReadQueue(p)
  <2>1. p \in DOMAIN tasks /\ tasks[p].todo = "snapshot"
    BY <1>2, ReadQueueFacts
  <2>2. ASSUME ~overlap
        PROVE  Fresh(tasks'[p])
    <3>1. /\ clock[tasks[p].guild] = "frozen" => tasks[p].paused
          /\ tasks[p].timely => tasks[p].paused = Paused(tasks[p].guild)
      BY <2>1, <2>2 DEF KeepsInv, Fresh
    <3>2. /\ tasks'[p].guild = tasks[p].guild
          /\ tasks'[p].todo = IF tasks[p].paused THEN "write" ELSE "clock"
          /\ tasks'[p].paused = tasks[p].paused /\ tasks'[p].timely = tasks[p].timely
          /\ tasks'[p].seen = now[tasks[p].guild]
          /\ tasks'[p].upcoming = upcoming[tasks[p].guild]
      BY <1>2, ReadQueueFacts
    <3>3. tasks'[p].todo = "clock" => ~tasks'[p].paused
      BY <3>2
    <3>4. tasks'[p].todo = "write" => tasks'[p].paused
      BY <3>2
    <3>5. /\ clock[tasks'[p].guild] = "frozen" => tasks'[p].paused
          /\ tasks'[p].timely => tasks'[p].paused = Paused(tasks'[p].guild)
      BY <3>1, <3>2, Zenon
    <3>6. tasks'[p].seen = now[tasks'[p].guild] /\ tasks'[p].upcoming = upcoming[tasks'[p].guild]
      BY <3>2
    <3> QED
      BY <3>3, <3>4, <3>5, <3>6, Zenon DEF Fresh
  <2> QED
    BY <1>2, <2>1, <2>2, ReadQueueFacts, TaskKeeps
<1>3. CASE ReadClock(p)
  <2>1. p \in DOMAIN tasks /\ tasks[p].todo = "clock"
    BY <1>3, ReadClockFacts
  <2>2. ASSUME ~overlap
        PROVE  Fresh(tasks'[p])
    <3>1. /\ clock[tasks[p].guild] = "frozen" => tasks[p].paused
          /\ tasks[p].timely => tasks[p].paused = Paused(tasks[p].guild)
          /\ tasks[p].seen = now[tasks[p].guild]
          /\ tasks[p].upcoming = upcoming[tasks[p].guild]
      BY <2>1, <2>2 DEF KeepsInv, Fresh
    <3>2. /\ tasks'[p].guild = tasks[p].guild /\ tasks'[p].todo = "write"
          /\ tasks'[p].paused = tasks[p].paused /\ tasks'[p].timely = tasks[p].timely
          /\ tasks'[p].seen = tasks[p].seen /\ tasks'[p].upcoming = tasks[p].upcoming
          /\ clock[tasks[p].guild] = "runs" => tasks'[p].since = epoch[tasks[p].guild]
      BY <1>3, ReadClockFacts
    <3>3. /\ clock[tasks'[p].guild] = "frozen" => tasks'[p].paused
          /\ tasks'[p].timely => tasks'[p].paused = Paused(tasks'[p].guild)
      BY <3>1, <3>2, Zenon
    <3>4. /\ tasks'[p].seen = now[tasks'[p].guild]
          /\ tasks'[p].upcoming = upcoming[tasks'[p].guild]
          /\ tasks'[p].todo # "clock"
          /\ clock[tasks'[p].guild] = "runs" => tasks'[p].since = epoch[tasks'[p].guild]
      BY <3>1, <3>2
    <3> QED
      BY <3>3, <3>4, Zenon DEF Fresh
  <2> QED
    BY <1>3, <2>1, <2>2, ReadClockFacts, TaskKeeps
<1>4. CASE LookAt(p)
  <2>1. Fresh(tasks'[p])
    BY <1>4, LookAtFacts DEF Fresh
  <2> QED
    BY <1>4, <2>1, LookAtFacts, TaskKeeps
<1>5. CASE UpdateStatus(p)
  <2>1. Fresh(tasks'[p])
    BY <1>5, UpdateStatusFacts DEF Fresh
  <2> QED
    BY <1>5, <2>1, UpdateStatusFacts, TaskKeeps
<1> QED
  BY <1>1, <1>2, <1>3, <1>4, <1>5

LEMMA WriteKeeps ==
  ASSUME DocumentTypeOK, KeepsInv, NEW p, Write(p)
  PROVE  KeepsInv'
<1>0. PICK g : g = tasks[p].guild
  OBVIOUS
<1>1. /\ p \in DOMAIN tasks /\ tasks[p].todo = "write" /\ g \in Guilds
      /\ UNCHANGED <<overlap, player>>
      /\ DOMAIN tasks' = DOMAIN tasks /\ Len(tasks') = Len(tasks)
      /\ \A q \in DOMAIN tasks : q # p => tasks'[q] = tasks[q]
      /\ tasks'[p].todo = "presence"
  BY <1>0, WriteFacts
<1>2. \/ /\ doc' = [doc EXCEPT ![g] = Written(tasks[p], doc[g])]
         /\ emitted' = emitted \cup {g}
      \/ UNCHANGED <<doc, emitted>>
  BY <1>0, WriteFacts
<1>3. ~overlap => OneByOne'
  BY <1>1 DEF KeepsInv, OneByOne
<1>4. ~overlap => \A q \in DOMAIN tasks' : Fresh(tasks[q])'
  BY <1>1 DEF KeepsInv, Fresh, Paused, NodePaused, player
<1>5. /\ now' = now /\ upcoming' = upcoming /\ clock' = clock /\ epoch' = epoch
      /\ reports' = reports
  BY <1>1 DEF player
<1>6. \A h : NodePaused(h)' = NodePaused(h)
  BY <1>5 DEF NodePaused
<1>7. ASSUME ~overlap, NEW h \in emitted'
      PROVE  KeepsUp(h)'
  <2>1. CASE h = g /\ doc' = [doc EXCEPT ![g] = Written(tasks[p], doc[g])]
    <3>1. doc'[g] = Written(tasks[p], doc[g])
      BY <1>1, <2>1 DEF DocumentTypeOK
    <3>2. Fresh(tasks[p]) /\ (clock[g] = "runs" => epoch[g] # 0)
      BY <1>1, <1>7 DEF KeepsInv
    <3>3. /\ clock[g] = "frozen" => tasks[p].paused
          /\ tasks[p].timely => tasks[p].paused = (NodePaused(g) \/ clock[g] = "frozen")
      BY <1>0, <1>1, <3>2, Zenon DEF Fresh, Paused
    <3>4. /\ tasks[p].seen = now[g] /\ tasks[p].upcoming = upcoming[g]
          /\ clock[g] = "runs" /\ ~tasks[p].paused => tasks[p].since = epoch[g] /\ epoch[g] # 0
      BY <1>0, <1>1, <3>2 DEF Fresh
    <3>5. /\ doc'[g].upcoming = tasks[p].upcoming
          /\ doc'[g].paused = tasks[p].paused /\ doc'[g].timely = tasks[p].timely
          /\ tasks[p].seen # 0 => doc'[g].now = tasks[p].seen
          /\ tasks[p].since # 0 => doc'[g].since = tasks[p].since
      BY <3>1 DEF Written
    <3>6. /\ clock'[g] = "frozen" => doc'[g].paused
          /\ doc'[g].timely => doc'[g].paused = (NodePaused(g)' \/ clock'[g] = "frozen")
      BY <1>5, <1>6, <3>3, <3>5, Zenon
    <3>7. /\ doc'[g].upcoming = upcoming'[g]
          /\ now'[g] # 0 => doc'[g].now = now'[g]
      BY <1>5, <3>4, <3>5
    <3>8. clock'[g] = "runs" /\ ~doc'[g].paused => doc'[g].since = epoch'[g]
      BY <1>5, <3>4, <3>5
    <3>9. KeepsUp(g)'
      BY <3>6, <3>7, <3>8, Zenon DEF KeepsUp
    <3> QED
      BY <2>1, <3>9
  <2>2. CASE h \in emitted /\ doc'[h] = doc[h]
    <3>1. KeepsUp(h)
      BY <1>7, <2>2 DEF KeepsInv
    <3>2. /\ now'[h] = now[h] /\ upcoming'[h] = upcoming[h] /\ clock'[h] = clock[h]
          /\ epoch'[h] = epoch[h] /\ NodePaused(h)' = NodePaused(h)
      BY <1>5, <1>6
    <3> QED
      BY <2>2, <3>1, <3>2, KeepsUpStays
  <2>3. h \in emitted => h \in Guilds
    BY DEF DocumentTypeOK
  <2>4. h # g /\ h \in Guilds => doc'[h] = doc[h]
    BY <1>2 DEF DocumentTypeOK
  <2> QED
    BY <1>2, <1>7, <2>1, <2>2, <2>3, <2>4
<1> QED
  BY <1>1, <1>3, <1>4, <1>5, <1>7 DEF KeepsInv

-----------------------------------------------------------------------------
(* The status: the guilds that a search has passed are idle.               *)

Names(track) == track \in {now[g] : g \in Guilds} /\ (track = 0 => \A g \in Guilds : now[g] = 0)

PresenceInv ==
  ~overlap =>
    /\ \A p \in DOMAIN tasks :
         /\ tasks[p].todo = "presence" => \A g \in Guilds \ tasks[p].left : now[g] = 0
         /\ tasks[p].todo = "status" => Names(tasks[p].label)
    /\ Done /\ tasks # <<>> /\ tasks[Len(tasks)].told => Names(presence)

\* A step of a task that does not end it.
LEMMA PresenceKept ==
  ASSUME PresenceInv, NEW p \in DOMAIN tasks, UNCHANGED <<overlap, player, presence>>,
         DOMAIN tasks' = DOMAIN tasks,
         \A q \in DOMAIN tasks : q # p => tasks'[q] = tasks[q],
         tasks'[p].todo # "done",
         /\ tasks'[p].todo = "presence" =>
              (~overlap => \A g \in Guilds \ tasks'[p].left : now[g] = 0)
         /\ tasks'[p].todo = "status" => (~overlap => Names(tasks'[p].label))
  PROVE  PresenceInv'
<1>1. ~Done'
  BY DoneMeans DEF Done, Running
<1>2. \A track : Names(track) => Names(track)'
  BY DEF Names, player
<1> QED
  BY <1>1, <1>2 DEF PresenceInv, player

LEMMA PresenceStep ==
  ASSUME DocumentTypeOK, KeepsInv, PresenceInv, DocumentMoves
  PROVE  PresenceInv'
<1>0. ASSUME NEW g \in Guilds, Hear(g)
      PROVE  PresenceInv'
  <2>1. UNCHANGED <<overlap, now, presence, tasks>>
    BY <1>0, HearFacts
  <2> QED
    BY <2>1 DEF PresenceInv, Names, Done, Running
<1>1. ASSUME NEW g \in Guilds, Operate(g)
      PROVE  PresenceInv'
  <2>1. PICK track \in Numbers, waiting \in Waiting, c \in Clocks, e \in Numbers,
              r \in Reported, t \in Task : Turns(g, track, waiting, c, e, r, t)
    BY <1>1, OperateIsTurn DEF SomeTurn
  <2>2. overlap' = overlap /\ (overlap \/ Done)
    BY <2>1 DEF Turns, Turn
  <2>3. /\ DOMAIN tasks' = DOMAIN tasks \cup {Len(tasks) + 1} /\ Len(tasks') = Len(tasks) + 1
        /\ \A p \in DOMAIN tasks : tasks'[p] = tasks[p]
        /\ tasks'[Len(tasks) + 1].todo \in {"state", "done"}
        /\ tasks'[Len(tasks) + 1].todo = "done" => ~tasks'[Len(tasks) + 1].told
    BY <2>1, TurnTypes
  <2>4. Done' => ~tasks'[Len(tasks')].told
    BY <2>3 DEF Done, Running
  <2>5. ~overlap => \A p \in DOMAIN tasks' : tasks'[p].todo \notin {"presence", "status"}
    BY <2>2, <2>3, DoneMeans
  <2> QED
    BY <2>2, <2>4, <2>5 DEF PresenceInv
<1>2. ASSUME NEW p, ReadState(p) \/ ReadQueue(p) \/ ReadClock(p)
      PROVE  PresenceInv'
  BY <1>2, ReadStateFacts, ReadQueueFacts, ReadClockFacts, PresenceKept
<1>3. ASSUME NEW p, Write(p)
      PROVE  PresenceInv'
  BY <1>3, WriteFacts, PresenceKept
<1>4. ASSUME NEW p, LookAt(p)
      PROVE  PresenceInv'
  <2>1. /\ p \in DOMAIN tasks /\ tasks[p].todo = "presence"
        /\ tasks'[p].todo \in {"presence", "status"}
        /\ tasks'[p].todo = "presence" <=> tasks'[p].left # {}
    BY <1>4, LookAtFacts
  <2>2. PICK g \in tasks[p].left :
             /\ g \in Guilds /\ tasks'[p].label = now[g]
             /\ tasks'[p].left = IF now[g] # 0 THEN {} ELSE tasks[p].left \ {g}
    BY <1>4, LookAtFacts
  <2>3. ASSUME ~overlap, tasks'[p].todo = "presence"
        PROVE  \A h \in Guilds \ tasks'[p].left : now[h] = 0
    BY <2>1, <2>2, <2>3 DEF PresenceInv
  <2>4. ASSUME ~overlap, tasks'[p].todo = "status"
        PROVE  Names(tasks'[p].label)
    BY <2>1, <2>2, <2>4 DEF PresenceInv, Names
  <2> QED
    BY <1>4, <2>1, <2>3, <2>4, LookAtFacts, PresenceKept
<1>5. ASSUME NEW p, UpdateStatus(p)
      PROVE  PresenceInv'
  <2>1. /\ p \in DOMAIN tasks /\ tasks[p].todo = "status"
        /\ UNCHANGED <<overlap, player>>
        /\ tasks'[p].told => presence' = tasks[p].label
        /\ DOMAIN tasks' = DOMAIN tasks /\ Len(tasks') = Len(tasks)
        /\ \A q \in DOMAIN tasks : q # p => tasks'[q] = tasks[q]
        /\ tasks'[p].todo = "done"
    BY <1>5, UpdateStatusFacts
  <2>2. ASSUME ~overlap
        PROVE  /\ tasks'[p].told => Names(presence)'
               /\ p = Len(tasks)
               /\ \A q \in DOMAIN tasks' : tasks'[q].todo = "done"
    <3>1. Names(tasks[p].label)
      BY <2>1, <2>2 DEF PresenceInv
    <3>2. tasks'[p].told => Names(presence)'
      BY <2>1, <3>1 DEF Names, player
    <3>3. p = Len(tasks) /\ \A q \in DOMAIN tasks : q # p => tasks[q].todo = "done"
      BY <2>1, <2>2 DEF KeepsInv, OneByOne
    <3> QED
      BY <2>1, <3>2, <3>3
  <2> QED
    BY <2>1, <2>2 DEF PresenceInv
<1>6. ASSUME UNCHANGED docVars
      PROVE  PresenceInv'
  BY <1>6 DEF docVars, player, PresenceInv, Names, Done, Running
<1> QED
  BY <1>0, <1>1, <1>2, <1>3, <1>4, <1>5, <1>6 DEF Emission, DocumentMoves

-----------------------------------------------------------------------------
(* The theorems of Document.                                               *)

DocumentInv == DocumentTypeOK /\ PairInv /\ KeepsInv /\ PresenceInv

LEMMA DocumentInvStarts == DocumentInit => DocumentInv
<1> SUFFICES ASSUME DocumentInit PROVE DocumentInv
  OBVIOUS
<1>1. DocumentTypeOK /\ DOMAIN tasks = {}
  BY DocumentStarts
<1>2. PairInv
  BY <1>1 DEF DocumentInit, PairInv, PairWasTrue, NoDocument
<1>3. KeepsInv
  BY <1>1 DEF DocumentInit, KeepsInv, OneByOne
<1>4. PresenceInv
  BY <1>1 DEF DocumentInit, PresenceInv
<1> QED
  BY <1>1, <1>2, <1>3, <1>4 DEF DocumentInv

LEMMA DocumentInvStep == DocumentInv /\ [DocumentNext]_docVars => DocumentInv'
<1> SUFFICES ASSUME DocumentInv, [DocumentNext]_docVars PROVE DocumentInv'
  OBVIOUS
<1>1. /\ DocumentTypeOK /\ PairInv /\ KeepsInv /\ PresenceInv
      /\ DocumentMoves
  BY DEF DocumentNext, Rest, DocumentInv, DocumentMoves
<1>2. DocumentTypeOK' /\ PairInv' /\ PresenceInv'
  BY <1>1, TypeStep, PairStep, PresenceStep
<1>3. KeepsInv'
  <2>1. ASSUME UNCHANGED docVars
        PROVE  KeepsInv'
    <3>1. UNCHANGED <<overlap, now, upcoming, clock, epoch, reports, emitted, doc, tasks>>
      BY <2>1 DEF docVars, player
    <3> QED
      BY <1>1, <3>1 DEF KeepsInv, OneByOne, Fresh, Paused, NodePaused, KeepsUp
  <2> QED
    BY <1>1, <2>1, ChangeKeeps, HearKeeps, ReadsKeep, WriteKeeps DEF Emission, DocumentMoves
<1> QED
  BY <1>2, <1>3 DEF DocumentInv

LEMMA DocumentInvariant == DocumentSpec => []DocumentInv
BY DocumentInvStarts, DocumentInvStep, PTL DEF DocumentSpec

\* However emissions of one guild overlap and writes fail, a document that was
\* last written with a track shows a track and a queue that were the guild's
\* at the same moment.
THEOREM DocumentPairs == DocumentSpec => []PairWasTrue
<1>1. DocumentInv => PairWasTrue
  BY DEF DocumentInv, PairInv
<1> QED
  BY <1>1, DocumentInvariant, PTL

\* Without overlaps, whatever fails: once the last change of a player has been
\* written, the document shows its queue, its track, a pause of the clock and
\* since when the track plays, and whether the node is paused if its reports
\* had been read.
THEOREM DocumentFollows == DocumentSpec => []DocumentKeepsUp
<1>1. DocumentInv => DocumentKeepsUp
  BY DEF DocumentInv, KeepsInv, DocumentKeepsUp
<1> QED
  BY <1>1, DocumentInvariant, PTL

\* Without overlaps, whatever fails: once the last change of a player has told
\* Discord, the status names a track that plays, or that none does.
THEOREM StatusIsTrue == DocumentSpec => []PresenceIsTrue
<1>1. DocumentInv => PresenceIsTrue
  BY DEF DocumentInv, PresenceInv, PresenceIsTrue, Names
<1> QED
  BY <1>1, DocumentInvariant, PTL

-----------------------------------------------------------------------------
(* Lifecycle: a step is one of the document's, the end of the process, or  *)
(* a step of Run and of the surroundings that leaves the players alone.    *)

RunType ==
  /\ run \in [phase : {"off", "open", "exited", "online", "abort"} \cup Starting \cup Stopping,
              signal : BOOLEAN, late : BOOLEAN, api : BOOLEAN, leaving : SUBSET Guilds]
  /\ link \in [wire : {"none", "up", "down"}, reader : {"off", "reading", "blocked", "ended"},
               ready : {0, 1}, greetings : 0 .. MaxGreetings]
  /\ voice \in [Guilds -> {"out", "joining", "sent", "in"}]
  /\ stranded \subseteq present /\ present \subseteq Guilds
  /\ request \in [Requests -> {"none", "active", "served", "failed"}]
  /\ lives \in 0 .. MaxLives

\* Run but for its ends.
Proceeds ==
  \/ run.phase = "open" /\ Goto("register")
  \/ RegisterCommands \/ Dial \/ AwaitReady \/ StartApi \/ Online \/ StopApi
  \/ CloseStore \/ ListGuilds \/ LeaveNext \/ LeaveDone \/ CloseLink

VoiceSteps(g) ==
  Join(g) \/ Credentials(g) \/ Confirmed(g) \/ GiveUp(g) \/ Removed(g) \/ Lost(g)

Environment ==
  \/ Signal \/ Deadline \/ ReadReady \/ ReadFails
  \/ \E g \in Guilds : VoiceSteps(g)
  \/ \E r \in Requests : Ask(r) \/ Answer(r)

DocumentSteps == DocumentMoves /\ UNCHANGED <<run, link, voices, request, lives>>

Exits == run.phase \notin {"off", "exited"} /\ Exit

LEMMA NextParts ==
  ASSUME [Next]_vars
  PROVE  Boot \/ Proceeds \/ Environment \/ DocumentSteps \/ Exits
<1>1. Main => Proceeds \/ Exits
  BY DEF Main, Proceeds, Exits, OpenSession, Abort, CloseSession, From
<1>2. Kill => Exits
  BY DEF Kill, Exits
<1>3. (\E g \in Guilds : Handler(g) \/ Report(g)) \/ (\E p \in 1 .. MaxTasks : Emit(p))
        => DocumentSteps
  BY DEF Handler, Report, Emit, DocumentSteps, DocumentMoves
<1>4. Idle \/ UNCHANGED vars => DocumentSteps
  BY DEF Idle, vars, DocumentSteps, DocumentMoves
<1>5. Signal \/ Deadline \/ ReadReady \/ ReadFails \/ (\E g \in Guilds : VoiceSteps(g))
        \/ (\E r \in Requests : Ask(r) \/ Answer(r)) => Environment
  BY DEF Environment
<1>6. \/ Boot \/ Main \/ Signal \/ Deadline \/ ReadReady \/ ReadFails \/ Kill
      \/ \E g \in Guilds : VoiceSteps(g)
      \/ \E g \in Guilds : Handler(g) \/ Report(g)
      \/ \E p \in 1 .. MaxTasks : Emit(p)
      \/ \E r \in Requests : Ask(r) \/ Answer(r)
      \/ Idle \/ UNCHANGED vars
  BY DEF Next, VoiceSteps
<1> QED
  BY <1>1, <1>2, <1>3, <1>4, <1>5, <1>6

\* A step of a voice session changes nothing else.
LEMMA VoiceFacts ==
  ASSUME RunType, NEW g \in Guilds, VoiceSteps(g)
  PROVE  /\ UNCHANGED <<docVars, run, link, request, lives>>
         /\ voice' \in [Guilds -> {"out", "joining", "sent", "in"}]
         /\ stranded' \subseteq present' /\ present' \subseteq Guilds
<1>0. /\ voice \in [Guilds -> {"out", "joining", "sent", "in"}]
      /\ stranded \subseteq present /\ present \subseteq Guilds
  BY DEF RunType
<1>1. CASE Join(g)
  BY <1>0, <1>1 DEF Join, Around
<1>2. CASE Credentials(g)
  <2>1. UNCHANGED <<docVars, run, link, request, lives>> /\ present' = present \cup {g}
    BY <1>2 DEF Credentials, Around
  <2>2. \/ /\ voice' = [voice EXCEPT ![g] = IF voice[g] = "joining" THEN "sent" ELSE "in"]
           /\ stranded' = stranded \ {g}
        \/ voice' = [voice EXCEPT ![g] = "out"] /\ stranded' = stranded \cup {g}
    BY <1>2 DEF Credentials
  <2> QED
    BY <1>0, <2>1, <2>2
<1>3. CASE Confirmed(g)
  BY <1>0, <1>3 DEF Confirmed, Around
<1>4. CASE GiveUp(g)
  <2>1. UNCHANGED <<docVars, run, link, request, lives>>
    BY <1>4 DEF GiveUp, Around
  <2>2. \/ /\ voice' = [voice EXCEPT ![g] = "out"]
           /\ present' = present \ {g} /\ stranded' = stranded \ {g}
        \/ /\ voice' = [voice EXCEPT ![g] = IF voice[g] = "sent" THEN "in" ELSE "out"]
           /\ stranded' = (stranded \cup {g}) \cap present /\ present' = present
    BY <1>4 DEF GiveUp
  <2> QED
    BY <1>0, <2>1, <2>2
<1>5. CASE Removed(g)
  BY <1>0, <1>5 DEF Removed, Leaves, Reset, Around
<1>6. CASE Lost(g)
  BY <1>0, <1>6 DEF Lost, Around
<1> QED
  BY <1>1, <1>2, <1>3, <1>4, <1>5, <1>6 DEF VoiceSteps

\* Steps that leave the players, the document and the tasks alone.
LEMMA Apart ==
  ASSUME RunType, Boot \/ Proceeds \/ Environment
  PROVE  /\ UNCHANGED <<overlap, player, emitted, doc, presence, tasks, faults>>
         /\ open' = open \/ open' \in BOOLEAN
<1>1. CASE Boot
  BY <1>1 DEF Boot
<1>2. CASE Proceeds
  BY <1>2 DEF Proceeds, Goto, RegisterCommands, Dial, AwaitReady, Greeted, StartApi, Online,
     StopApi, CloseStore, ListGuilds, LeaveNext, LeaveDone, CloseLink, Outside
<1>3. CASE Environment
  <2>1. ASSUME NEW g \in Guilds, VoiceSteps(g)
        PROVE  UNCHANGED docVars
    BY <2>1, VoiceFacts
  <2>2. UNCHANGED docVars
    BY <1>3, <2>1 DEF Environment, Signal, Deadline, ReadReady, ReadFails, Ask, Answer, Around
  <2> QED
    BY <2>2 DEF docVars
<1> QED
  BY <1>1, <1>2, <1>3

LEMMA EndTasks ==
  ASSUME TasksType, tasks' = [p \in DOMAIN tasks |-> Ended(tasks[p].guild, FALSE)]
  PROVE  /\ TasksType' /\ DOMAIN tasks' = DOMAIN tasks
         /\ \A p \in DOMAIN tasks : tasks'[p].todo = "done"
<1> DEFINE ended(p) == Ended(tasks[p].guild, FALSE)
<1>1. tasks \in Seq(Task) /\ Len(tasks) \in Nat /\ DOMAIN tasks = 1 .. Len(tasks)
  BY LenProperties DEF TasksType
<1>2. \A p \in DOMAIN tasks : ended(p) \in Task /\ ended(p).todo = "done" /\ Searching(ended(p))
  <2> SUFFICES ASSUME NEW p \in DOMAIN tasks
               PROVE  ended(p) \in Task /\ ended(p).todo = "done" /\ Searching(ended(p))
    OBVIOUS
  <2>1. tasks[p].guild \in Guilds
    BY TaskFields DEF Task
  <2> QED
    BY <2>1, EndedType
<1> HIDE DEF ended
<1>3. tasks' = [p \in 1 .. Len(tasks) |-> ended(p)]
  BY <1>1 DEF ended
<1>4. tasks' \in Seq(Task)
  <2>1. \A p \in 1 .. Len(tasks) : ended(p) \in Task
    BY <1>1, <1>2
  <2>2. tasks' \in [1 .. Len(tasks) -> Task]
    BY <1>3, <2>1
  <2> QED
    BY <1>1, <2>2, SeqDef
<1>5. DOMAIN tasks' = DOMAIN tasks /\ \A p \in DOMAIN tasks : tasks'[p] = ended(p)
  BY <1>1, <1>3
<1> QED
  BY <1>2, <1>4, <1>5 DEF TasksType, Searching

LEMMA LifeDocumentType ==
  ASSUME RunType, DocumentTypeOK, [Next]_vars
  PROVE  DocumentTypeOK'
<1>1. CASE Boot \/ Proceeds \/ Environment
  <2>1. StoreType' /\ PlayerType' /\ TasksType'
    BY <1>1, Apart, TypeParts DEF StoreType, PlayerType, TasksType, Searching, player
  <2> QED
    BY <2>1, TypePartsNext
<1>2. CASE DocumentSteps
  BY <1>2, TypeStep DEF DocumentSteps
<1>3. CASE Exits
  <2>1. 0 \in Numbers /\ 0 \in Waiting
    BY DocumentBounds DEF Numbers, Waiting
  <2>2. PlayerType'
    <3>1. <<FALSE>> \in Reported
      BY DEF Reported
    <3> QED
      BY <1>3, <2>1, <3>1, TypeParts DEF Exits, Exit, PlayerType, Clocks
  <2>3. StoreType'
    BY <1>3, <2>1, TypeParts DEF Exits, Exit, StoreType
  <2>4. TasksType'
    BY <1>3, TypeParts, EndTasks DEF Exits, Exit
  <2> QED
    BY <2>2, <2>3, <2>4, TypePartsNext
<1> QED
  BY <1>1, <1>2, <1>3, NextParts

LEMMA LifePairs ==
  ASSUME RunType, DocumentTypeOK, PairInv, [Next]_vars
  PROVE  PairInv'
<1>1. CASE Boot \/ Proceeds \/ Environment
  BY <1>1, Apart DEF PairInv, PairWasTrue, player
<1>2. CASE DocumentSteps
  BY <1>2, PairStep DEF DocumentSteps
<1>3. CASE Exits
  <2>1. /\ \A g \in Guilds : now'[g] = 0 /\ upcoming'[g] = 0
        /\ UNCHANGED <<past, doc>>
    BY <1>3 DEF Exits, Exit
  <2>2. DOMAIN tasks' = DOMAIN tasks /\ \A p \in DOMAIN tasks : tasks'[p].todo = "done"
    BY <1>3, TypeParts, EndTasks DEF Exits, Exit
  <2> QED
    BY <2>1, <2>2 DEF PairInv, PairWasTrue
<1> QED
  BY <1>1, <1>2, <1>3, NextParts

LEMMA RunTypeStep ==
  ASSUME DocumentTypeOK, RunType, [Next]_vars
  PROVE  RunType'
<1> USE DEF RunType
<1>1. CASE Boot
  <2>1. lives' \in 0 .. MaxLives /\ 0 \in 0 .. MaxGreetings
    BY <1>1, LifecycleBounds DEF Boot
  <2>2. PICK ph \in {"open", "exited"} :
             run' = [phase |-> ph, signal |-> FALSE, late |-> FALSE, api |-> FALSE,
                     leaving |-> {}]
    BY <1>1 DEF Boot, NoRun
  <2>3. UNCHANGED <<link, voice, request>> /\ stranded' = present' /\ present' \subseteq present
    BY <1>1 DEF Boot
  <2> QED
    BY <2>1, <2>2, <2>3
<1>2. CASE Proceeds
  <2>1. lives' = lives
    BY <1>2 DEF Proceeds, Goto, RegisterCommands, Dial, AwaitReady, Greeted, StartApi,
       Online, StopApi, CloseStore, ListGuilds, LeaveNext, LeaveDone, CloseLink, Outside
  <2>2. \A ph \in Starting \cup Stopping \cup {"online", "abort"} :
          Goto(ph) => RunType'
    BY <2>1 DEF Goto, voices
  <2>3. CASE Dial \/ AwaitReady
    <3>1. \/ Goto("abort")
          \/ /\ \E ph \in {"await", "api", "abort"} : run' = [run EXCEPT !.phase = ph]
             /\ \/ link' = [link EXCEPT !.wire = "up", !.reader = "reading"]
                \/ link' = [link EXCEPT !.reader = "reading"]
                \/ link' = [link EXCEPT !.ready = 0]
                \/ link' = [link EXCEPT !.wire = "down"]
             /\ UNCHANGED <<voices, request>>
      <4>1. CASE Dial
        BY <4>1 DEF Dial
      <4>2. CASE AwaitReady
        BY <4>2 DEF AwaitReady, Greeted, HangUp
      <4> QED
        BY <2>3, <4>1, <4>2
    <3>2. CASE Goto("abort")
      BY <2>2, <3>2
    <3>3. CASE /\ \E ph \in {"await", "api", "abort"} : run' = [run EXCEPT !.phase = ph]
               /\ \/ link' = [link EXCEPT !.wire = "up", !.reader = "reading"]
                  \/ link' = [link EXCEPT !.reader = "reading"]
                  \/ link' = [link EXCEPT !.ready = 0]
                  \/ link' = [link EXCEPT !.wire = "down"]
               /\ UNCHANGED <<voices, request>>
      <4>1. run' \in [phase : {"off", "open", "exited", "online", "abort"}
                               \cup Starting \cup Stopping,
                      signal : BOOLEAN, late : BOOLEAN, api : BOOLEAN,
                      leaving : SUBSET Guilds]
        BY <3>3 DEF Starting
      <4>2. link' \in [wire : {"none", "up", "down"},
                       reader : {"off", "reading", "blocked", "ended"},
                       ready : {0, 1}, greetings : 0..MaxGreetings]
        BY <3>3
      <4> QED
        BY <2>1, <3>3, <4>1, <4>2 DEF voices
    <3> QED
      BY <3>1, <3>2, <3>3
  <2>4. CASE StartApi \/ StopApi \/ CloseStore
    <3>1. open \in BOOLEAN
      BY DEF DocumentTypeOK
    <3> QED
      BY <2>1, <2>4, <3>1 DEF StartApi, StopApi, CloseStore, Stopping, voices
  <2>5. CASE ListGuilds \/ CloseLink
    BY <2>1, <2>5 DEF ListGuilds, CloseLink, HangUp, Stopping, voices
  <2>6. CASE LeaveNext
    <3>1. PICK g \in run.leaving :
               /\ run' = [run EXCEPT !.leaving = @ \ {g}]
               /\ Leaves(g) \/ Stays(g) \/ UNCHANGED voices
      BY <2>6 DEF LeaveNext
    <3>2. UNCHANGED <<link, request, lives>>
      BY <2>6 DEF LeaveNext, Outside
    <3>3. /\ voice' \in [Guilds -> {"out", "joining", "sent", "in"}]
          /\ stranded' \subseteq present' /\ present' \subseteq Guilds
      BY <3>1 DEF Leaves, Reset, Stays, voices
    <3> QED
      BY <3>1, <3>2, <3>3
  <2>7. CASE Goto("register") \/ RegisterCommands \/ Online \/ LeaveDone
    BY <2>2, <2>7 DEF RegisterCommands, Online, LeaveDone, Starting, Stopping
  <2> QED
    BY <1>2, <2>3, <2>4, <2>5, <2>6, <2>7 DEF Proceeds
<1>3. CASE Environment
  <2>2. CASE Signal \/ Deadline
    BY <2>2 DEF Signal, Deadline, Around, voices
  <2>3. CASE ReadReady
    <3>1. link.greetings + 1 \in 0 .. MaxGreetings
      BY <2>3, LifecycleBounds DEF ReadReady
    <3> QED
      BY <2>3, <3>1 DEF ReadReady, Around, voices
  <2>4. CASE ReadFails
    BY <2>4 DEF ReadFails, Around, voices
  <2>5. ASSUME NEW g \in Guilds, VoiceSteps(g)
        PROVE  RunType'
    BY <2>5, VoiceFacts
  <2>6. ASSUME NEW r \in Requests, Ask(r) \/ Answer(r)
        PROVE  RunType'
    BY <2>6 DEF Ask, Answer, Around, voices
  <2> QED
    BY <1>3, <2>2, <2>3, <2>4, <2>5, <2>6 DEF Environment
<1>4. CASE DocumentSteps
  BY <1>4 DEF DocumentSteps, voices
<1>5. CASE Exits
  <2>1. 0 \in 0 .. MaxGreetings
    BY LifecycleBounds
  <2> QED
    BY <1>5, <2>1 DEF Exits, Exit, NoLink
<1> QED
  BY <1>1, <1>2, <1>3, <1>4, <1>5, NextParts

-----------------------------------------------------------------------------
(* Requests: one that is active has a store, or the shutdown is late.      *)

Stored == run.phase \in {"online", "stop_api"} /\ open

RequestInv ==
  /\ run.api => Stored
  /\ \A r \in Requests :
       /\ request[r] # "none" => run.phase \in {"online"} \cup Stopping
       /\ request[r] = "active" => run.late \/ Stored
  /\ ApiBeforeStore

LEMMA RequestStep ==
  ASSUME DocumentTypeOK, RunType, RequestInv, [Next]_vars
  PROVE  RequestInv'
<1> USE DEF RequestInv, Stored, ApiBeforeStore
<1>1. CASE Boot
  <2>1. \A r \in Requests : request[r] = "none"
    BY <1>1 DEF Boot, Stopping
  <2> QED
    BY <1>1, <2>1 DEF Boot, NoRun
<1>2. CASE Proceeds
  <2>1. request' = request
    BY <1>2 DEF Proceeds, Goto, RegisterCommands, Dial, AwaitReady, Greeted, StartApi,
       Online, StopApi, CloseStore, ListGuilds, LeaveNext, LeaveDone, CloseLink
  <2>2. CASE (Goto("register") /\ run.phase = "open") \/ RegisterCommands \/ Dial \/ AwaitReady
    <3>1. /\ run.phase \notin {"online"} \cup Stopping
          /\ run'.api = run.api
      BY <2>2 DEF RunType, RegisterCommands, Dial, AwaitReady, Greeted, Goto, From, Stopping
    <3>2. ~run.api /\ \A r \in Requests : request[r] = "none"
      BY <3>1 DEF Stopping
    <3> QED
      BY <2>1, <3>1, <3>2
  <2>3. CASE StartApi
    <3>1. /\ run.phase \notin {"online"} \cup Stopping
          /\ run'.phase = "online" /\ run'.api \in {FALSE, open} /\ open' = open
      BY <2>3 DEF RunType, StartApi, From, Stopping
    <3> QED
      BY <2>1, <3>1
  <2>4. CASE Online
    <3>1. /\ run.phase = "online" /\ run'.phase = "stop_api" /\ open' = open
          /\ run'.api = run.api /\ run'.late = run.late
      BY <2>4 DEF RunType, Online, Goto, From
    <3> QED
      BY <2>1, <3>1 DEF Stopping
  <2>5. CASE StopApi
    <3>1. /\ run.phase = "stop_api" /\ run'.phase = "close_store" /\ run'.api = FALSE
          /\ run'.late = run.late /\ (run.late \/ \A r \in Requests : request[r] # "active")
      BY <2>5 DEF RunType, StopApi, From
    <3> QED
      BY <2>1, <3>1 DEF Stopping
  <2>6. CASE CloseStore \/ ListGuilds \/ LeaveNext \/ LeaveDone \/ CloseLink
    <3>1. /\ run.phase \in Stopping \ {"stop_api"} /\ run'.phase \in Stopping \ {"stop_api"}
          /\ run'.api = run.api /\ run'.late = run.late
      BY <2>6 DEF RunType, CloseStore, ListGuilds, LeaveNext, LeaveDone, CloseLink, Goto, From,
         Stopping
    <3> QED
      BY <2>1, <3>1 DEF Stopping
  <2> QED
    BY <1>2, <2>2, <2>3, <2>4, <2>5, <2>6 DEF Proceeds
<1>3. CASE Environment
  <2>0. ASSUME NEW g \in Guilds, VoiceSteps(g)
        PROVE  open' = open /\ run' = run /\ request' = request
    BY <2>0, VoiceFacts DEF docVars
  <2>1. open' = open /\ run'.phase = run.phase /\ run'.api = run.api /\ (run.late => run'.late)
    BY <1>3, <2>0 DEF Environment, Signal, Deadline, ReadReady, ReadFails, Ask, Answer, Around,
       docVars, RunType
  <2>2. ASSUME NEW r \in Requests, Ask(r)
        PROVE  RequestInv'
    BY <2>1, <2>2 DEF Ask, RunType
  <2>3. ASSUME NEW r \in Requests, Answer(r)
        PROVE  RequestInv'
    BY <2>1, <2>3 DEF Answer, RunType
  <2>4. CASE request' = request
    BY <2>1, <2>4
  <2> QED
    BY <1>3, <2>0, <2>2, <2>3, <2>4 DEF Environment, Signal, Deadline, ReadReady, ReadFails
<1>4. CASE DocumentSteps
  BY <1>4, TypeStep DEF DocumentSteps
<1>5. CASE Exits
  BY <1>5 DEF Exits, Exit, RunType
<1> QED
  BY <1>1, <1>2, <1>3, <1>4, <1>5, NextParts

-----------------------------------------------------------------------------
(* The link: every value in readyCh, and the one that a blocked read loop  *)
(* holds, is of a greeting; Connect has taken the value of one more.       *)

Held == link.ready + (IF link.reader = "blocked" THEN 1 ELSE 0)

LinkInv ==
  /\ link.reader = "blocked" => link.ready = 1
  /\ link.wire = "up" => link.reader \in {"reading", "blocked"}
  /\ Held <= link.greetings
  /\ run.phase \in {"api", "online"} => Held < link.greetings

LEMMA LinkStep ==
  ASSUME RunType, RunType', LinkInv, [Next]_vars
  PROVE  LinkInv'
<1> USE DEF LinkInv, Held
<1>0. /\ link.ready \in {0, 1} /\ link.greetings \in Nat
      /\ link.reader \in {"off", "reading", "blocked", "ended"}
  BY LifecycleBounds DEF RunType
<1>1. CASE Boot
  BY <1>1 DEF Boot, NoRun
<1>2. CASE Proceeds
  <2>1. CASE Dial
    <3>1. \/ run'.phase = "await" /\ link' = [link EXCEPT !.wire = "up", !.reader = "reading"]
          \/ run'.phase = "abort" /\ link' = link
      BY <2>1 DEF Dial, Goto, RunType
    <3>2. CASE link' = [link EXCEPT !.wire = "up", !.reader = "reading"]
      <4>1. /\ link'.reader = "reading" /\ link'.ready = link.ready
            /\ link'.greetings = link.greetings
        BY <3>2 DEF RunType
      <4> QED
        BY <1>0, <3>1, <4>1
    <3>3. CASE run'.phase = "abort" /\ link' = link
      BY <3>3
    <3> QED
      BY <3>1, <3>2, <3>3
  <2>2. CASE AwaitReady
    <3>1. CASE Greeted
      <4>1. /\ link.ready = 1
            /\ link' = IF link.reader = "blocked" THEN [link EXCEPT !.reader = "reading"]
                                                  ELSE [link EXCEPT !.ready = 0]
        BY <1>0, <3>1 DEF Greeted
      <4> QED
        BY <1>0, <4>1 DEF RunType
    <3>2. CASE HangUp /\ run' = [run EXCEPT !.phase = "abort"]
      BY <1>0, <3>2 DEF HangUp, RunType
    <3> QED
      BY <2>2, <3>1, <3>2 DEF AwaitReady
  <2>3. CASE StartApi
    BY <2>3 DEF StartApi, From, RunType
  <2>4. CASE CloseLink
    BY <1>0, <2>4 DEF CloseLink, HangUp, RunType
  <2>5. CASE \/ Goto("register") \/ RegisterCommands \/ Online \/ StopApi
             \/ CloseStore \/ ListGuilds \/ LeaveNext \/ LeaveDone
    <3>1. link' = link /\ (run'.phase \in {"api", "online"} => run.phase = run'.phase)
      <4>1. CASE Goto("register") \/ RegisterCommands \/ Online \/ LeaveDone
        BY <4>1 DEF Goto, RegisterCommands, Online, LeaveDone, RunType
      <4>2. CASE StopApi \/ CloseStore
        BY <4>2 DEF StopApi, CloseStore, RunType
      <4>3. CASE ListGuilds \/ LeaveNext
        BY <4>3 DEF ListGuilds, LeaveNext, RunType
      <4> QED
        BY <2>5, <4>1, <4>2, <4>3
    <3> QED
      BY <3>1
  <2> QED
    BY <1>2, <2>1, <2>2, <2>3, <2>4, <2>5 DEF Proceeds
<1>3. CASE Environment
  <2>0. ASSUME NEW g \in Guilds, VoiceSteps(g)
        PROVE  run' = run /\ link' = link
    BY <2>0, VoiceFacts
  <2>1. run'.phase = run.phase
    BY <1>3, <2>0 DEF Environment, Signal, Deadline, ReadReady, ReadFails, Ask, Answer, RunType
  <2>2. CASE ReadReady
    <3>1. /\ link.reader = "reading"
          /\ link' = [link EXCEPT !.greetings = @ + 1, !.ready = 1,
                        !.reader = IF link.ready = 0 THEN "reading" ELSE "blocked"]
      BY <2>2 DEF ReadReady
    <3>2. /\ link'.ready = 1 /\ link'.greetings = link.greetings + 1
          /\ link'.reader = (IF link.ready = 0 THEN "reading" ELSE "blocked")
          /\ link'.wire = link.wire
      BY <3>1 DEF RunType
    <3> QED
      BY <1>0, <2>1, <3>1, <3>2
  <2>3. CASE ReadFails
    BY <1>0, <2>1, <2>3 DEF ReadFails, RunType
  <2>4. CASE link' = link
    BY <2>1, <2>4
  <2> QED
    BY <1>3, <2>0, <2>2, <2>3, <2>4 DEF Environment, Signal, Deadline, Ask, Answer
<1>4. CASE DocumentSteps
  BY <1>4 DEF DocumentSteps
<1>5. CASE Exits
  BY <1>5 DEF Exits, Exit, RunType, NoLink
<1> QED
  BY <1>1, <1>2, <1>3, <1>4, <1>5, NextParts

-----------------------------------------------------------------------------
(* Voice: after the signal a guild's bot only leaves or is stranded, and   *)
(* DisconnectAll does one or the other in the guilds that it has visited.  *)

Voiced(g) == voice[g] # "out" \/ g \in stranded

VoiceInv ==
  /\ run.phase \in Stopping => run.signal
  /\ \A g \in present : Voiced(g)
  /\ ~overlap /\ run.signal => Quiet
  /\ ~overlap /\ run.phase = "leave" => present \ run.leaving \subseteq stranded
  /\ LeavesVoice

\* A player without a session belongs to a guild that the bot is not in, or
\* was left in.
LEMMA VoicedStep ==
  ASSUME RunType, \A g \in present : Voiced(g), NEW g \in Guilds,
         VoiceSteps(g) \/ Leaves(g) \/ Stays(g)
  PROVE  \A h \in present' : Voiced(h)'
<1> USE DEF Voiced
<1>0. /\ voice \in [Guilds -> {"out", "joining", "sent", "in"}]
      /\ stranded \subseteq present /\ present \subseteq Guilds
  BY DEF RunType
<1>1. CASE Join(g)
  BY <1>0, <1>1 DEF Join
<1>2. CASE Credentials(g)
  <2>1. present' = present \cup {g}
    BY <1>2 DEF Credentials
  <2>2. \/ /\ voice' = [voice EXCEPT ![g] = IF voice[g] = "joining" THEN "sent" ELSE "in"]
           /\ stranded' = stranded \ {g}
        \/ voice' = [voice EXCEPT ![g] = "out"] /\ stranded' = stranded \cup {g}
    BY <1>2 DEF Credentials
  <2> QED
    BY <1>0, <2>1, <2>2
<1>3. CASE Confirmed(g)
  BY <1>0, <1>3 DEF Confirmed
<1>4. CASE GiveUp(g)
  <2>1. \/ /\ voice' = [voice EXCEPT ![g] = "out"]
           /\ present' = present \ {g} /\ stranded' = stranded \ {g}
        \/ /\ \A h \in Guilds : h # g => voice'[h] = voice[h]
           /\ stranded' = (stranded \cup {g}) \cap present /\ present' = present
    BY <1>0, <1>4 DEF GiveUp
  <2> QED
    BY <1>0, <2>1
<1>5. CASE Removed(g) \/ Leaves(g)
  <2>1. /\ \A h \in Guilds : h # g => voice'[h] = voice[h]
        /\ present' = present \ {g} /\ stranded' = stranded \ {g}
    BY <1>0, <1>5 DEF Removed, Leaves, Reset
  <2> QED
    BY <1>0, <2>1
<1>6. CASE Lost(g)
  BY <1>0, <1>6 DEF Lost
<1>7. CASE Stays(g)
  <2>1. /\ present' \subseteq present /\ voice' = voice
        /\ stranded' = (stranded \cup {g}) \cap present'
    BY <1>7 DEF Stays
  <2> QED
    BY <1>0, <2>1
<1> QED
  BY <1>1, <1>2, <1>3, <1>4, <1>5, <1>6, <1>7 DEF VoiceSteps

\* When no join is under way and no event comes, only a session can be lost.
LEMMA VoiceAfterSignal ==
  ASSUME RunType, Quiet, ~overlap, run.signal, NEW g \in Guilds, VoiceSteps(g)
  PROVE  present' = present /\ stranded \subseteq stranded' /\ Quiet'
<1>1. ~Events /\ voice[g] \notin {"joining", "sent"}
  BY DEF Events, Quiet
<1>2. Lost(g)
  BY <1>1 DEF VoiceSteps, Join, Credentials, Confirmed, GiveUp, Removed
<1>3. /\ present' = present /\ stranded \subseteq stranded'
      /\ voice' = [voice EXCEPT ![g] = "out"]
  BY <1>2 DEF Lost
<1> QED
  BY <1>3 DEF Quiet, RunType

LEMMA LeaveQuiet ==
  ASSUME RunType, Quiet, NEW g \in Guilds, Leaves(g) \/ Stays(g)
  PROVE  Quiet'
BY DEF Leaves, Reset, Stays, Quiet, RunType

LEMMA VoiceStep ==
  ASSUME DocumentTypeOK, RunType, VoiceInv, [Next]_vars
  PROVE  VoiceInv'
<1> USE DEF VoiceInv, LeavesVoice
<1>0. Boot \/ Proceeds \/ Environment => overlap' = overlap
  BY Apart
<1>1. CASE Boot
  <2>1. run'.phase \in {"open", "exited"} /\ ~run'.signal /\ stranded' = present'
    BY <1>1 DEF Boot, NoRun
  <2> QED
    BY <2>1 DEF Stopping, Voiced
<1>2. CASE Proceeds
  <2>1. run'.signal = run.signal
    BY <1>2 DEF Proceeds, Goto, RegisterCommands, Dial, AwaitReady, Greeted, StartApi,
       Online, StopApi, CloseStore, ListGuilds, LeaveNext, LeaveDone, CloseLink, RunType
  <2>0. ASSUME voices' = voices
        PROVE  /\ present' = present /\ stranded' = stranded
               /\ \A g \in present' : Voiced(g)'
               /\ ~overlap /\ run'.signal => Quiet'
    BY <2>0, <2>1 DEF voices, Voiced, Quiet
  <2>2. CASE \/ (Goto("register") /\ run.phase = "open") \/ RegisterCommands \/ Dial \/ AwaitReady
             \/ StartApi
    <3>1. voices' = voices /\ run'.phase \in {"register", "dial", "await", "abort", "api", "online"}
      <4>1. CASE (Goto("register") /\ run.phase = "open") \/ RegisterCommands
        BY <4>1 DEF Goto, RegisterCommands, RunType
      <4>2. CASE Dial \/ StartApi
        BY <4>2 DEF Goto, Dial, StartApi, RunType
      <4>3. CASE AwaitReady
        BY <4>3 DEF AwaitReady, Greeted, RunType
      <4> QED
        BY <2>2, <4>1, <4>2, <4>3
    <3>2. run'.phase \notin Stopping
      BY <3>1 DEF Stopping
    <3> QED
      BY <1>0, <1>2, <2>0, <2>1, <3>1, <3>2 DEF Stopping
  <2>3. CASE Online \/ StopApi \/ CloseStore
    <3>1. /\ voices' = voices /\ run.signal
          /\ run'.phase \in {"stop_api", "close_store", "list"}
      BY <2>3 DEF Online, StopApi, CloseStore, Goto, From, Stopping, RunType
    <3> QED
      BY <1>0, <1>2, <2>0, <2>1, <3>1
  <2>4. CASE ListGuilds
    <3>1. voices' = voices /\ run.signal /\ run'.phase = "leave" /\ run'.leaving = Guilds
      BY <2>4 DEF ListGuilds, From, Stopping, RunType
    <3>2. present \subseteq Guilds
      BY DEF RunType
    <3> QED
      BY <1>0, <1>2, <2>0, <2>1, <3>1, <3>2
  <2>5. CASE LeaveNext
    <3>1. PICK g \in run.leaving :
               /\ run' = [run EXCEPT !.leaving = @ \ {g}]
               /\ IF Connected(g) THEN Leaves(g) \/ Stays(g) ELSE UNCHANGED voices
      BY <2>5 DEF LeaveNext
    <3>2. run.phase = "leave" /\ run'.phase = "leave" /\ run'.leaving = run.leaving \ {g}
      BY <2>5, <3>1 DEF LeaveNext, From, RunType
    <3>3. run.signal
      BY <3>2 DEF Stopping
    <3>4. g \in Guilds /\ stranded \subseteq present
      BY DEF RunType
    <3>5. \A h \in present' : Voiced(h)'
      BY <2>0, <3>1, <3>4, VoicedStep
    <3>6. ~overlap => Quiet'
      BY <2>0, <2>1, <3>1, <3>3, <3>4, LeaveQuiet
    <3>7. ASSUME ~overlap
          PROVE  present' \ run'.leaving \subseteq stranded'
      <4>1. present \ run.leaving \subseteq stranded /\ Quiet
        BY <3>2, <3>3, <3>7
      <4>2. CASE Leaves(g)
        BY <3>2, <3>4, <4>1, <4>2 DEF Leaves
      <4>3. CASE Stays(g)
        <5>1. present' \subseteq present /\ stranded' = (stranded \cup {g}) \cap present'
          BY <4>3 DEF Stays
        <5> QED
          BY <3>2, <4>1, <5>1
      <4>4. CASE ~Connected(g) /\ UNCHANGED voices
        <5>1. voice[g] = "out"
          BY <3>4, <4>1, <4>4 DEF Connected, Quiet, RunType
        <5>2. g \in present => g \in stranded
          BY <5>1 DEF Voiced
        <5> QED
          BY <2>0, <3>2, <4>1, <4>4, <5>2
      <4> QED
        BY <3>1, <4>2, <4>3, <4>4
    <3> QED
      BY <1>0, <1>2, <2>1, <3>2, <3>3, <3>5, <3>6, <3>7
  <2>6. CASE LeaveDone
    <3>1. /\ voices' = voices /\ run.phase = "leave" /\ run'.phase = "close_link"
          /\ run.leaving = {}
      BY <2>6 DEF LeaveDone, Goto, From, RunType
    <3> QED
      BY <1>0, <1>2, <2>0, <2>1, <3>1 DEF Stopping
  <2>7. CASE CloseLink
    <3>1. voices' = voices /\ run.phase = "close_link" /\ run'.phase = "close_session"
      BY <2>7 DEF CloseLink, From, RunType
    <3> QED
      BY <1>0, <1>2, <2>0, <2>1, <3>1 DEF Stopping
  <2> QED
    BY <1>2, <2>2, <2>3, <2>4, <2>5, <2>6, <2>7 DEF Proceeds
<1>3. CASE Environment
  <2>1. ASSUME NEW g \in Guilds, VoiceSteps(g)
        PROVE  VoiceInv'
    <3>1. run' = run /\ overlap' = overlap
      BY <2>1, VoiceFacts DEF docVars
    <3>2. \A h \in present' : Voiced(h)'
      BY <2>1, VoicedStep
    <3>3. ~overlap /\ run.signal => present' = present /\ stranded \subseteq stranded' /\ Quiet'
      BY <2>1, VoiceAfterSignal
    <3>4. {"leave", "close_link", "close_session"} \subseteq Stopping
      BY DEF Stopping
    <3> QED
      BY <3>1, <3>2, <3>3, <3>4
  <2>2. CASE Signal \/ Deadline \/ ReadReady \/ ReadFails \/ \E r \in Requests : Ask(r) \/ Answer(r)
    <3>1. /\ run'.phase = run.phase /\ run'.leaving = run.leaving /\ voices' = voices
          /\ overlap' = overlap /\ (run.signal => run'.signal)
          /\ ~overlap /\ run'.signal => run.signal \/ Quiet
      BY <2>2 DEF Signal, Deadline, ReadReady, ReadFails, Ask, Answer, Around, docVars, RunType
    <3>2. /\ present' = present /\ stranded' = stranded
          /\ \A g \in present' : Voiced(g)'
          /\ Quiet => Quiet'
      BY <3>1 DEF voices, Voiced, Quiet
    <3> QED
      BY <3>1, <3>2
  <2> QED
    BY <1>3, <2>1, <2>2 DEF Environment
<1>4. CASE DocumentSteps
  <2>1. UNCHANGED <<run, voice, present, stranded, overlap>>
    BY <1>4, TypeStep DEF DocumentSteps, voices
  <2> QED
    BY <2>1 DEF Voiced, Quiet
<1>5. CASE Exits
  <2>1. /\ run'.phase = "exited" /\ voice' = [g \in Guilds |-> "out"]
        /\ present' = present /\ stranded' = present
    BY <1>5 DEF Exits, Exit, RunType
  <2> QED
    BY <2>1 DEF Stopping, Voiced, Quiet
<1> QED
  BY <1>1, <1>2, <1>3, <1>4, <1>5, NextParts

-----------------------------------------------------------------------------
(* The theorems of Lifecycle.                                              *)

LifeInv ==
  /\ DocumentTypeOK /\ RunType /\ PairInv
  /\ RequestInv /\ LinkInv /\ VoiceInv

LEMMA LifeStarts == Init => LifeInv
<1> SUFFICES ASSUME Init PROVE LifeInv
  OBVIOUS
<1>1. DocumentTypeOK /\ DOMAIN tasks = {} /\ PairInv
  BY DocumentInvStarts, DocumentStarts DEF Init, DocumentInv
<1>2. /\ run = [phase |-> "off", signal |-> FALSE, late |-> FALSE, api |-> FALSE, leaving |-> {}]
      /\ link = [wire |-> "none", reader |-> "off", ready |-> 0, greetings |-> 0]
      /\ voice = [g \in Guilds |-> "out"] /\ present = {} /\ stranded = {} /\ request = [r \in Requests |-> "none"]
      /\ lives = 0
  BY DEF Init, NoRun, NoLink
<1>3. RunType
  <2>1. 0 \in 0 .. MaxGreetings /\ 0 \in 0 .. MaxLives
    BY LifecycleBounds
  <2> QED
    BY <1>2, <2>1 DEF RunType
<1>4. RequestInv
  BY <1>2 DEF RequestInv, ApiBeforeStore, Stored
<1>5. LinkInv
  BY <1>2 DEF LinkInv, Held
<1>6. VoiceInv
  BY <1>2 DEF VoiceInv, LeavesVoice, Stopping
<1> QED
  BY <1>1, <1>3, <1>4, <1>5, <1>6 DEF LifeInv

LEMMA LifeStep == LifeInv /\ [Next]_vars => LifeInv'
BY LifeDocumentType, LifePairs, RunTypeStep, RequestStep, LinkStep, VoiceStep DEF LifeInv

LEMMA LifeInvariant == Spec => []LifeInv
BY LifeStarts, LifeStep, PTL DEF Spec

\* No variable leaves its type, in any life of the process.
THEOREM TypeCorrect == Spec => []TypeOK
<1>1. LifeInv => TypeOK
  BY DEF LifeInv, TypeOK, RunType
<1> QED
  BY <1>1, LifeInvariant, PTL

\* The documents stay true across shutdowns, kills and restarts too.
THEOREM PairsAcrossLives == Spec => []PairWasTrue
<1>1. LifeInv => PairWasTrue
  BY DEF LifeInv, PairInv
<1> QED
  BY <1>1, LifeInvariant, PTL

\* An API request meets a closed store only after the shutdown's deadline.
THEOREM RequestsHaveStore == Spec => []ApiBeforeStore
<1>1. LifeInv => ApiBeforeStore
  BY DEF LifeInv, RequestInv
<1> QED
  BY <1>1, LifeInvariant, PTL

\* Two greetings do not hang the read loop.
THEOREM TwoGreetings == Spec => []ReaderListens
<1>1. LifeInv => ReaderListens
  <2> SUFFICES ASSUME LifeInv, run.phase = "online", link.wire = "up", link.greetings <= 2
               PROVE  link.reader = "reading"
    BY DEF ReaderListens
  <2>1. link.ready \in Nat /\ link.greetings \in Nat
    BY LifecycleBounds DEF LifeInv, RunType
  <2>2. CASE link.reader = "blocked"
    BY <2>1, <2>2 DEF LifeInv, LinkInv, Held
  <2> QED
    BY <2>2 DEF LifeInv, LinkInv
<1> QED
  BY <1>1, LifeInvariant, PTL

\* After an orderly shutdown, with no join under way, the bot is in voice only
\* where its session was lost, where its Disconnect failed, or where an earlier
\* life of the process left it.
THEOREM ShutdownLeavesVoice == Spec => []LeavesVoice
<1>1. LifeInv => LeavesVoice
  BY DEF LifeInv, VoiceInv
<1> QED
  BY <1>1, LifeInvariant, PTL

=============================================================================
