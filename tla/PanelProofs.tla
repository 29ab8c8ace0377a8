---------------------------- MODULE PanelProofs -----------------------------
(***************************************************************************)
(* Safety of Panel for any number of tasks, tasks at the same time and     *)
(* faults, and for any regimes.                                            *)
(***************************************************************************)
EXTENDS Panel, SequenceTheorems, FiniteSetTheorems, TLAPS

Message == [face : Faces, buttons : BOOLEAN]
Task    == [todo : Seq(Steps), clicked : Nat \cup {None}, held : Nat \cup {None},
            seen : Faces, track : 0 .. MaxTasks, alone : BOOLEAN, serves : BOOLEAN]
Panels  == DOMAIN messages \cup {None}

\* Every operation starts a task, which bounds the tracks started and queued.
PlayerType ==
  /\ regime \in Regimes
  /\ started \in 0 .. Len(tasks) /\ now \in 0 .. started /\ upcoming \in 0 .. Len(tasks)
  /\ Len(tasks) <= MaxTasks
  /\ frozen \in BOOLEAN /\ node \in BOOLEAN /\ mirror \in BOOLEAN /\ lingers \in BOOLEAN
  /\ faults \in 0 .. MaxFaults

PanelType == messages \in Seq(Message) /\ ref \in Panels

TasksType ==
  /\ tasks \in Seq(Task)
  /\ \A p \in DOMAIN tasks : tasks[p].clicked \in Panels /\ tasks[p].held \in Panels

Types == PlayerType /\ PanelType /\ TasksType

\* What may come after a step in the list of a task, and what a list ends in.
Next1(l) ==
  CASE l = "idle" -> {"forget"}
    [] l \in {"strip", "unbutton"} -> {"compose", "send"}
    [] l = "compose" -> {"send"}
    [] l = "forget" -> {"strip", "update", "acknowledge", "forget", "redraw", "blank"}
    [] l \in {"redraw", "paint", "blank", "acknowledge"} -> {}
    [] OTHER -> {"strip", "update", "acknowledge", "forget", "redraw"}
Open == {"idle", "strip", "unbutton", "compose"}

Planned(s) ==
  /\ \A i \in 1 .. Len(s) - 1 : s[i + 1] \in Next1(s[i])
  /\ s # <<>> => s[Len(s)] \notin Open

\* Steps about the message that was pressed, and about the one in hand.
OnClicked == {"redraw", "paint", "blank", "acknowledge"}
OnHeld    == {"unbutton", "idle", "consider", "render", "adopt"}

TaskPlanned(t) ==
  /\ Planned(t.todo)
  /\ \A i \in DOMAIN t.todo : t.todo[i] \in OnClicked => t.clicked # None
  /\ t.todo # <<>> /\ t.todo[1] \in OnHeld => t.held # None

PlanInv == \A p \in DOMAIN tasks : TaskPlanned(tasks[p])

-----------------------------------------------------------------------------
(* Lists of steps.                                                         *)

\* A list whose first step was replaced.
LEMMA Splice ==
  ASSUME NEW S, NEW s \in Seq(S), s # <<>>, NEW steps \in Seq(S)
  PROVE  LET r == steps \o Tail(s)
         IN  /\ r \in Seq(S) /\ Len(s) \in Nat \ {0} /\ Len(steps) \in Nat
             /\ Len(r) = Len(steps) + Len(s) - 1
             /\ \A i \in 1 .. Len(steps) : r[i] = steps[i]
             /\ \A i \in Len(steps) + 1 .. Len(r) : r[i] = s[i - Len(steps) + 1]
             /\ DOMAIN r = 1 .. Len(r) /\ DOMAIN s = 1 .. Len(s)
<1>1. /\ Tail(s) \in Seq(S) /\ Len(Tail(s)) = Len(s) - 1
      /\ \A i \in 1 .. Len(Tail(s)) : Tail(s)[i] = s[i + 1]
  BY HeadTailProperties
<1>2. Len(s) \in Nat \ {0} /\ Len(steps) \in Nat
  BY EmptySeq, LenProperties
<1> DEFINE r == steps \o Tail(s)
<1>3. /\ r \in Seq(S) /\ Len(r) = Len(steps) + Len(Tail(s))
      /\ \A i \in 1 .. Len(steps) + Len(Tail(s)) :
           r[i] = IF i <= Len(steps) THEN steps[i] ELSE Tail(s)[i - Len(steps)]
  BY <1>1, ConcatProperties
<1> HIDE DEF r
<1>4. \A i \in 1 .. Len(steps) : r[i] = steps[i]
  BY <1>1, <1>2, <1>3
<1>5. \A i \in Len(steps) + 1 .. Len(r) : r[i] = s[i - Len(steps) + 1]
  <2> SUFFICES ASSUME NEW i \in Len(steps) + 1 .. Len(r) PROVE r[i] = s[i - Len(steps) + 1]
    OBVIOUS
  <2>1. i - Len(steps) \in 1 .. Len(Tail(s)) /\ i \in 1 .. Len(steps) + Len(Tail(s))
    BY <1>1, <1>2, <1>3
  <2> QED
    BY <1>1, <1>2, <1>3, <2>1
<1>6. DOMAIN r = 1 .. Len(r) /\ DOMAIN s = 1 .. Len(s)
  BY <1>3, LenProperties
<1>7. Len(r) = Len(steps) + Len(s) - 1
  BY <1>1, <1>2, <1>3
<1> QED
  BY <1>2, <1>3, <1>4, <1>5, <1>6, <1>7 DEF r

\* No step, one step or two steps in the place of the first one.
LEMMA SpliceNone ==
  ASSUME NEW S, NEW s \in Seq(S), s # <<>>, NEW r, r = <<>> \o Tail(s)
  PROVE  /\ r \in Seq(S) /\ Len(s) \in Nat \ {0} /\ Len(r) = Len(s) - 1
         /\ \A i \in 1 .. Len(r) : r[i] = s[i + 1]
         /\ DOMAIN r = 1 .. Len(r) /\ DOMAIN s = 1 .. Len(s)
<1>1. <<>> \in Seq(S) /\ Len(<<>>) = 0
  BY EmptySeq
<1> QED
  BY <1>1, Splice

LEMMA SpliceOne ==
  ASSUME NEW S, NEW s \in Seq(S), s # <<>>, NEW a \in S, NEW r, r = <<a>> \o Tail(s)
  PROVE  /\ r \in Seq(S) /\ Len(s) \in Nat \ {0} /\ Len(r) = Len(s) /\ r[1] = a
         /\ \A i \in 2 .. Len(r) : r[i] = s[i]
         /\ DOMAIN r = 1 .. Len(r) /\ DOMAIN s = 1 .. Len(s)
<1>1. <<a>> \in Seq(S) /\ Len(<<a>>) = 1 /\ <<a>>[1] = a
  OBVIOUS
<1> QED
  BY <1>1, Splice

LEMMA SpliceTwo ==
  ASSUME NEW S, NEW s \in Seq(S), s # <<>>, NEW a \in S, NEW b \in S,
         NEW r, r = <<a, b>> \o Tail(s)
  PROVE  /\ r \in Seq(S) /\ Len(s) \in Nat \ {0} /\ Len(r) = Len(s) + 1
         /\ r[1] = a /\ r[2] = b
         /\ \A i \in 3 .. Len(r) : r[i] = s[i - 1]
         /\ DOMAIN r = 1 .. Len(r) /\ DOMAIN s = 1 .. Len(s)
<1>1. <<a, b>> \in Seq(S) /\ Len(<<a, b>>) = 2 /\ <<a, b>>[1] = a /\ <<a, b>>[2] = b
  OBVIOUS
<1> QED
  BY <1>1, Splice

\* A step in front of a list, one by one and for the lists that occur.
LEMMA Prefixed ==
  ASSUME NEW S, NEW u \in Seq(S), NEW s \in Seq(S), NEW t \in Seq(S),
         Len(u) = 1, Len(t) = Len(s) + 1, t[1] = u[1],
         \A i \in 1 .. Len(s) : t[i + 1] = s[i]
  PROVE  u \o s = t
<1> DEFINE r == u \o s
<1>1. /\ r \in Seq(S) /\ Len(r) = Len(u) + Len(s)
      /\ \A i \in 1 .. Len(u) + Len(s) : r[i] = IF i <= Len(u) THEN u[i] ELSE s[i - Len(u)]
  BY ConcatProperties
<1> HIDE DEF r
<1>2. Len(s) \in Nat
  BY LenProperties
<1>3. \A i \in 1 .. Len(r) : r[i] = t[i]
  <2> SUFFICES ASSUME NEW i \in 1 .. Len(r) PROVE r[i] = t[i]
    OBVIOUS
  <2>1. CASE i = 1
    BY <1>1, <1>2, <2>1
  <2>2. CASE i > 1
    <3>1. i - 1 \in 1 .. Len(s) /\ (i - 1) + 1 = i
      BY <1>1, <1>2, <2>2
    <3>2. t[(i - 1) + 1] = s[i - 1]
      BY <3>1
    <3>3. r[i] = s[i - 1]
      BY <1>1, <1>2, <2>2
    <3> QED
      BY <3>1, <3>2, <3>3
  <2> QED
    BY <1>1, <1>2, <2>1, <2>2
<1>4. Len(r) = Len(t)
  BY <1>1, <1>2
<1> QED
  BY <1>1, <1>3, <1>4, SeqEqual DEF r

LEMMA JoinTwo ==
  ASSUME NEW a, NEW b
  PROVE  <<a>> \o <<b>> = <<a, b>>
<1> DEFINE S == {a, b}
           u == <<a>>
           s == <<b>>
           t == <<a, b>>
<1>1. /\ u \in Seq(S) /\ s \in Seq(S) /\ t \in Seq(S)
      /\ Len(u) = 1 /\ Len(s) = 1 /\ Len(t) = 2
      /\ t[1] = u[1] /\ t[2] = s[1]
  OBVIOUS
<1> HIDE DEF S, s, t, u
<1>2. \A i \in 1 .. Len(s) : t[i + 1] = s[i]
  BY <1>1
<1>3. Len(t) = Len(s) + 1
  BY <1>1
<1>4. u \o s = t
  BY <1>1, <1>2, <1>3, Prefixed
<1> QED
  BY <1>4 DEF s, t, u

LEMMA JoinThree ==
  ASSUME NEW a, NEW b, NEW c
  PROVE  <<a>> \o <<b, c>> = <<a, b, c>>
<1> DEFINE S == {a, b, c}
           u == <<a>>
           s == <<b, c>>
           t == <<a, b, c>>
<1>1. /\ u \in Seq(S) /\ s \in Seq(S) /\ t \in Seq(S)
      /\ Len(u) = 1 /\ Len(s) = 2 /\ Len(t) = 3
      /\ t[1] = u[1] /\ t[2] = s[1] /\ t[3] = s[2]
  OBVIOUS
<1> HIDE DEF S, s, t, u
<1>2. \A i \in 1 .. Len(s) : t[i + 1] = s[i]
  BY <1>1
<1>3. Len(t) = Len(s) + 1
  BY <1>1
<1>4. u \o s = t
  BY <1>1, <1>2, <1>3, Prefixed
<1> QED
  BY <1>4 DEF s, t, u

LEMMA JoinFour ==
  ASSUME NEW a, NEW b, NEW c, NEW d
  PROVE  <<a>> \o <<b, c, d>> = <<a, b, c, d>>
<1> DEFINE S == {a, b, c, d}
           u == <<a>>
           s == <<b, c, d>>
           t == <<a, b, c, d>>
<1>1. /\ u \in Seq(S) /\ s \in Seq(S) /\ t \in Seq(S)
      /\ Len(u) = 1 /\ Len(s) = 3 /\ Len(t) = 4
      /\ t[1] = u[1] /\ t[2] = s[1] /\ t[3] = s[2] /\ t[4] = s[3]
  OBVIOUS
<1> HIDE DEF S, s, t, u
<1>2. \A i \in 1 .. Len(s) : t[i + 1] = s[i]
  BY <1>1
<1>3. Len(t) = Len(s) + 1
  BY <1>1
<1>4. u \o s = t
  BY <1>1, <1>2, <1>3, Prefixed
<1> QED
  BY <1>4 DEF s, t, u

-----------------------------------------------------------------------------
(* What a step of a task does.                                             *)

\* Task p replaced its first step l by steps and went on with m in hand and
\* having seen f, unless it ended.
Moves(p, l, steps, m, f) ==
  /\ tasks[p].todo # <<>> /\ tasks[p].todo[1] = l
  /\ tasks' \in Seq(Task) /\ Len(tasks') = Len(tasks) /\ DOMAIN tasks' = DOMAIN tasks
  /\ \A q \in DOMAIN tasks : q # p => tasks'[q] = tasks[q]
  /\ tasks'[p].todo = steps \o Tail(tasks[p].todo)
  /\ tasks'[p].clicked = tasks[p].clicked
  /\ tasks'[p].track = tasks[p].track
  /\ tasks'[p].alone = tasks[p].alone /\ tasks'[p].serves = tasks[p].serves
  /\ tasks'[p].held = IF tasks'[p].todo = <<>> THEN None ELSE m
  /\ tasks'[p].seen = IF tasks'[p].todo = <<>> THEN Idle ELSE f

LEMMA FacesAre ==
  ASSUME PlayerType
  PROVE  Face \in Faces /\ Idle \in Faces
<1> USE BoundsAssumption
<1>1. MaxTasks \in Nat /\ Len(tasks) <= MaxTasks
  BY DEF PlayerType
<1> QED
  BY <1>1 DEF PlayerType, Face, Idle, Faces

LEMMA GoOnMoves ==
  ASSUME Types, NEW p \in DOMAIN tasks, NEW l, At(p, l), NEW steps \in Seq(Steps),
         NEW t \in Task, t.todo = tasks[p].todo, t.clicked = tasks[p].clicked,
         t.track = tasks[p].track, t.alone = tasks[p].alone, t.serves = tasks[p].serves,
         GoOn(p, steps, t)
  PROVE  Moves(p, l, steps, t.held, t.seen)
<1> DEFINE todo == steps \o Tail(t.todo)
           r == IF todo = <<>> THEN [t EXCEPT !.todo = <<>>, !.held = None, !.seen = Idle]
                               ELSE [t EXCEPT !.todo = todo]
<1>1. /\ tasks \in Seq(Task) /\ DOMAIN tasks = 1 .. Len(tasks) /\ tasks[p] \in Task
  BY LenProperties, ElementOfSeq DEF Types, TasksType
<1>2. /\ tasks[p].todo \in Seq(Steps) /\ tasks[p].todo # <<>> /\ tasks[p].todo[1] = l
  BY <1>1 DEF At, Task
<1>3. todo \in Seq(Steps)
  BY <1>2, Splice
<1>4. r \in Task
  <2> HIDE DEF todo
  <2>1. Idle \in Faces /\ <<>> \in Seq(Steps)
    BY FacesAre, EmptySeq DEF Types
  <2>2. CASE todo = <<>>
    BY <2>1, <2>2 DEF Task
  <2>3. CASE todo # <<>>
    BY <2>3, <1>3 DEF Task
  <2> QED
    BY <2>2, <2>3
<1>5. /\ r.todo = todo /\ r.clicked = t.clicked /\ r.track = t.track /\ r.alone = t.alone
      /\ r.serves = t.serves
      /\ r.held = IF todo = <<>> THEN None ELSE t.held
      /\ r.seen = IF todo = <<>> THEN Idle ELSE t.seen
  <2> HIDE DEF todo
  <2>2. CASE todo = <<>>
    BY <2>2 DEF Task
  <2>3. CASE todo # <<>>
    BY <2>3 DEF Task
  <2> QED
    BY <2>2, <2>3
<1>6. tasks' = [tasks EXCEPT ![p] = r]
  BY DEF GoOn
<1> HIDE DEF r
<1>7. /\ tasks' \in Seq(Task) /\ Len(tasks') = Len(tasks) /\ tasks'[p] = r
      /\ \A q \in 1 .. Len(tasks) : q # p => tasks'[q] = tasks[q]
  BY <1>1, <1>4, <1>6, ExceptSeq
<1>8. DOMAIN tasks' = DOMAIN tasks
  BY <1>1, <1>7, LenProperties
<1>9. tasks'[p].todo = steps \o Tail(tasks[p].todo)
  BY <1>5, <1>7
<1>10. /\ tasks'[p].held = IF tasks'[p].todo = <<>> THEN None ELSE t.held
       /\ tasks'[p].seen = IF tasks'[p].todo = <<>> THEN Idle ELSE t.seen
  BY <1>5, <1>7
<1>11. tasks'[p].clicked = tasks[p].clicked /\ tasks'[p].track = tasks[p].track
       /\ tasks'[p].alone = tasks[p].alone /\ tasks'[p].serves = tasks[p].serves
  BY <1>5, <1>7
<1> QED
  BY <1>1, <1>2, <1>7, <1>8, <1>9, <1>10, <1>11 DEF Moves

LEMMA PlainMoves ==
  ASSUME Types, NEW p \in DOMAIN tasks, NEW l, At(p, l), NEW steps \in Seq(Steps),
         GoOn(p, steps, tasks[p])
  PROVE  Moves(p, l, steps, tasks[p].held, tasks[p].seen)
<1>1. tasks[p] \in Task
  BY ElementOfSeq, LenProperties DEF Types, TasksType
<1> QED
  BY <1>1, GoOnMoves

LEMMA HoldingMoves ==
  ASSUME Types, NEW p \in DOMAIN tasks, NEW l, At(p, l), NEW steps \in Seq(Steps),
         NEW m \in Nat \cup {None}, GoOn(p, steps, Holding(p, m))
  PROVE  Moves(p, l, steps, m, tasks[p].seen)
<1> DEFINE t == Holding(p, m)
<1>1. tasks[p] \in Task
  BY ElementOfSeq, LenProperties DEF Types, TasksType
<1>2. /\ t \in Task /\ t.todo = tasks[p].todo /\ t.clicked = tasks[p].clicked
      /\ t.track = tasks[p].track /\ t.alone = tasks[p].alone /\ t.serves = tasks[p].serves
      /\ t.held = m /\ t.seen = tasks[p].seen
  BY <1>1 DEF Holding, Task
<1>3. GoOn(p, steps, t)
  OBVIOUS
<1> HIDE DEF t
<1>4. Moves(p, l, steps, t.held, t.seen)
  BY <1>2, <1>3, GoOnMoves
<1> QED
  BY <1>2, <1>4

LEMMA SeeingMoves ==
  ASSUME Types, NEW p \in DOMAIN tasks, NEW l, At(p, l), NEW steps \in Seq(Steps),
         NEW f \in Faces, GoOn(p, steps, Seeing(p, f))
  PROVE  Moves(p, l, steps, tasks[p].held, f)
<1> DEFINE t == Seeing(p, f)
<1>1. tasks[p] \in Task
  BY ElementOfSeq, LenProperties DEF Types, TasksType
<1>2. /\ t \in Task /\ t.todo = tasks[p].todo /\ t.clicked = tasks[p].clicked
      /\ t.track = tasks[p].track /\ t.alone = tasks[p].alone /\ t.serves = tasks[p].serves
      /\ t.held = tasks[p].held /\ t.seen = f
  BY <1>1 DEF Seeing, Task
<1>3. GoOn(p, steps, t)
  OBVIOUS
<1> HIDE DEF t
<1>4. Moves(p, l, steps, t.held, t.seen)
  BY <1>2, <1>3, GoOnMoves
<1> QED
  BY <1>2, <1>4

\* The message that an editing step edits, and what it makes of it.
Edits        == {"unbutton", "idle", "render", "acknowledge", "blank", "paint"}
Target(t, l) == IF l \in OnHeld THEN t.held ELSE t.clicked
Edited(t, l) ==
  CASE l \in {"unbutton", "acknowledge"} -> [messages[Target(t, l)] EXCEPT !.buttons = FALSE]
    [] l \in {"idle", "blank"}           -> [face |-> Idle, buttons |-> FALSE]
    [] OTHER                             -> [face |-> t.seen, buttons |-> TRUE]
Faulty == "calls" \in regime /\ faults' = faults + 1 /\ faults < MaxFaults

\* The steps that look at the player and at the panel map.
Looking(t, l, steps, m, f) ==
  /\ UNCHANGED <<messages, ref, faults>>
  /\ \/ l = "fresh"    /\ now = 0    /\ steps = <<"find">>            /\ m = t.held /\ f = t.seen
     \/ l = "fresh"    /\ now # 0    /\ steps = <<"repost">>          /\ m = t.held /\ f = Face
     \/ l = "refresh"  /\ now = 0    /\ steps = <<"find">>            /\ m = t.held /\ f = t.seen
     \/ l = "refresh"  /\ now # 0    /\ steps = <<"update">>          /\ m = t.held /\ f = t.seen
     \/ l = "find"     /\ ref = None /\ steps = <<"forget">>          /\ m = ref    /\ f = t.seen
     \/ l = "find"     /\ ref # None /\ steps = <<"idle", "forget">>  /\ m = ref    /\ f = t.seen
     \/ l = "repost"   /\ ref = None /\ steps = <<>>                  /\ m = t.held /\ f = t.seen
     \/ l = "repost"   /\ ref # None /\ steps = <<"strip", "send">>   /\ m = t.held /\ f = t.seen
     \/ l = "update"   /\ ref = None /\ steps = <<>>                  /\ m = ref    /\ f = t.seen
     \/ l = "update"   /\ ref # None /\ steps = <<"consider">>        /\ m = ref    /\ f = t.seen
     \/ l = "consider" /\ now = 0    /\ steps = <<"idle", "forget">>  /\ m = t.held /\ f = Face
     \/ l = "consider" /\ now # 0    /\ steps = <<"render">>          /\ m = t.held /\ f = Face
     \/ l = "strip"    /\ ref = None /\ steps = <<>>                  /\ m = ref    /\ f = t.seen
     \/ l = "strip"    /\ ref # None /\ steps = <<"unbutton">>        /\ m = ref    /\ f = t.seen
     \/ l = "compose"  /\ steps = <<>> /\ m = t.held /\ f = [Face EXCEPT !.now = t.track]
     \/ l = "redraw"   /\ now = 0    /\ steps = <<"forget", "blank">> /\ m = t.held /\ f = t.seen
     \/ l = "redraw"   /\ now # 0    /\ steps = <<"paint">>           /\ m = t.held /\ f = Face

\* The steps that change the panel map or a message.
Changing(t, l, steps, m, f) ==
  /\ f = t.seen
  /\ \/ /\ l = "forget" /\ steps = <<>> /\ m = t.held
        /\ ref' = None /\ UNCHANGED <<messages, faults>>
     \/ /\ l = "adopt" /\ steps = <<>> /\ m = t.held
        /\ ref' = t.held /\ UNCHANGED <<messages, faults>>
     \/ /\ l \in Edits /\ steps = <<>> /\ m = t.held /\ ref' = ref
        /\ \/ messages' = [messages EXCEPT ![Target(t, l)] = Edited(t, l)] /\ faults' = faults
           \/ messages' = messages /\ Faulty
     \/ /\ l = "send" /\ steps = <<"adopt">> /\ m = Len(messages) + 1 /\ ref' = ref
        /\ messages' = Append(messages, [face |-> t.seen, buttons |-> TRUE]) /\ faults' = faults
     \/ /\ l = "send" /\ steps = <<>> /\ m = t.held /\ ref' = ref /\ Faulty
        /\ messages' \in {messages, Append(messages, [face |-> t.seen, buttons |-> TRUE])}

Turn(p, l, steps, m, f) ==
  /\ l \in Steps /\ steps \in Seq(Steps) /\ Moves(p, l, steps, m, f)
  /\ UNCHANGED <<regime, player>>
  /\ Looking(tasks[p], l, steps, m, f) \/ Changing(tasks[p], l, steps, m, f)

LEMMA EditTurns ==
  ASSUME Types, NEW p \in DOMAIN tasks, Edit(p)
  PROVE  \E l, steps, m, f : Turn(p, l, steps, m, f)
<1> DEFINE t == tasks[p]
<1>1. ASSUME NEW l \in Edits, At(p, l), EditMessage(p, Target(t, l), Edited(t, l))
      PROVE  Turn(p, l, <<>>, t.held, t.seen)
  <2>1. <<>> \in Seq(Steps)
    BY EmptySeq
  <2>2. Moves(p, l, <<>>, t.held, t.seen)
    BY <1>1, <2>1, PlainMoves DEF EditMessage
  <2>3. l \in Steps
    BY DEF Edits, Steps
  <2>4. /\ \/ messages' = [messages EXCEPT ![Target(t, l)] = Edited(t, l)] /\ faults' = faults
           \/ messages' = messages /\ Faulty
        /\ UNCHANGED <<regime, player, ref>>
    BY <1>1 DEF EditMessage, Fault, Faulty
  <2>5. Changing(t, l, <<>>, t.held, t.seen)
    BY <2>4 DEF Changing
  <2> QED
    BY <2>1, <2>2, <2>3, <2>4, <2>5 DEF Turn
<1>2. CASE At(p, "unbutton") /\ Unbutton(p, t.held)
  <2>1. Target(t, "unbutton") = t.held
    BY DEF Target, OnHeld
  <2>2. EditMessage(p, Target(t, "unbutton"), Edited(t, "unbutton"))
    BY <1>2, <2>1 DEF Unbutton, Edited
  <2> QED
    BY <1>1, <1>2, <2>2 DEF Edits
<1>3. CASE At(p, "idle") /\ ShowIdle(p, t.held)
  <2>1. Target(t, "idle") = t.held
    BY DEF Target, OnHeld
  <2>2. EditMessage(p, Target(t, "idle"), Edited(t, "idle"))
    BY <1>3, <2>1 DEF ShowIdle, Edited
  <2> QED
    BY <1>1, <1>3, <2>2 DEF Edits
<1>4. CASE At(p, "render") /\ ShowSeen(p, t.held)
  <2>1. Target(t, "render") = t.held
    BY DEF Target, OnHeld
  <2>2. EditMessage(p, Target(t, "render"), Edited(t, "render"))
    BY <1>4, <2>1 DEF ShowSeen, Edited
  <2> QED
    BY <1>1, <1>4, <2>2 DEF Edits
<1>5. CASE At(p, "acknowledge") /\ Unbutton(p, t.clicked)
  <2>1. Target(t, "acknowledge") = t.clicked
    BY DEF Target, OnHeld
  <2>2. EditMessage(p, Target(t, "acknowledge"), Edited(t, "acknowledge"))
    BY <1>5, <2>1 DEF Unbutton, Edited
  <2> QED
    BY <1>1, <1>5, <2>2 DEF Edits
<1>6. CASE At(p, "blank") /\ ShowIdle(p, t.clicked)
  <2>1. Target(t, "blank") = t.clicked
    BY DEF Target, OnHeld
  <2>2. EditMessage(p, Target(t, "blank"), Edited(t, "blank"))
    BY <1>6, <2>1 DEF ShowIdle, Edited
  <2> QED
    BY <1>1, <1>6, <2>2 DEF Edits
<1>7. CASE At(p, "paint") /\ ShowSeen(p, t.clicked)
  <2>1. Target(t, "paint") = t.clicked
    BY DEF Target, OnHeld
  <2>2. EditMessage(p, Target(t, "paint"), Edited(t, "paint"))
    BY <1>7, <2>1 DEF ShowSeen, Edited
  <2> QED
    BY <1>1, <1>7, <2>2 DEF Edits
<1> QED
  BY <1>2, <1>3, <1>4, <1>5, <1>6, <1>7 DEF Edit

LEMMA LookTurns ==
  ASSUME Types, NEW p \in DOMAIN tasks,
         \/ OnFresh(p) \/ OnRefresh(p) \/ Find(p) \/ Repost(p) \/ Update(p)
         \/ Consider(p) \/ Strip(p) \/ Compose(p) \/ Redraw(p)
  PROVE  \E l, steps, m, f : Turn(p, l, steps, m, f)
<1> DEFINE t == tasks[p]
<1>1. /\ tasks[p] \in Task /\ tasks[p].track \in 0 .. MaxTasks
      /\ ref \in Nat \cup {None} /\ Face \in Faces
  <2>1. tasks[p] \in Task
    BY ElementOfSeq, LenProperties DEF Types, TasksType
  <2>2. ref \in Nat \cup {None}
    BY LenProperties DEF Types, PanelType, Panels
  <2> QED
    BY <2>1, <2>2, FacesAre DEF Types, Task
<1>2. /\ <<>> \in Seq(Steps) /\ \A a \in Steps : <<a>> \in Seq(Steps)
      /\ \A a, b \in Steps : <<a, b>> \in Seq(Steps)
  BY EmptySeq
<1>3. /\ <<"find">> \in Seq(Steps) /\ <<"repost">> \in Seq(Steps) /\ <<"update">> \in Seq(Steps)
      /\ <<"forget">> \in Seq(Steps) /\ <<"idle", "forget">> \in Seq(Steps)
      /\ <<"strip", "send">> \in Seq(Steps) /\ <<"consider">> \in Seq(Steps)
      /\ <<"render">> \in Seq(Steps) /\ <<"unbutton">> \in Seq(Steps)
      /\ <<"forget", "blank">> \in Seq(Steps) /\ <<"paint">> \in Seq(Steps)
  BY <1>2 DEF Steps
<1>4. ASSUME NEW l \in Steps, NEW steps \in Seq(Steps), Look(p, l), GoOn(p, steps, tasks[p]),
             Looking(t, l, steps, t.held, t.seen)
      PROVE  \E l0, steps0, m0, f0 : Turn(p, l0, steps0, m0, f0)
  <2>1. Turn(p, l, steps, t.held, t.seen)
    BY <1>4, PlainMoves DEF Look, Turn
  <2> QED
    BY <2>1
<1>5. ASSUME NEW l \in Steps, NEW steps \in Seq(Steps), Look(p, l),
             GoOn(p, steps, Holding(p, ref)), Looking(t, l, steps, ref, t.seen)
      PROVE  \E l0, steps0, m0, f0 : Turn(p, l0, steps0, m0, f0)
  <2>1. Turn(p, l, steps, ref, t.seen)
    BY <1>1, <1>5, HoldingMoves DEF Look, Turn
  <2> QED
    BY <2>1
<1>6. ASSUME NEW l \in Steps, NEW steps \in Seq(Steps), Look(p, l), NEW f \in Faces,
             GoOn(p, steps, Seeing(p, f)), Looking(t, l, steps, t.held, f)
      PROVE  \E l0, steps0, m0, f0 : Turn(p, l0, steps0, m0, f0)
  <2>1. Turn(p, l, steps, t.held, f)
    BY <1>1, <1>6, SeeingMoves DEF Look, Turn
  <2> QED
    BY <2>1
<1>7. CASE OnFresh(p)
  <2>1. CASE now = 0
    <3>1. Look(p, "fresh") /\ GoOn(p, <<"find">>, tasks[p])
          /\ Looking(t, "fresh", <<"find">>, t.held, t.seen)
      BY <1>7, <2>1 DEF OnFresh, Looking, Look
    <3> QED
      BY <3>1, <1>3, <1>4 DEF Steps
  <2>2. CASE now # 0
    <3>1. Look(p, "fresh") /\ GoOn(p, <<"repost">>, Seeing(p, Face))
          /\ Looking(t, "fresh", <<"repost">>, t.held, Face)
      BY <1>7, <2>2 DEF OnFresh, Looking, Look
    <3> QED
      BY <3>1, <1>1, <1>3, <1>6 DEF Steps
  <2> QED
    BY <2>1, <2>2
<1>8. CASE OnRefresh(p)
  <2>1. CASE now = 0
    <3>1. Look(p, "refresh") /\ GoOn(p, <<"find">>, tasks[p])
          /\ Looking(t, "refresh", <<"find">>, t.held, t.seen)
      BY <1>8, <2>1 DEF OnRefresh, Looking, Look
    <3> QED
      BY <3>1, <1>3, <1>4 DEF Steps
  <2>2. CASE now # 0
    <3>1. Look(p, "refresh") /\ GoOn(p, <<"update">>, tasks[p])
          /\ Looking(t, "refresh", <<"update">>, t.held, t.seen)
      BY <1>8, <2>2 DEF OnRefresh, Looking, Look
    <3> QED
      BY <3>1, <1>3, <1>4 DEF Steps
  <2> QED
    BY <2>1, <2>2
<1>9. CASE Find(p)
  <2>1. CASE ref = None
    <3>1. Look(p, "find") /\ GoOn(p, <<"forget">>, Holding(p, ref))
          /\ Looking(t, "find", <<"forget">>, ref, t.seen)
      BY <1>9, <2>1 DEF Find, Looking, Look
    <3> QED
      BY <3>1, <1>3, <1>5 DEF Steps
  <2>2. CASE ref # None
    <3>1. Look(p, "find") /\ GoOn(p, <<"idle", "forget">>, Holding(p, ref))
          /\ Looking(t, "find", <<"idle", "forget">>, ref, t.seen)
      BY <1>9, <2>2 DEF Find, Looking, Look
    <3> QED
      BY <3>1, <1>3, <1>5 DEF Steps
  <2> QED
    BY <2>1, <2>2
<1>10. CASE Repost(p)
  <2>1. CASE ref = None
    <3>1. Look(p, "repost") /\ GoOn(p, <<>>, tasks[p])
          /\ Looking(t, "repost", <<>>, t.held, t.seen)
      BY <1>10, <2>1 DEF Repost, Looking, Look
    <3> QED
      BY <3>1, <1>2, <1>4 DEF Steps
  <2>2. CASE ref # None
    <3>1. Look(p, "repost") /\ GoOn(p, <<"strip", "send">>, tasks[p])
          /\ Looking(t, "repost", <<"strip", "send">>, t.held, t.seen)
      BY <1>10, <2>2 DEF Repost, Looking, Look
    <3> QED
      BY <3>1, <1>3, <1>4 DEF Steps
  <2> QED
    BY <2>1, <2>2
<1>11. CASE Update(p)
  <2>1. CASE ref = None
    <3>1. Look(p, "update") /\ GoOn(p, <<>>, Holding(p, ref))
          /\ Looking(t, "update", <<>>, ref, t.seen)
      BY <1>11, <2>1 DEF Update, Looking, Look
    <3> QED
      BY <3>1, <1>2, <1>5 DEF Steps
  <2>2. CASE ref # None
    <3>1. Look(p, "update") /\ GoOn(p, <<"consider">>, Holding(p, ref))
          /\ Looking(t, "update", <<"consider">>, ref, t.seen)
      BY <1>11, <2>2 DEF Update, Looking, Look
    <3> QED
      BY <3>1, <1>3, <1>5 DEF Steps
  <2> QED
    BY <2>1, <2>2
<1>12. CASE Consider(p)
  <2>1. CASE now = 0
    <3>1. Look(p, "consider") /\ GoOn(p, <<"idle", "forget">>, Seeing(p, Face))
          /\ Looking(t, "consider", <<"idle", "forget">>, t.held, Face)
      BY <1>12, <2>1 DEF Consider, Looking, Look
    <3> QED
      BY <3>1, <1>1, <1>3, <1>6 DEF Steps
  <2>2. CASE now # 0
    <3>1. Look(p, "consider") /\ GoOn(p, <<"render">>, Seeing(p, Face))
          /\ Looking(t, "consider", <<"render">>, t.held, Face)
      BY <1>12, <2>2 DEF Consider, Looking, Look
    <3> QED
      BY <3>1, <1>1, <1>3, <1>6 DEF Steps
  <2> QED
    BY <2>1, <2>2
<1>13. CASE Strip(p)
  <2>1. CASE ref = None
    <3>1. Look(p, "strip") /\ GoOn(p, <<>>, Holding(p, ref))
          /\ Looking(t, "strip", <<>>, ref, t.seen)
      BY <1>13, <2>1 DEF Strip, Looking, Look
    <3> QED
      BY <3>1, <1>2, <1>5 DEF Steps
  <2>2. CASE ref # None
    <3>1. Look(p, "strip") /\ GoOn(p, <<"unbutton">>, Holding(p, ref))
          /\ Looking(t, "strip", <<"unbutton">>, ref, t.seen)
      BY <1>13, <2>2 DEF Strip, Looking, Look
    <3> QED
      BY <3>1, <1>3, <1>5 DEF Steps
  <2> QED
    BY <2>1, <2>2
<1>14. CASE Compose(p)
  <2> DEFINE f == [Face EXCEPT !.now = tasks[p].track]
  <2>1. f \in Faces
    BY <1>1 DEF Faces
  <2>2. Look(p, "compose") /\ GoOn(p, <<>>, Seeing(p, f))
        /\ Looking(t, "compose", <<>>, t.held, f)
    BY <1>14 DEF Compose, Looking, Look
  <2> HIDE DEF f
  <2> QED
    BY <2>1, <2>2, <1>2, <1>6 DEF Steps
<1>15. CASE Redraw(p)
  <2>1. CASE now = 0
    <3>1. Look(p, "redraw") /\ GoOn(p, <<"forget", "blank">>, tasks[p])
          /\ Looking(t, "redraw", <<"forget", "blank">>, t.held, t.seen)
      BY <1>15, <2>1 DEF Redraw, Looking, Look
    <3> QED
      BY <3>1, <1>3, <1>4 DEF Steps
  <2>2. CASE now # 0
    <3>1. Look(p, "redraw") /\ GoOn(p, <<"paint">>, Seeing(p, Face))
          /\ Looking(t, "redraw", <<"paint">>, t.held, Face)
      BY <1>15, <2>2 DEF Redraw, Looking, Look
    <3> QED
      BY <3>1, <1>1, <1>3, <1>6 DEF Steps
  <2> QED
    BY <2>1, <2>2
<1> QED
  BY <1>7, <1>8, <1>9, <1>10, <1>11, <1>12, <1>13, <1>14, <1>15

LEMMA StepTurns ==
  ASSUME Types, NEW p \in DOMAIN tasks, Step(p)
  PROVE  \E l, steps, m, f : Turn(p, l, steps, m, f)
<1> DEFINE t == tasks[p]
<1>1. /\ <<>> \in Seq(Steps) /\ <<"adopt">> \in Seq(Steps)
  BY EmptySeq DEF Steps
<1>2. CASE Forget(p)
  <2>1. Moves(p, "forget", <<>>, t.held, t.seen)
    BY <1>1, <1>2, PlainMoves DEF Forget
  <2>2. Changing(t, "forget", <<>>, t.held, t.seen) /\ UNCHANGED <<regime, player>>
    BY <1>2 DEF Forget, Changing
  <2> QED
    BY <1>1, <2>1, <2>2 DEF Turn, Steps
<1>3. CASE Adopt(p)
  <2>1. Moves(p, "adopt", <<>>, t.held, t.seen)
    BY <1>1, <1>3, PlainMoves DEF Adopt
  <2>2. Changing(t, "adopt", <<>>, t.held, t.seen) /\ UNCHANGED <<regime, player>>
    BY <1>3 DEF Adopt, Changing
  <2> QED
    BY <1>1, <2>1, <2>2 DEF Turn, Steps
<1>4. CASE Send(p)
  <2> DEFINE message == [face |-> t.seen, buttons |-> TRUE]
             posted  == Append(messages, message)
  <2>1. t \in Task
    BY ElementOfSeq, LenProperties DEF Types, TasksType
  <2>2. message \in Message
    BY <2>1 DEF Task, Message
  <2> HIDE DEF message
  <2>3. Len(posted) = Len(messages) + 1 /\ Len(messages) \in Nat
    BY <2>2, AppendProperties, LenProperties DEF Types, PanelType
  <2>4. CASE messages' = posted /\ GoOn(p, <<"adopt">>, Holding(p, Len(posted))) /\ faults' = faults
    <3> DEFINE m == Len(messages) + 1
    <3>1. m \in Nat /\ GoOn(p, <<"adopt">>, Holding(p, m)) /\ At(p, "send")
      BY <1>4, <2>3, <2>4 DEF Send
    <3> HIDE DEF m
    <3>2. Moves(p, "send", <<"adopt">>, m, t.seen)
      BY <1>1, <3>1, HoldingMoves
    <3>3. Changing(t, "send", <<"adopt">>, m, t.seen) /\ UNCHANGED <<regime, player>>
      BY <1>4, <2>4 DEF Send, Changing, m, message
    <3> QED
      BY <1>1, <3>2, <3>3 DEF Turn, Steps
  <2>5. CASE Fault("calls") /\ messages' \in {messages, posted} /\ GoOn(p, <<>>, tasks[p])
    <3>2. Moves(p, "send", <<>>, t.held, t.seen)
      BY <1>1, <1>4, <2>5, PlainMoves DEF Send
    <3>3. Changing(t, "send", <<>>, t.held, t.seen) /\ UNCHANGED <<regime, player>>
      BY <1>4, <2>5 DEF Send, Changing, Fault, Faulty, message
    <3> QED
      BY <1>1, <3>2, <3>3 DEF Turn, Steps
  <2> QED
    BY <1>4, <2>4, <2>5 DEF Send, message
<1> QED
  BY <1>2, <1>3, <1>4, EditTurns, LookTurns DEF Step

-----------------------------------------------------------------------------
(* What an operation does.                                                 *)

Sequential == "handlers" \notin regime

\* The lists of steps that an operation begins: one that was asked for by a
\* command or by a track end, one that publishes a panel, a counted vote's,
\* and a control button's.
PlainPlans   == {<<>>, <<"fresh">>, <<"refresh">>, <<"refresh", "update">>, <<"fresh", "update">>}
PublishPlans == {<<"fresh", "strip", "compose", "send">>, <<"strip", "compose", "send">>}
VotePlans    == {<<"refresh", "update">>, <<"fresh", "update">>}
PressPlans   == {<<"redraw">>, <<"fresh", "acknowledge">>, <<"fresh", "forget", "blank">>,
                 <<"refresh", "redraw">>}

\* An operation is ready to begin.
Readied == Len(tasks) < MaxTasks /\ (Sequential => Done)

\* The player after an operation.
Operated ==
  /\ started' \in 0 .. started + 1 /\ now' \in 0 .. started' /\ upcoming' \in 0 .. Len(tasks) + 1
  /\ frozen' \in BOOLEAN /\ node' \in BOOLEAN /\ mirror' \in BOOLEAN /\ lingers' \in BOOLEAN
  /\ faults' \in 0 .. MaxFaults
  /\ "answers" \notin regime => (mirror = node => mirror' = node')

\* An operation that began the steps in todo, of a press of message m or none.
Begun(m, todo, track) ==
  /\ Readied /\ Operated
  /\ UNCHANGED <<regime, messages, ref>>
  /\ track \in 0 .. MaxTasks
  /\ \E serves \in BOOLEAN :
       /\ SpawnTask(serves, m, todo, track)
       /\ serves /\ m # None => todo \in PressPlans \/ (todo \in VotePlans /\ m = ref)
  /\ \/ m = None /\ todo \in PlainPlans
     \/ m = None /\ todo \in PublishPlans /\ now' # 0 /\ track = now'
     \/ m \in DOMAIN messages /\ messages[m].buttons /\ todo \in PressPlans \cup PlainPlans
  /\ todo = <<"fresh", "forget", "blank">> => now' = 0
  /\ "operations" \notin regime =>
       /\ now' = 0 /\ now # 0 => todo # <<>> /\ todo[1] = "fresh"
       /\ todo = <<>> => UNCHANGED player

LEMMA ReadyIs ==
  ASSUME Types, Ready
  PROVE  Readied
<1>1. Len(tasks) \in Nat /\ DOMAIN tasks = 1 .. Len(tasks)
  BY LenProperties DEF Types, TasksType
<1>2. IsFiniteSet(AtWork)
  <2>1. IsFiniteSet(1 .. Len(tasks))
    BY <1>1, FS_Interval
  <2>2. AtWork \subseteq 1 .. Len(tasks)
    BY <1>1 DEF AtWork
  <2> QED
    BY <2>1, <2>2, FS_Subset
<1>3. ASSUME Sequential PROVE Done
  <2>1. Cardinality(AtWork) < 1 /\ Cardinality(AtWork) \in Nat
    BY <1>2, <1>3, FS_CardinalityType DEF Ready, Sequential
  <2>2. Cardinality(AtWork) = 0
    BY <2>1
  <2>3. AtWork = {}
    BY <1>2, <2>2, FS_EmptySet
  <2> QED
    BY <2>3 DEF AtWork, Done
<1> QED
  BY <1>3 DEF Ready, Readied

\* The player's facts that the operations start from.
LEMMA Numbers ==
  ASSUME Types
  PROVE  /\ started \in Nat /\ now \in Nat /\ upcoming \in Nat /\ Len(tasks) \in Nat
         /\ MaxTasks \in Nat /\ MaxFaults \in Nat /\ faults \in 0 .. MaxFaults
         /\ started <= Len(tasks) /\ now <= started /\ upcoming <= Len(tasks)
         /\ frozen \in BOOLEAN /\ node \in BOOLEAN /\ mirror \in BOOLEAN /\ lingers \in BOOLEAN
  BY BoundsAssumption, LenProperties DEF Types, TasksType, PlayerType

LEMMA Told ==
  ASSUME NEW paused \in BOOLEAN, Tell(paused), mirror \in BOOLEAN
  PROVE  /\ node' \in BOOLEAN /\ mirror' \in BOOLEAN
         /\ "answers" \notin regime => (mirror = node => mirror' = node')
<1>1. node' = paused
  BY DEF Tell
<1>2. CASE "answers" \in regime
  <2>1. mirror' = mirror
    BY <1>2 DEF Tell
  <2> QED
    BY <1>1, <1>2, <2>1
<1>3. CASE "answers" \notin regime
  <2>1. mirror' = paused
    BY <1>3 DEF Tell
  <2> QED
    BY <1>1, <2>1
<1> QED
  BY <1>2, <1>3

\* A task of a command, or of a press that serves the message.
LEMMA Served ==
  ASSUME NEW m, NEW todo, NEW track, Spawn(m, todo, track),
         m # None => todo \in PressPlans
  PROVE  \E serves \in BOOLEAN :
           /\ SpawnTask(serves, m, todo, track)
           /\ serves /\ m # None => todo \in PressPlans \/ (todo \in VotePlans /\ m = ref)
<1> WITNESS TRUE \in BOOLEAN
<1> QED
  BY DEF Spawn

LEMMA Advanced ==
  ASSUME Types, NEW left \in BOOLEAN, Advance \/ Cease(left), UNCHANGED faults \/ Fault("operations")
  PROVE  Operated
<1> USE Numbers
<1>1. faults' \in 0 .. MaxFaults
  BY DEF Fault
<1>2. ASSUME NEW x \in BOOLEAN, Cease(x) PROVE Operated
  <2>1. /\ now' = 0 /\ upcoming' = 0 /\ frozen' = FALSE /\ Tell(FALSE) /\ started' = started
        /\ lingers' = x
    BY <1>2 DEF Cease
  <2>2. /\ node' \in BOOLEAN /\ mirror' \in BOOLEAN
        /\ "answers" \notin regime => (mirror = node => mirror' = node')
    BY <2>1, Told
  <2>3. started' \in 0 .. started + 1 /\ now' \in 0 .. started' /\ upcoming' \in 0 .. Len(tasks) + 1
    BY <2>1
  <2>4. frozen' \in BOOLEAN /\ lingers' \in BOOLEAN
    BY <1>2, <2>1
  <2> QED
    BY <1>1, <2>2, <2>3, <2>4, Zenon DEF Operated
<1>3. CASE upcoming > 0 /\ Begin(upcoming - 1)
  <2>1. /\ now' = started + 1 /\ upcoming' = upcoming - 1 /\ upcoming > 0
        /\ frozen' = FALSE /\ Tell(FALSE) /\ started' = started + 1 /\ lingers' = FALSE
    BY <1>3 DEF Begin
  <2>2. /\ node' \in BOOLEAN /\ mirror' \in BOOLEAN
        /\ "answers" \notin regime => (mirror = node => mirror' = node')
    BY <2>1, Told
  <2>3. started' \in 0 .. started + 1 /\ now' \in 0 .. started' /\ upcoming' \in 0 .. Len(tasks) + 1
    BY <2>1
  <2>4. frozen' \in BOOLEAN /\ lingers' \in BOOLEAN
    BY <2>1
  <2> QED
    BY <1>1, <2>2, <2>3, <2>4, Zenon DEF Operated
<1>4. Cease(left) \/ Cease(FALSE) \/ (upcoming > 0 /\ Begin(upcoming - 1))
  BY DEF Advance, Empty
<1> QED
  BY <1>2, <1>3, <1>4

LEMMA ChatOperations ==
  ASSUME Types, PlayStarts \/ PlayAppends \/ NowPlaying \/ TrackEnds
  PROVE  \E m, todo, track : Begun(m, todo, track)
<1> USE Numbers
<1>1. Readied /\ UNCHANGED <<regime, messages, ref>>
  BY ReadyIs DEF PlayStarts, PlayAppends, NowPlaying, TrackEnds, Act
<1>2. CASE PlayStarts
  <2> DEFINE todo == <<"fresh", "strip", "compose", "send">>
  <2>1. Begin(upcoming) /\ UNCHANGED faults /\ now = 0 /\ started + 1 \in 0 .. MaxTasks
    BY <1>1, <1>2 DEF PlayStarts, Readied
  <2>2. Operated /\ now' = started + 1 /\ now' # 0
    <3>1. /\ now' = started + 1 /\ upcoming' = upcoming /\ frozen' = FALSE
          /\ Tell(FALSE) /\ started' = started + 1 /\ faults' = faults /\ lingers' = FALSE
      BY <2>1 DEF Begin
    <3>2. /\ node' \in BOOLEAN /\ mirror' \in BOOLEAN
          /\ "answers" \notin regime => (mirror = node => mirror' = node')
      BY <3>1, Told
    <3>3. started' \in 0 .. started + 1 /\ now' \in 0 .. started' /\ upcoming' \in 0 .. Len(tasks) + 1
          /\ faults' \in 0 .. MaxFaults
      BY <3>1
    <3>4. frozen' \in BOOLEAN /\ lingers' \in BOOLEAN
      BY <3>1
    <3>5. now' = started + 1 /\ now' # 0
      BY <3>1
    <3> QED
      BY <3>2, <3>3, <3>4, <3>5, Zenon DEF Operated
  <2>3. <<"fresh">> \o Publish = todo
    <3>1. <<"fresh">> \o <<"strip", "compose", "send">> = <<"fresh", "strip", "compose", "send">>
      BY JoinFour, Zenon
    <3> QED
      BY <3>1, Zenon DEF Publish
  <2>4. Spawn(None, todo, started + 1)
    BY <1>2, <2>3 DEF PlayStarts
  <2>5. todo \in PublishPlans /\ todo # <<"fresh", "forget", "blank">> /\ todo # <<>> /\ todo[1] = "fresh"
    BY DEF PublishPlans
  <2> HIDE DEF todo
  <2>6. Begun(None, todo, started + 1)
    BY <1>1, <2>1, <2>2, <2>4, <2>5, Served DEF Begun
  <2> QED
    BY <2>6
<1>3. CASE PlayAppends
  <2> DEFINE todo == <<"refresh", "update">>
  <2>1. Operated /\ now' = now
    BY <1>3 DEF PlayAppends, Operated
  <2>2. todo \in PlainPlans /\ todo # <<"fresh", "forget", "blank">> /\ todo # <<>> /\ Spawn(None, todo, 0)
    BY <1>3 DEF PlainPlans, PlayAppends
  <2> HIDE DEF todo
  <2>3. Begun(None, todo, 0)
    BY <1>1, <2>1, <2>2, Served DEF Begun
  <2> QED
    BY <2>3
<1>4. CASE NowPlaying
  <2> DEFINE todo == <<"strip", "compose", "send">>
  <2>1. Operated /\ now' = now /\ now # 0 /\ now \in 0 .. MaxTasks
    BY <1>1, <1>4 DEF NowPlaying, Operated, player, Readied
  <2>2. todo \in PublishPlans /\ todo # <<"fresh", "forget", "blank">> /\ todo # <<>> /\ Spawn(None, todo, now)
    BY <1>4 DEF PublishPlans, NowPlaying, Publish
  <2> HIDE DEF todo
  <2>3. Begun(None, todo, now)
    BY <1>1, <2>1, <2>2, Served DEF Begun
  <2> QED
    BY <2>3
<1>5. CASE TrackEnds
  <2> DEFINE todo == <<"fresh">>
  <2>1. Operated
    <3>1. \E left \in BOOLEAN :
            (Advance \/ Cease(left)) /\ (UNCHANGED faults \/ Fault("operations"))
      BY <1>5 DEF TrackEnds
    <3> QED
      BY <3>1, Advanced
  <2>2. todo \in PlainPlans /\ todo # <<"fresh", "forget", "blank">> /\ todo # <<>>
        /\ todo[1] = "fresh" /\ Spawn(None, todo, 0)
    BY <1>5 DEF PlainPlans, TrackEnds
  <2> HIDE DEF todo
  <2>3. Begun(None, todo, 0)
    BY <1>1, <2>1, <2>2, Served DEF Begun
  <2> QED
    BY <2>3
<1> QED
  BY <1>2, <1>3, <1>4, <1>5

\* A command, or a press of a message that has buttons.
Asked(m) == m = None \/ (m \in DOMAIN messages /\ messages[m].buttons)

LEMMA NoneIsNone ==
  ASSUME Types
  PROVE  None \notin DOMAIN messages
  BY NoneIsNoMessage, LenProperties DEF Types, PanelType

\* The plan of an operation of service with what follows it for a button.
LEMMA PlannedOperation ==
  ASSUME Types, NEW m, Asked(m), Readied, Operated, UNCHANGED <<regime, messages, ref>>,
         NEW first \in {<<>>, <<"fresh">>, <<"refresh">>}, NEW rest,
         NEW todo, todo = first \o Reply(m, rest), Spawn(m, todo, 0),
         \/ first = <<>> /\ rest = <<"redraw">>
         \/ first = <<"fresh">> /\ rest = <<"acknowledge">>
         \/ first = <<"fresh">> /\ rest = <<"forget", "blank">> /\ now' = 0
         \/ first = <<"refresh">> /\ rest = <<"redraw">>,
         "operations" \notin regime =>
           /\ now' = 0 /\ now # 0 => first = <<"fresh">>
           /\ first = <<>> => UNCHANGED player
  PROVE  Begun(m, todo, 0)
<1>1. m = None => todo = first
  <2>1. first \in Seq(Steps)
    <3>1. <<>> \in Seq(Steps) /\ <<"fresh">> \in Seq(Steps) /\ <<"refresh">> \in Seq(Steps)
      BY EmptySeq DEF Steps
    <3> QED
      BY <3>1, Zenon
  <2>2. first \o <<>> = first
    BY <2>1, ConcatEmptySeq
  <2> QED
    BY <2>2 DEF Reply
<1>2. m # None =>
        \/ todo = <<"redraw">> /\ first = <<>>
        \/ todo = <<"fresh", "acknowledge">> /\ first = <<"fresh">>
        \/ todo = <<"fresh", "forget", "blank">> /\ first = <<"fresh">> /\ now' = 0
        \/ todo = <<"refresh", "redraw">> /\ first = <<"refresh">>
  <2> SUFFICES ASSUME m # None, todo = first \o rest PROVE
        \/ todo = <<"redraw">> /\ first = <<>>
        \/ todo = <<"fresh", "acknowledge">> /\ first = <<"fresh">>
        \/ todo = <<"fresh", "forget", "blank">> /\ first = <<"fresh">> /\ now' = 0
        \/ todo = <<"refresh", "redraw">> /\ first = <<"refresh">>
    BY DEF Reply
  <2>1. <<"redraw">> \in Seq(Steps)
    BY DEF Steps
  <2>2. <<>> \o <<"redraw">> = <<"redraw">>
    BY <2>1, ConcatEmptySeq
  <2>3. /\ <<"fresh">> \o <<"acknowledge">> = <<"fresh", "acknowledge">>
        /\ <<"fresh">> \o <<"forget", "blank">> = <<"fresh", "forget", "blank">>
        /\ <<"refresh">> \o <<"redraw">> = <<"refresh", "redraw">>
    <3>1. <<"fresh">> \o <<"acknowledge">> = <<"fresh", "acknowledge">>
      BY JoinTwo, Zenon
    <3>2. <<"fresh">> \o <<"forget", "blank">> = <<"fresh", "forget", "blank">>
      BY JoinThree, Zenon
    <3>3. <<"refresh">> \o <<"redraw">> = <<"refresh", "redraw">>
      BY JoinTwo, Zenon
    <3> QED
      BY <3>1, <3>2, <3>3, Zenon
  <2> QED
    BY <2>2, <2>3, Zenon
<1>3. \/ m = None /\ todo \in PlainPlans
      \/ m \in DOMAIN messages /\ messages[m].buttons /\ todo \in PressPlans
  BY <1>1, <1>2 DEF Asked, PlainPlans, PressPlans
<1>8. m # None => todo \in PressPlans
  BY <1>2 DEF PressPlans
<1>4. todo = <<"fresh", "forget", "blank">> => now' = 0
  BY <1>1, <1>2
<1>5. first = <<"fresh">> => todo # <<>> /\ todo[1] = "fresh"
  BY <1>1, <1>2
<1>6. todo = <<>> => first = <<>>
  BY <1>1, <1>2
<1>7. 0 \in 0 .. MaxTasks
  BY Numbers
<1> QED
  BY <1>3, <1>4, <1>5, <1>6, <1>7, <1>8, Served DEF Begun

\* A vote that counts, and a press that is only answered.
LEMMA Counted ==
  ASSUME Types, NEW m, Asked(m), m # None, Readied, Operated, UNCHANGED <<regime, messages, ref>>,
         NEW todo, SpawnTask(m = ref, m, todo, 0),
         \/ todo = <<"refresh", "update">> /\ now' = now
         \/ todo = <<"fresh", "update">>
  PROVE  Begun(m, todo, 0)
<1>1. 0 \in 0 .. MaxTasks
  BY Numbers
<1>2. /\ todo \in PlainPlans /\ todo \in VotePlans
      /\ todo # <<"fresh", "forget", "blank">> /\ todo # <<>>
  BY DEF PlainPlans, VotePlans
<1>3. now' = 0 /\ now # 0 => todo[1] = "fresh"
  OBVIOUS
<1>4. \E serves \in BOOLEAN :
        /\ SpawnTask(serves, m, todo, 0)
        /\ serves /\ m # None => todo \in PressPlans \/ (todo \in VotePlans /\ m = ref)
  <2> WITNESS (m = ref) \in BOOLEAN
  <2> QED
    BY <1>2
<1> QED
  BY <1>1, <1>2, <1>3, <1>4 DEF Begun, Asked

LEMMA Answered ==
  ASSUME Types, NEW m, Asked(m), m # None, Readied, Operated, UNCHANGED <<regime, messages, ref>>,
         SpawnTask(FALSE, m, <<>>, 0), UNCHANGED player \/ "operations" \in regime
  PROVE  Begun(m, <<>>, 0)
<1>1. 0 \in 0 .. MaxTasks
  BY Numbers
<1>2. <<>> \in PlainPlans /\ <<>> # <<"fresh", "forget", "blank">>
  BY DEF PlainPlans
<1>3. \E serves \in BOOLEAN :
        /\ SpawnTask(serves, m, <<>>, 0)
        /\ serves /\ m # None => <<>> \in PressPlans \/ (<<>> \in VotePlans /\ m = ref)
  <2> WITNESS FALSE \in BOOLEAN
  <2> QED
    OBVIOUS
<1>4. "operations" \notin regime => now' = now /\ UNCHANGED player
  BY DEF player
<1> QED
  BY <1>1, <1>2, <1>3, <1>4 DEF Begun, Asked

LEMMA AskedOperations ==
  ASSUME Types, NEW m, Asked(m), Operation(m)
  PROVE  \E n, todo, track : Begun(n, todo, track)
<1> USE Numbers
<1>1. Readied /\ UNCHANGED <<regime, messages, ref>>
  BY ReadyIs DEF Operation, Act
<1>2. CASE SkipTrack(m)
  <2> DEFINE todo == <<"fresh">> \o Reply(m, <<"acknowledge">>)
  <2>1. Operated /\ Spawn(m, todo, 0)
    BY <1>2, Advanced DEF SkipTrack
  <2> HIDE DEF todo
  <2>2. Begun(m, todo, 0)
    BY <1>1, <2>1, PlannedOperation DEF todo
  <2> QED
    BY <2>2
<1>3. CASE Stop(m)
  <2> DEFINE todo == <<"fresh">> \o Reply(m, <<"forget", "blank">>)
  <2>1. Operated /\ Spawn(m, todo, 0) /\ now' = 0
    BY <1>3, Advanced DEF Stop, Empty, Cease
  <2> HIDE DEF todo
  <2>2. Begun(m, todo, 0)
    BY <1>1, <2>1, PlannedOperation DEF todo
  <2> QED
    BY <2>2
<1>4. CASE PauseOrResume(m)
  <2> DEFINE todo == <<"refresh">> \o Reply(m, <<"redraw">>)
  <2>1. Spawn(m, todo, 0) /\ now' = now
    BY <1>4 DEF PauseOrResume
  <2> HIDE DEF todo
  <2>2. Operated
    BY <1>4 DEF PauseOrResume, Operated, Tell
  <2>3. Begun(m, todo, 0)
    BY <1>1, <2>1, <2>2, PlannedOperation DEF todo
  <2> QED
    BY <2>3
<1>5. CASE Fails(m)
  <2> DEFINE todo == Reply(m, <<"redraw">>)
  <2>1. Spawn(m, todo, 0) /\ "operations" \in regime
    BY <1>5 DEF Fails, Fault
  <2>2. Operated
    <3>1. faults' \in 0 .. MaxFaults
      BY <1>5 DEF Fails, Fault
    <3>2. started' \in 0 .. started + 1 /\ now' \in 0 .. started' /\ upcoming' \in 0 .. Len(tasks) + 1
      BY <1>5 DEF Fails, SkipFails, StopFails
    <3>3. frozen' \in BOOLEAN /\ node' = node /\ mirror' = mirror
      BY <1>5 DEF Fails, SkipFails, StopFails
    <3>4. lingers' \in BOOLEAN
      BY <1>5 DEF Fails, SkipFails, StopFails
    <3> QED
      BY <3>1, <3>2, <3>3, <3>4 DEF Operated
  <2>3. todo = <<>> \o Reply(m, <<"redraw">>)
    <3>1. Reply(m, <<"redraw">>) \in Seq(Steps)
      <4>1. <<>> \in Seq(Steps) /\ <<"redraw">> \in Seq(Steps)
        BY EmptySeq DEF Steps
      <4> QED
        BY <4>1, Zenon DEF Reply
    <3> QED
      BY <3>1, ConcatEmptySeq
  <2> HIDE DEF todo
  <2>4. Begun(m, todo, 0)
    BY <1>1, <2>1, <2>2, <2>3, PlannedOperation
  <2> QED
    BY <2>4
<1>6. CASE Refused(m)
  <2> DEFINE todo == Reply(m, <<"redraw">>)
  <2>1. Spawn(m, todo, 0) /\ now = 0 /\ UNCHANGED player
    BY <1>6 DEF Refused
  <2>2. Operated
    BY <1>6 DEF Refused, Operated, player
  <2>3. todo = <<>> \o Reply(m, <<"redraw">>)
    <3>1. Reply(m, <<"redraw">>) \in Seq(Steps)
      <4>1. <<>> \in Seq(Steps) /\ <<"redraw">> \in Seq(Steps)
        BY EmptySeq DEF Steps
      <4> QED
        BY <4>1, Zenon DEF Reply
    <3> QED
      BY <3>1, ConcatEmptySeq
  <2> HIDE DEF todo
  <2>4. Begun(m, todo, 0)
    BY <1>1, <2>1, <2>2, <2>3, PlannedOperation
  <2> QED
    BY <2>4
<1>7. CASE m # None /\ VoteSkip(m)
  <2>1. (m = ref) \in BOOLEAN
    OBVIOUS
  <2>2. CASE UNCHANGED player /\ SpawnTask(m = ref, m, <<"refresh", "update">>, 0)
    <3>1. Operated /\ now' = now
      BY <1>7, <2>2 DEF VoteSkip, Operated, player
    <3> QED
      BY <1>1, <1>7, <2>1, <2>2, <3>1, Counted
  <2>3. CASE Advance /\ SpawnTask(m = ref, m, <<"fresh", "update">>, 0)
    <3>1. Operated
      BY <1>7, <2>3, Advanced DEF VoteSkip
    <3>2. SpawnTask(m = ref, m, <<"fresh", "update">>, 0)
      BY <2>3
    <3> QED
      BY <1>1, <1>7, <2>1, <3>1, <3>2, Counted
  <2> QED
    BY <1>7, <2>2, <2>3 DEF VoteSkip
<1>8. CASE m # None /\ VoteFails(m)
  <2>1. Operated
    <3>1. faults' \in 0 .. MaxFaults
      BY <1>8 DEF VoteFails, Fault
    <3>2. started' \in 0 .. started + 1 /\ now' \in 0 .. started' /\ upcoming' \in 0 .. Len(tasks) + 1
      BY <1>8 DEF VoteFails, SkipFails
    <3>3. frozen' \in BOOLEAN /\ node' = node /\ mirror' = mirror
      BY <1>8 DEF VoteFails, SkipFails
    <3>4. lingers' \in BOOLEAN
      BY <1>8 DEF VoteFails, SkipFails
    <3> QED
      BY <3>1, <3>2, <3>3, <3>4 DEF Operated
  <2>2. SpawnTask(FALSE, m, <<>>, 0) /\ "operations" \in regime
    BY <1>8 DEF VoteFails, Fault
  <2> QED
    BY <1>1, <1>8, <2>1, <2>2, Answered
<1>9. CASE m # None /\ Answers(m)
  <2>1. UNCHANGED <<player, faults>> /\ SpawnTask(FALSE, m, <<>>, 0)
    BY <1>9 DEF Answers
  <2>2. Operated
    BY <2>1 DEF Operated, player
  <2> QED
    BY <1>1, <1>9, <2>1, <2>2, Answered
<1> QED
  BY <1>2, <1>3, <1>4, <1>5, <1>6, <1>7, <1>8, <1>9 DEF Operation

LEMMA Operations ==
  ASSUME Types, PlayStarts \/ PlayAppends \/ NowPlaying \/ TrackEnds \/ Command \/ Press
  PROVE  \E m, todo, track : Begun(m, todo, track)
<1>1. CASE PlayStarts \/ PlayAppends \/ NowPlaying \/ TrackEnds
  BY <1>1, ChatOperations
<1>2. CASE Command
  BY <1>2, AskedOperations DEF Command, Asked
<1>3. CASE Press
  BY <1>3, AskedOperations DEF Press, Asked
<1> QED
  BY <1>1, <1>2, <1>3

-----------------------------------------------------------------------------
(* Types and plans.                                                        *)

\* r is s with its first step replaced by steps.
Replaced(s, steps, r) ==
  s \in Seq(Steps) /\ s # <<>> /\ steps \in Seq(Steps) /\ r = steps \o Tail(s)

LEMMA Spliced ==
  ASSUME NEW s, NEW steps, NEW r, Replaced(s, steps, r)
  PROVE  /\ r \in Seq(Steps) /\ Len(s) \in Nat \ {0} /\ Len(steps) \in Nat
         /\ Len(r) = Len(steps) + Len(s) - 1
         /\ \A i \in 1 .. Len(steps) : r[i] = steps[i]
         /\ \A i \in Len(steps) + 1 .. Len(r) : r[i] = s[i - Len(steps) + 1]
         /\ DOMAIN r = 1 .. Len(r) /\ DOMAIN s = 1 .. Len(s) /\ DOMAIN steps = 1 .. Len(steps)
         /\ steps = <<>> <=> Len(steps) = 0
         /\ r = <<>> <=> Len(r) = 0
<1>1. s \in Seq(Steps) /\ s # <<>> /\ steps \in Seq(Steps)
  BY DEF Replaced
<1> DEFINE q == steps \o Tail(s)
<1>2. /\ q \in Seq(Steps) /\ Len(s) \in Nat \ {0} /\ Len(steps) \in Nat
      /\ Len(q) = Len(steps) + Len(s) - 1
      /\ \A i \in 1 .. Len(steps) : q[i] = steps[i]
      /\ \A i \in Len(steps) + 1 .. Len(q) : q[i] = s[i - Len(steps) + 1]
      /\ DOMAIN q = 1 .. Len(q) /\ DOMAIN s = 1 .. Len(s)
  BY <1>1, Splice
<1>3. q = r
  BY DEF Replaced
<1> HIDE DEF q
<1>4. DOMAIN steps = 1 .. Len(steps)
  BY <1>1, LenProperties
<1>5. (steps = <<>> <=> Len(steps) = 0) /\ (q = <<>> <=> Len(q) = 0)
  BY <1>1, <1>2, EmptySeq
<1> QED
  BY <1>1, <1>2, <1>3, <1>4, <1>5

\* What occurs in a list whose first step was replaced.
LEMMA Occurring ==
  ASSUME NEW s, NEW steps, NEW r, Replaced(s, steps, r),
         NEW i \in DOMAIN r
  PROVE  (\E j \in DOMAIN steps : r[i] = steps[j]) \/ (\E j \in DOMAIN s : j > 1 /\ r[i] = s[j])
<1> DEFINE k == Len(steps)
<1>1. /\ Len(s) \in Nat \ {0} /\ k \in Nat /\ Len(r) = k + Len(s) - 1
      /\ \A j \in 1 .. k : r[j] = steps[j]
      /\ \A j \in k + 1 .. Len(r) : r[j] = s[j - k + 1]
      /\ DOMAIN r = 1 .. Len(r) /\ DOMAIN s = 1 .. Len(s) /\ DOMAIN steps = 1 .. k
  BY Spliced
<1> HIDE DEF k
<1>2. CASE i <= k
  BY <1>1, <1>2
<1>3. CASE i > k
  <2>1. i \in k + 1 .. Len(r) /\ i - k + 1 \in DOMAIN s /\ i - k + 1 > 1
    BY <1>1, <1>3
  <2> QED
    BY <1>1, <2>1
<1> QED
  BY <1>1, <1>2, <1>3

\* The list of a task after one of its steps, by its first, second and last
\* step and by what occurs in it.
LEMMA Parts ==
  ASSUME NEW s, NEW steps, NEW r, Replaced(s, steps, r)
  PROVE  /\ r \in Seq(Steps) /\ DOMAIN r = 1 .. Len(r) /\ DOMAIN s = 1 .. Len(s)
         /\ DOMAIN steps = 1 .. Len(steps)
         /\ Len(r) \in Nat /\ Len(s) \in Nat \ {0} /\ Len(steps) \in Nat
         /\ r = <<>> <=> (steps = <<>> /\ Len(s) = 1)
         /\ steps # <<>> => r[1] = steps[1]
         /\ steps = <<>> /\ r # <<>> => r[1] = s[2] /\ Len(s) > 1
         /\ Len(s) > 1 => r[Len(r)] = s[Len(s)]
         /\ Len(s) = 1 /\ steps # <<>> => r[Len(r)] = steps[Len(steps)]
         /\ \A j \in DOMAIN steps : \E i \in DOMAIN r : r[i] = steps[j]
         /\ \A j \in DOMAIN s : j > 1 => \E i \in DOMAIN r : r[i] = s[j]
         /\ Len(steps) > 1 => Len(r) > 1 /\ r[2] = steps[2]
         /\ Len(steps) = 1 /\ Len(s) > 1 => Len(r) > 1 /\ r[2] = s[2]
<1> DEFINE k == Len(steps)
<1>1. /\ r \in Seq(Steps) /\ Len(s) \in Nat \ {0} /\ k \in Nat /\ Len(r) = k + Len(s) - 1
      /\ \A i \in 1 .. k : r[i] = steps[i]
      /\ \A i \in k + 1 .. Len(r) : r[i] = s[i - k + 1]
      /\ DOMAIN r = 1 .. Len(r) /\ DOMAIN s = 1 .. Len(s) /\ DOMAIN steps = 1 .. k
      /\ r \in Seq(Steps)
  BY Spliced
<1>2. /\ steps = <<>> <=> k = 0
      /\ r = <<>> <=> Len(r) = 0
  BY Spliced
<1> HIDE DEF k
<1>3. Len(r) \in Nat /\ (r = <<>> <=> (steps = <<>> /\ Len(s) = 1))
  BY <1>1, <1>2
<1>4. steps # <<>> => r[1] = steps[1]
  BY <1>1, <1>2
<1>5. steps = <<>> /\ r # <<>> => r[1] = s[2] /\ Len(s) > 1
  BY <1>1, <1>2
<1>6. Len(s) > 1 => r[Len(r)] = s[Len(s)]
  <2> SUFFICES ASSUME Len(s) > 1 PROVE r[Len(r)] = s[Len(s)]
    OBVIOUS
  <2>1. Len(r) \in k + 1 .. Len(r) /\ Len(r) - k + 1 = Len(s)
    BY <1>1
  <2> QED
    BY <1>1, <2>1
<1>7. Len(s) = 1 /\ steps # <<>> => r[Len(r)] = steps[k]
  BY <1>1, <1>2
<1>9. \A j \in DOMAIN steps : \E i \in DOMAIN r : r[i] = steps[j]
  <2> SUFFICES ASSUME NEW j \in DOMAIN steps PROVE j \in DOMAIN r /\ r[j] = steps[j]
    OBVIOUS
  <2> QED
    BY <1>1
<1>10. ASSUME NEW j \in DOMAIN s, j > 1 PROVE \E i \in DOMAIN r : r[i] = s[j]
  <2> DEFINE i == j - 1 + k
  <2>1. i \in k + 1 .. Len(r) /\ i \in DOMAIN r /\ i - k + 1 = j
    BY <1>1, <1>10
  <2> HIDE DEF i
  <2>2. r[i] = s[i - k + 1]
    BY <1>1, <2>1
  <2> QED
    BY <2>1, <2>2
<1>11. k > 1 => Len(r) > 1 /\ r[2] = steps[2]
  BY <1>1
<1>12. k = 1 /\ Len(s) > 1 => Len(r) > 1 /\ r[2] = s[2]
  <2> SUFFICES ASSUME k = 1, Len(s) > 1 PROVE Len(r) > 1 /\ r[2] = s[2]
    OBVIOUS
  <2>1. 2 \in k + 1 .. Len(r) /\ 2 - k + 1 = 2 /\ Len(r) > 1
    BY <1>1
  <2> QED
    BY <1>1, <2>1
<1> QED
  BY <1>1, <1>3, <1>4, <1>5, <1>6, <1>7, <1>9, <1>10, <1>11, <1>12 DEF k

\* What a step is replaced by leads on to what the step leads to.
Leads(l, steps) ==
  steps # <<>> =>
    /\ \A i \in 1 .. Len(steps) - 1 : steps[i + 1] \in Next1(steps[i])
    /\ Next1(l) \subseteq Next1(steps[Len(steps)])
    /\ steps[Len(steps)] \in Open => l \in Open

LEMMA StillPlanned ==
  ASSUME NEW s, NEW steps, NEW r, Replaced(s, steps, r),
         Planned(s), Leads(s[1], steps)
  PROVE  Planned(r)
<1> DEFINE k == Len(steps)
<1>1. /\ r \in Seq(Steps) /\ Len(s) \in Nat \ {0} /\ k \in Nat /\ Len(r) = k + Len(s) - 1
      /\ \A i \in 1 .. k : r[i] = steps[i]
      /\ \A i \in k + 1 .. Len(r) : r[i] = s[i - k + 1]
  BY Spliced
<1>2. steps = <<>> <=> k = 0
  BY Spliced
<1>3. \A j \in 1 .. Len(s) - 1 : s[j + 1] \in Next1(s[j])
  BY DEF Planned
<1> HIDE DEF k
<1>4. ASSUME NEW i \in 1 .. Len(r) - 1 PROVE r[i + 1] \in Next1(r[i])
  <2>1. CASE i < k
    <3>1. i \in 1 .. k /\ i + 1 \in 1 .. k /\ i \in 1 .. k - 1 /\ steps # <<>>
      BY <1>1, <1>2, <2>1
    <3>2. steps[i + 1] \in Next1(steps[i])
      BY <3>1 DEF Leads, k
    <3> QED
      BY <1>1, <3>1, <3>2
  <2>2. CASE i = k
    <3>1. i \in 1 .. k /\ i + 1 \in k + 1 .. Len(r) /\ (i + 1) - k + 1 = 2 /\ 1 \in 1 .. Len(s) - 1
          /\ steps # <<>>
      BY <1>1, <1>2, <2>2
    <3>2. r[i] = steps[k] /\ r[i + 1] = s[2]
      BY <1>1, <2>2, <3>1
    <3>3. s[1 + 1] \in Next1(s[1])
      BY <1>3, <3>1
    <3>4. Next1(s[1]) \subseteq Next1(steps[k])
      BY <3>1 DEF Leads, k
    <3> QED
      BY <3>2, <3>3, <3>4
  <2>3. CASE i > k
    <3> DEFINE j == i - k + 1
    <3>1. i \in k + 1 .. Len(r) /\ i + 1 \in k + 1 .. Len(r) /\ (i + 1) - k + 1 = j + 1
          /\ j \in 1 .. Len(s) - 1
      BY <1>1, <2>3
    <3>2. r[i] = s[j] /\ r[i + 1] = s[j + 1]
      BY <1>1, <3>1
    <3> HIDE DEF j
    <3> QED
      BY <1>3, <3>1, <3>2
  <2> QED
    BY <1>1, <2>1, <2>2, <2>3
<1>5. ASSUME r # <<>> PROVE r[Len(r)] \notin Open
  <2>1. s[Len(s)] \notin Open
    BY DEF Planned, Replaced
  <2>2. CASE Len(s) > 1
    BY <2>1, <2>2, Parts
  <2>3. CASE Len(s) = 1
    <3>1. steps # <<>> /\ r[Len(r)] = steps[Len(steps)]
      <4>1. /\ r = <<>> <=> (steps = <<>> /\ Len(s) = 1)
            /\ Len(s) = 1 /\ steps # <<>> => r[Len(r)] = steps[Len(steps)]
        BY Parts
      <4> QED
        BY <1>5, <2>3, <4>1, Zenon
    <3>2. s[1] \notin Open
      BY <2>1, <2>3
    <3>3. steps[Len(steps)] \in Open => s[1] \in Open
      BY <3>1, Zenon DEF Leads
    <3> QED
      BY <3>1, <3>2, <3>3
  <2>4. Len(s) > 1 \/ Len(s) = 1
    <3> DEFINE n == Len(s)
    <3>1. n \in Nat \ {0}
      BY <1>1
    <3> HIDE DEF n
    <3>2. n > 1 \/ n = 1
      BY <3>1
    <3> QED
      BY <3>2 DEF n
  <2> QED
    BY <2>2, <2>3, <2>4
<1> QED
  BY <1>4, <1>5 DEF Planned

\* The lists that operations begin.
Fits(todo) == todo \in Seq(Steps) /\ Planned(todo) /\ (todo # <<>> => todo[1] \notin OnHeld)
Free(todo) == \A i \in DOMAIN todo : todo[i] \notin OnClicked

LEMMA PlansFit ==
  ASSUME NEW todo \in PlainPlans \cup PublishPlans \cup PressPlans
  PROVE  /\ Fits(todo)
         /\ todo \in PlainPlans \cup PublishPlans => Free(todo)
<1> USE DEF Fits, Free, Planned, Next1, Open, OnHeld, OnClicked, Steps
<1>1. Fits(<<>>) /\ Free(<<>>)
  BY EmptySeq
<1>2. Fits(<<"fresh">>) /\ Free(<<"fresh">>)
  OBVIOUS
<1>3. Fits(<<"refresh">>) /\ Free(<<"refresh">>)
  OBVIOUS
<1>4. Fits(<<"refresh", "update">>) /\ Free(<<"refresh", "update">>)
  OBVIOUS
<1>5. Fits(<<"fresh", "update">>) /\ Free(<<"fresh", "update">>)
  OBVIOUS
<1>6. Fits(<<"fresh", "strip", "compose", "send">>) /\ Free(<<"fresh", "strip", "compose", "send">>)
  OBVIOUS
<1>7. Fits(<<"strip", "compose", "send">>) /\ Free(<<"strip", "compose", "send">>)
  OBVIOUS
<1>8. Fits(<<"redraw">>)
  OBVIOUS
<1>9. Fits(<<"fresh", "acknowledge">>)
  OBVIOUS
<1>10. Fits(<<"fresh", "forget", "blank">>)
  OBVIOUS
<1>11. Fits(<<"refresh", "redraw">>)
  OBVIOUS
<1> USE Zenon DEF PlainPlans, PublishPlans, PressPlans
<1> HIDE DEF Fits, Free
<1>12. Fits(todo)
  BY <1>1, <1>2, <1>3, <1>4, <1>5, <1>6, <1>7, <1>8, <1>9, <1>10, <1>11
<1>13. todo \in PlainPlans \cup PublishPlans => Free(todo)
  BY <1>1, <1>2, <1>3, <1>4, <1>5, <1>6, <1>7
<1> QED
  BY <1>12, <1>13

\* The tasks after a new one was spawned.
LEMMA Spawned ==
  ASSUME Types, NEW m, NEW todo, NEW track, Begun(m, todo, track)
  PROVE  LET n == Len(tasks) + 1
         IN  /\ Len(tasks) \in Nat /\ DOMAIN tasks = 1 .. Len(tasks)
             /\ tasks' \in Seq(Task) /\ Len(tasks') = n /\ DOMAIN tasks' = 1 .. n
             /\ \A q \in DOMAIN tasks : tasks'[q] = tasks[q]
             /\ tasks'[n].todo = todo /\ tasks'[n].clicked = m /\ tasks'[n].held = None
             /\ tasks'[n].seen = Idle /\ tasks'[n].track = track /\ tasks'[n].alone = Done
             /\ Fits(todo) /\ m \in Panels
             /\ m = None => Free(todo)
             /\ tasks'[n].serves /\ m # None =>
                  todo \in PressPlans \/ (todo \in VotePlans /\ m = ref)
<1>0. PICK serves \in BOOLEAN :
        /\ SpawnTask(serves, m, todo, track)
        /\ serves /\ m # None => todo \in PressPlans \/ (todo \in VotePlans /\ m = ref)
  BY DEF Begun
<1> DEFINE n == Len(tasks) + 1
           t == [todo |-> todo, clicked |-> m, held |-> None,
                 seen |-> Idle, track |-> track, alone |-> Done, serves |-> serves]
<1>1. Len(tasks) \in Nat /\ DOMAIN tasks = 1 .. Len(tasks) /\ tasks \in Seq(Task)
  BY LenProperties DEF Types, TasksType
<1>2. m \in Panels /\ m \in Nat \cup {None}
  BY LenProperties DEF Begun, Panels, Types, PanelType
<1>3. Fits(todo) /\ (m = None => Free(todo))
  <2>1. todo \in PlainPlans \cup PublishPlans \cup PressPlans
    BY DEF Begun
  <2>2. m = None => todo \in PlainPlans \cup PublishPlans
    BY NoneIsNone DEF Begun
  <2> QED
    BY <2>1, <2>2, PlansFit
<1>4. t \in Task
  <2>1. todo \in Seq(Steps) /\ track \in 0 .. MaxTasks /\ Idle \in Faces /\ Done \in BOOLEAN
    BY <1>3, FacesAre DEF Fits, Begun, Types, Done
  <2> QED
    BY <1>2, <2>1 DEF Task
<1>5. tasks' = Append(tasks, t)
  BY <1>0 DEF SpawnTask
<1>6. /\ t.todo = todo /\ t.clicked = m /\ t.held = None
      /\ t.seen = Idle /\ t.track = track /\ t.alone = Done /\ t.serves = serves
  OBVIOUS
<1> HIDE DEF t
<1>7. /\ tasks' \in Seq(Task) /\ Len(tasks') = n /\ tasks'[n] = t
      /\ \A q \in 1 .. Len(tasks) : tasks'[q] = tasks[q]
  BY <1>1, <1>4, <1>5, AppendProperties
<1>8. DOMAIN tasks' = 1 .. n
  BY <1>7, LenProperties
<1> QED
  BY <1>0, <1>1, <1>2, <1>3, <1>6, <1>7, <1>8

LEMMA BegunTypes ==
  ASSUME Types, PlanInv, NEW m, NEW todo, NEW track, Begun(m, todo, track)
  PROVE  Types' /\ PlanInv'
<1> DEFINE n == Len(tasks) + 1
<1>1. /\ Len(tasks) \in Nat /\ DOMAIN tasks = 1 .. Len(tasks)
      /\ tasks' \in Seq(Task) /\ Len(tasks') = n /\ DOMAIN tasks' = 1 .. n
      /\ \A q \in DOMAIN tasks : tasks'[q] = tasks[q]
      /\ tasks'[n].todo = todo /\ tasks'[n].clicked = m /\ tasks'[n].held = None
      /\ Fits(todo) /\ m \in Panels
      /\ m = None => Free(todo)
  BY Spawned
<1>2. Panels' = Panels /\ UNCHANGED <<regime, messages, ref>>
  BY DEF Begun, Panels
<1>3. PlayerType'
  <2>1. started' \in 0 .. Len(tasks') /\ now' \in 0 .. started' /\ upcoming' \in 0 .. Len(tasks')
        /\ Len(tasks') <= MaxTasks
    BY <1>1, Numbers DEF Begun, Operated, Readied
  <2>2. frozen' \in BOOLEAN /\ node' \in BOOLEAN /\ mirror' \in BOOLEAN /\ lingers' \in BOOLEAN
        /\ faults' \in 0 .. MaxFaults
    BY DEF Begun, Operated
  <2>3. regime' \in Regimes
    BY <1>2 DEF Types, PlayerType
  <2> QED
    BY <2>1, <2>2, <2>3 DEF PlayerType
<1>4. PanelType'
  BY <1>2 DEF Types, PanelType
<1>5. TasksType'
  <2>1. \A q \in DOMAIN tasks : tasks'[q].clicked \in Panels /\ tasks'[q].held \in Panels
    BY <1>1 DEF Types, TasksType
  <2>2. tasks'[n].clicked \in Panels /\ tasks'[n].held \in Panels
    BY <1>1 DEF Panels
  <2>3. \A q \in DOMAIN tasks' : q \in DOMAIN tasks \/ q = n
    BY <1>1
  <2> QED
    BY <1>1, <1>2, <2>1, <2>2, <2>3 DEF TasksType
<1>6. PlanInv'
  <2>1. \A q \in DOMAIN tasks : TaskPlanned(tasks'[q])
    BY <1>1 DEF PlanInv
  <2>2. TaskPlanned(tasks'[n])
    BY <1>1 DEF TaskPlanned, Fits, Free
  <2>3. \A q \in DOMAIN tasks' : q \in DOMAIN tasks \/ q = n
    BY <1>1
  <2> QED
    BY <2>1, <2>2, <2>3 DEF PlanInv
<1> QED
  BY <1>3, <1>4, <1>5, <1>6 DEF Types

\* The task that takes a turn.
LEMMA Turning ==
  ASSUME Types, PlanInv, NEW p \in DOMAIN tasks, NEW l, NEW steps, NEW m, NEW f,
         Turn(p, l, steps, m, f)
  PROVE  /\ tasks[p] \in Task /\ tasks[p].todo \in Seq(Steps) /\ tasks[p].todo # <<>>
         /\ tasks[p].todo[1] = l /\ 1 \in DOMAIN tasks[p].todo
         /\ tasks[p].clicked \in Panels /\ tasks[p].held \in Panels
         /\ TaskPlanned(tasks[p])
         /\ l \in OnClicked => tasks[p].clicked # None
         /\ l \in OnHeld => tasks[p].held # None
<1>1. tasks[p] \in Task
  BY ElementOfSeq, LenProperties DEF Types, TasksType
<1>2. tasks[p].todo # <<>> /\ tasks[p].todo[1] = l /\ tasks[p].todo \in Seq(Steps)
  BY <1>1 DEF Turn, Moves, Task
<1>3. 1 \in DOMAIN tasks[p].todo
  BY <1>2, EmptySeq, LenProperties
<1>4. TaskPlanned(tasks[p])
  BY DEF PlanInv
<1>5. /\ l \in OnClicked => tasks[p].clicked # None
      /\ l \in OnHeld => tasks[p].held # None
  BY <1>2, <1>3, <1>4 DEF TaskPlanned
<1> QED
  BY <1>1, <1>2, <1>3, <1>4, <1>5 DEF Types, TasksType

\* The message that an editing step edits.
LEMMA Targeted ==
  ASSUME Types, PlanInv, NEW p \in DOMAIN tasks, NEW l \in Edits, NEW steps, NEW m, NEW f,
         Turn(p, l, steps, m, f)
  PROVE  /\ Target(tasks[p], l) \in DOMAIN messages
         /\ Edited(tasks[p], l) \in Message
         /\ l \in {"unbutton", "acknowledge"} =>
              Edited(tasks[p], l).buttons = FALSE
              /\ Edited(tasks[p], l).face = messages[Target(tasks[p], l)].face
<1> DEFINE t == tasks[p]
           x == Target(t, l)
<1>1. x \in DOMAIN messages
  <2>1. l \in OnHeld \/ l \in OnClicked
    BY DEF Edits, OnHeld, OnClicked
  <2> QED
    BY <2>1, Turning DEF Target, Panels
<1>2. messages[x] \in Message
  BY <1>1, ElementOfSeq, LenProperties DEF Types, PanelType
<1>3. t.seen \in Faces /\ Idle \in Faces
  BY Turning, FacesAre DEF Task, Types
<1> HIDE DEF x
<1>4. CASE l \in {"unbutton", "acknowledge"}
  <2>1. Edited(t, l) = [messages[x] EXCEPT !.buttons = FALSE]
    BY <1>4 DEF Edited, x
  <2> QED
    BY <1>1, <1>2, <2>1 DEF Message, x
<1>5. CASE l \in {"idle", "blank"}
  <2>1. Edited(t, l) = [face |-> Idle, buttons |-> FALSE]
    BY <1>5 DEF Edited
  <2> QED
    BY <1>1, <1>3, <1>5, <2>1 DEF Message, x
<1>6. CASE l \in {"render", "paint"}
  <2>1. Edited(t, l) = [face |-> t.seen, buttons |-> TRUE]
    BY <1>6 DEF Edited
  <2> QED
    BY <1>1, <1>3, <1>6, <2>1 DEF Message, x
<1> QED
  BY <1>4, <1>5, <1>6 DEF Edits

\* The messages after a turn: as they were, one edited, or one more.
SameMessages == messages' = messages
OneEdited(x, y) ==
  /\ x \in DOMAIN messages /\ messages'[x] = y
  /\ DOMAIN messages' = DOMAIN messages /\ Len(messages') = Len(messages)
  /\ \A q \in DOMAIN messages : q # x => messages'[q] = messages[q]
OneMore(y) ==
  /\ Len(messages') = Len(messages) + 1 /\ DOMAIN messages' = 1 .. Len(messages) + 1
  /\ messages'[Len(messages) + 1] = y
  /\ \A q \in DOMAIN messages : messages'[q] = messages[q]

LEMMA TurnMessages ==
  ASSUME Types, PlanInv, NEW p \in DOMAIN tasks, NEW l, NEW steps, NEW m, NEW f,
         Turn(p, l, steps, m, f)
  PROVE  /\ messages' \in Seq(Message) /\ DOMAIN messages \subseteq DOMAIN messages'
         /\ DOMAIN messages = 1 .. Len(messages) /\ Len(messages) \in Nat
         /\ \/ SameMessages
            \/ l \in Edits /\ OneEdited(Target(tasks[p], l), Edited(tasks[p], l))
            \/ l = "send" /\ OneMore([face |-> tasks[p].seen, buttons |-> TRUE])
         /\ m = Len(messages) + 1 /\ l = "send" /\ steps # <<>> =>
              OneMore([face |-> tasks[p].seen, buttons |-> TRUE])
<1> DEFINE t == tasks[p]
           new == [face |-> t.seen, buttons |-> TRUE]
<1>1. messages \in Seq(Message) /\ DOMAIN messages = 1 .. Len(messages) /\ Len(messages) \in Nat
  BY LenProperties DEF Types, PanelType
<1>2. new \in Message
  BY Turning DEF Task, Message
<1>3. ASSUME messages' = Append(messages, new)
      PROVE  messages' \in Seq(Message) /\ DOMAIN messages \subseteq DOMAIN messages' /\ OneMore(new)
  <2> HIDE DEF new
  <2>1. /\ messages' \in Seq(Message) /\ Len(messages') = Len(messages) + 1
        /\ messages'[Len(messages) + 1] = new
        /\ \A q \in 1 .. Len(messages) : messages'[q] = messages[q]
    BY <1>1, <1>2, <1>3, AppendProperties
  <2>2. DOMAIN messages' = 1 .. Len(messages) + 1
    BY <2>1, LenProperties
  <2> QED
    BY <1>1, <2>1, <2>2 DEF OneMore
<1>4. CASE Looking(t, l, steps, m, f)
  <2>1. messages' = messages
    BY <1>4 DEF Looking
  <2>2. ~(l = "send")
    BY <1>4 DEF Looking
  <2> QED
    BY <1>1, <2>1, <2>2 DEF SameMessages
<1>5. CASE Changing(t, l, steps, m, f) /\ l \in Edits
  <2>1. CASE messages' = messages
    BY <1>1, <1>5, <2>1 DEF SameMessages, Edits
  <2>2. CASE messages' # messages
    <3> DEFINE x == Target(t, l)
               y == Edited(t, l)
    <3>1. messages' = [messages EXCEPT ![x] = y]
      BY <1>5, <2>2 DEF Changing, Edits
    <3>2. x \in DOMAIN messages /\ y \in Message
      BY <1>5, Targeted
    <3> HIDE DEF x, y
    <3>3. /\ messages' \in Seq(Message) /\ Len(messages') = Len(messages) /\ messages'[x] = y
          /\ \A q \in 1 .. Len(messages) : q # x => messages'[q] = messages[q]
      BY <1>1, <3>1, <3>2, ExceptSeq
    <3>4. DOMAIN messages' = DOMAIN messages
      BY <1>1, <3>3, LenProperties
    <3>5. OneEdited(x, y)
      BY <1>1, <3>2, <3>3, <3>4 DEF OneEdited
    <3>6. l # "send"
      BY <1>5 DEF Edits
    <3> QED
      BY <1>1, <1>5, <3>3, <3>4, <3>5, <3>6 DEF x, y
  <2> QED
    BY <2>1, <2>2
<1>6. CASE Changing(t, l, steps, m, f) /\ l = "send"
  <2>1. messages' = messages \/ messages' = Append(messages, new)
    BY <1>6 DEF Changing, Edits
  <2>2. steps # <<>> => messages' = Append(messages, new)
    BY <1>6 DEF Changing, Edits
  <2> QED
    BY <1>1, <1>3, <1>6, <2>1, <2>2 DEF SameMessages
<1>7. CASE Changing(t, l, steps, m, f) /\ l \notin Edits /\ l # "send"
  <2>1. messages' = messages
    BY <1>7 DEF Changing
  <2> QED
    BY <1>1, <1>7, <2>1 DEF SameMessages
<1> QED
  BY <1>4, <1>5, <1>6, <1>7 DEF Turn

\* The steps that a step is replaced by.
LEMMA Table ==
  ASSUME NEW t, NEW l, NEW steps, NEW m, NEW f, Looking(t, l, steps, m, f) \/ Changing(t, l, steps, m, f)
  PROVE  /\ Leads(l, steps) /\ Len(steps) <= 2
         /\ \A i \in DOMAIN steps : steps[i] \in OnClicked => l \in OnClicked
<1> DEFINE Fine(a, s) == /\ Leads(a, s) /\ Len(s) <= 2
                         /\ \A i \in DOMAIN s : s[i] \in OnClicked => a \in OnClicked
<1> USE DEF Leads, Next1, Open, OnClicked
<1>1. steps = <<>> => Fine(l, steps)
  OBVIOUS
<1>2. Fine("fresh", <<"find">>) /\ Fine("refresh", <<"find">>)
  OBVIOUS
<1>3. Fine("fresh", <<"repost">>) /\ Fine("refresh", <<"update">>)
  OBVIOUS
<1>4. Fine("find", <<"forget">>) /\ Fine("update", <<"consider">>)
  OBVIOUS
<1>5. Fine("find", <<"idle", "forget">>)
  OBVIOUS
<1>6. Fine("repost", <<"strip", "send">>)
  OBVIOUS
<1>7. Fine("consider", <<"idle", "forget">>)
  OBVIOUS
<1>8. Fine("consider", <<"render">>) /\ Fine("strip", <<"unbutton">>)
  OBVIOUS
<1>9. Fine("redraw", <<"forget", "blank">>)
  OBVIOUS
<1>10. Fine("redraw", <<"paint">>) /\ Fine("send", <<"adopt">>)
  OBVIOUS
<1> HIDE DEF Fine, Leads, Next1, Open, OnClicked
<1>11. Fine(l, steps)
  BY <1>1, <1>2, <1>3, <1>4, <1>5, <1>6, <1>7, <1>8, <1>9, <1>10 DEF Looking, Changing
<1> QED
  BY <1>11 DEF Fine

\* What the task holds when it goes on.
LEMMA Holds ==
  ASSUME Types, PlanInv, NEW p \in DOMAIN tasks, NEW l, NEW steps, NEW m, NEW f,
         Turn(p, l, steps, m, f)
  PROVE  /\ Panels \subseteq Panels' /\ m \in Panels' /\ ref' \in Panels' /\ faults' \in 0 .. MaxFaults
         /\ steps # <<>> /\ steps[1] \in OnHeld => m # None
<1> DEFINE t == tasks[p]
<1>1. DOMAIN messages \subseteq DOMAIN messages' /\ DOMAIN messages = 1 .. Len(messages)
      /\ Len(messages) \in Nat
  BY TurnMessages
<1>2. Panels \subseteq Panels'
  BY <1>1 DEF Panels
<1>3. t.held \in Panels /\ ref \in Panels /\ (l \in OnHeld => t.held # None)
  BY Turning DEF Types, PanelType
<1>4. CASE Looking(t, l, steps, m, f)
  <2>1. m = t.held \/ m = ref
    BY <1>4 DEF Looking
  <2>2. ref' = ref /\ faults' = faults
    BY <1>4 DEF Looking
  <2>3. steps # <<>> /\ steps[1] \in OnHeld => m # None
    <3> SUFFICES ASSUME steps # <<>>, steps[1] \in OnHeld PROVE m # None
      OBVIOUS
    <3>1. CASE l = "consider"
      <4>1. m = t.held
        BY <1>4, <3>1 DEF Looking
      <4> QED
        BY <1>3, <3>1, <4>1 DEF OnHeld
    <3>2. CASE l # "consider"
      <4>1. \/ steps = <<"find">> \/ steps = <<"repost">> \/ steps = <<"update">> \/ steps = <<"forget">>
            \/ steps = <<"strip", "send">> \/ steps = <<"forget", "blank">> \/ steps = <<"paint">>
            \/ m # None
        BY <1>4, <3>2 DEF Looking
      <4> QED
        BY <4>1 DEF OnHeld
    <3> QED
      BY <3>1, <3>2
  <2> QED
    BY <1>2, <1>3, <2>1, <2>2, <2>3, Numbers
<1>5. CASE Changing(t, l, steps, m, f)
  <2>1. CASE m = t.held
    <3>1. steps # <<>> => l = "send" /\ m = Len(messages) + 1
      BY <1>5 DEF Changing
    <3>2. m \in Panels'
      BY <1>2, <1>3, <2>1
    <3>3. ref' = None \/ ref' = t.held \/ ref' = ref
      BY <1>5 DEF Changing
    <3>4. faults' = faults \/ Faulty
      <4>1. CASE l \in Edits
        BY <1>5, <4>1, Zenon DEF Changing, Edits
      <4>2. CASE l \notin Edits
        BY <1>5, <4>2, Zenon DEF Changing
      <4> QED
        BY <4>1, <4>2
    <3>7. Faulty => faults' \in 0 .. MaxFaults
      BY Numbers DEF Faulty
    <3>5. ref' \in Panels' /\ faults' \in 0 .. MaxFaults
      BY <1>2, <1>3, <3>3, <3>4, <3>7, Numbers DEF Panels
    <3>6. Len(messages) + 1 # None
      BY <1>1, NoneIsNoMessage
    <3> QED
      BY <1>2, <3>1, <3>2, <3>5, <3>6, Zenon
  <2>2. CASE m # t.held
    <3>1. l = "send" /\ steps = <<"adopt">> /\ m = Len(messages) + 1 /\ ref' = ref /\ faults' = faults
      BY <1>5, <2>2 DEF Changing
    <3>2. OneMore([face |-> t.seen, buttons |-> TRUE])
      <4>1. steps # <<>>
        BY <3>1
      <4>2. /\ m = Len(messages) + 1 /\ l = "send" /\ steps # <<>> =>
                 OneMore([face |-> t.seen, buttons |-> TRUE])
        BY TurnMessages
      <4> QED
        BY <3>1, <4>1, <4>2, Zenon
    <3>3. m \in DOMAIN messages' /\ m \in Nat
      BY <1>1, <3>1, <3>2 DEF OneMore
    <3> QED
      BY <1>2, <1>3, <3>1, <3>3, NoneIsNoMessage, Numbers DEF Panels
  <2> QED
    BY <2>1, <2>2
<1> QED
  BY <1>4, <1>5 DEF Turn

LEMMA TurnTypes ==
  ASSUME Types, PlanInv, NEW p \in DOMAIN tasks, NEW l, NEW steps, NEW m, NEW f,
         Turn(p, l, steps, m, f)
  PROVE  Types' /\ PlanInv'
<1> DEFINE s == tasks[p].todo
           r == tasks'[p].todo
<1>1. /\ tasks' \in Seq(Task) /\ Len(tasks') = Len(tasks) /\ DOMAIN tasks' = DOMAIN tasks
      /\ \A q \in DOMAIN tasks : q # p => tasks'[q] = tasks[q]
      /\ r = steps \o Tail(s) /\ tasks'[p].clicked = tasks[p].clicked
      /\ tasks'[p].held = (IF r = <<>> THEN None ELSE m)
      /\ UNCHANGED <<regime, player>> /\ steps \in Seq(Steps)
  BY DEF Turn, Moves
<1>2. /\ Panels \subseteq Panels' /\ m \in Panels' /\ ref' \in Panels' /\ faults' \in 0 .. MaxFaults
      /\ steps # <<>> /\ steps[1] \in OnHeld => m # None
  BY Holds
<1>3. s \in Seq(Steps) /\ s # <<>> /\ s[1] = l /\ TaskPlanned(tasks[p]) /\ 1 \in DOMAIN s
  BY Turning
<1>4. PlayerType'
  <2>1. regime' = regime /\ now' = now /\ upcoming' = upcoming /\ frozen' = frozen /\ node' = node
        /\ mirror' = mirror /\ started' = started /\ lingers' = lingers
    BY <1>1 DEF player
  <2> QED
    BY <1>1, <1>2, <2>1 DEF PlayerType, Types
<1>5. PanelType'
  BY <1>2, TurnMessages DEF PanelType
<1>6. TasksType'
  <2> SUFFICES ASSUME NEW q \in DOMAIN tasks
               PROVE  tasks'[q].clicked \in Panels' /\ tasks'[q].held \in Panels'
    BY <1>1 DEF TasksType
  <2>1. tasks[q].clicked \in Panels' /\ tasks[q].held \in Panels'
    BY <1>2 DEF Types, TasksType
  <2>2. CASE q = p
    <3>1. None \in Panels'
      BY DEF Panels
    <3> QED
      BY <1>1, <1>2, <2>1, <2>2, <3>1
  <2>3. CASE q # p
    BY <1>1, <2>1, <2>3
  <2> QED
    BY <2>2, <2>3
<1>7. PlanInv'
  <2>1. Leads(l, steps) /\ \A i \in DOMAIN steps : steps[i] \in OnClicked => l \in OnClicked
    BY Table DEF Turn
  <2>2. Planned(r)
    <3>1. Replaced(s, steps, r)
      BY <1>1, <1>3 DEF Replaced
    <3>2. Planned(s) /\ Leads(s[1], steps)
      BY <1>3, <2>1 DEF TaskPlanned
    <3> HIDE DEF r, s
    <3> QED
      BY <3>1, <3>2, StillPlanned
  <2>3. /\ \A i \in DOMAIN r : (\E j \in DOMAIN steps : r[i] = steps[j])
                                \/ (\E j \in DOMAIN s : j > 1 /\ r[i] = s[j])
        /\ steps # <<>> => r[1] = steps[1]
        /\ steps = <<>> /\ r # <<>> => r[1] = s[2] /\ Len(s) > 1
        /\ Len(s) \in Nat
    <3> HIDE DEF r, s
    <3>1. Replaced(s, steps, r)
      BY <1>1, <1>3 DEF Replaced
    <3>2. Len(s) \in Nat
      BY <3>1, Parts
    <3>3. \A i \in DOMAIN r : (\E j \in DOMAIN steps : r[i] = steps[j])
                                \/ (\E j \in DOMAIN s : j > 1 /\ r[i] = s[j])
      <4> SUFFICES ASSUME NEW i \in DOMAIN r
                   PROVE  \/ (\E j \in DOMAIN steps : r[i] = steps[j])
                          \/ (\E j \in DOMAIN s : j > 1 /\ r[i] = s[j])
        OBVIOUS
      <4> QED
        BY <3>1, Occurring
    <3>4. steps # <<>> => r[1] = steps[1]
      BY <3>1, Parts
    <3>5. steps = <<>> /\ r # <<>> => r[1] = s[2] /\ Len(s) > 1
      BY <3>1, Parts
    <3> QED
      BY <3>2, <3>3, <3>4, <3>5, Zenon
  <2>7. \A j \in DOMAIN s : s[j] \in OnClicked => tasks[p].clicked # None
    BY <1>3 DEF TaskPlanned
  <2> HIDE DEF r, s
  <2>4. ASSUME NEW i \in DOMAIN r, r[i] \in OnClicked PROVE tasks[p].clicked # None
    <3>1. CASE \E j \in DOMAIN steps : r[i] = steps[j]
      <4>1. l \in OnClicked
        BY <2>1, <2>4, <3>1
      <4> QED
        BY <4>1, Turning
    <3>2. CASE \E j \in DOMAIN s : j > 1 /\ r[i] = s[j]
      BY <2>4, <2>7, <3>2
    <3> QED
      BY <2>3, <3>1, <3>2
  <2>5. ASSUME r # <<>>, r[1] \in OnHeld PROVE m # None
    <3>1. CASE steps # <<>>
      BY <1>2, <2>3, <2>5, <3>1
    <3>2. CASE steps = <<>>
      <4>1. r[1] = s[2] /\ 1 \in 1 .. Len(s) - 1
        BY <2>3, <2>5, <3>2
      <4>2. s[1 + 1] \in Next1(s[1])
        BY <1>3, <4>1 DEF TaskPlanned, Planned, s
      <4> QED
        BY <2>5, <4>1, <4>2 DEF Next1, OnHeld
    <3> QED
      BY <3>1, <3>2
  <2>6. TaskPlanned(tasks'[p])
    BY <1>1, <2>2, <2>4, <2>5 DEF TaskPlanned, r
  <2> QED
    BY <1>1, <2>6 DEF PlanInv
<1> QED
  BY <1>4, <1>5, <1>6, <1>7 DEF Types

\* A restart leaves every task without steps.
Restarted ==
  /\ "restarts" \in regime /\ faults' \in 0 .. MaxFaults
  /\ ref' = None /\ now' = 0 /\ upcoming' = 0 /\ started' = started
  /\ frozen' = FALSE /\ node' = FALSE /\ mirror' = FALSE /\ lingers' = FALSE
  /\ UNCHANGED <<regime, messages>>
  /\ tasks' \in Seq(Task) /\ Len(tasks') = Len(tasks) /\ DOMAIN tasks' = DOMAIN tasks
  /\ \A p \in DOMAIN tasks : /\ tasks'[p].todo = <<>> /\ tasks'[p].clicked = None
                             /\ tasks'[p].held = tasks[p].held

LEMMA Restarts ==
  ASSUME Types, Restart
  PROVE  Restarted
<1> DEFINE t(p) == [tasks[p] EXCEPT !.todo = <<>>, !.clicked = None]
<1>1. tasks \in Seq(Task) /\ DOMAIN tasks = 1 .. Len(tasks) /\ Len(tasks) \in Nat
  BY LenProperties DEF Types, TasksType
<1>2. ASSUME NEW p \in DOMAIN tasks
      PROVE  t(p) \in Task /\ t(p).todo = <<>> /\ t(p).clicked = None /\ t(p).held = tasks[p].held
  <2>1. tasks[p] \in Task
    BY <1>1, <1>2, ElementOfSeq
  <2>2. <<>> \in Seq(Steps)
    BY EmptySeq
  <2> QED
    BY <2>1, <2>2 DEF Task
<1>3. tasks' = [p \in 1 .. Len(tasks) |-> t(p)]
  BY <1>1 DEF Restart
<1> HIDE DEF t
<1>4. tasks' \in Seq(Task) /\ Len(tasks') = Len(tasks)
  <2>1. \A p \in 1 .. Len(tasks) : t(p) \in Task
    BY <1>1, <1>2
  <2>2. tasks' \in [1 .. Len(tasks) -> Task]
    BY <1>3, <2>1
  <2>3. tasks' \in Seq(Task)
    BY <1>1, <2>2, SeqDef
  <2> QED
    BY <1>1, <2>2, <2>3, LenProperties
<1>5. DOMAIN tasks' = DOMAIN tasks
  BY <1>1, <1>3
<1>6. \A p \in DOMAIN tasks :
        tasks'[p].todo = <<>> /\ tasks'[p].clicked = None /\ tasks'[p].held = tasks[p].held
  <2> SUFFICES ASSUME NEW p \in DOMAIN tasks
      PROVE  tasks'[p].todo = <<>> /\ tasks'[p].clicked = None /\ tasks'[p].held = tasks[p].held
    OBVIOUS
  <2>1. tasks'[p] = t(p)
    BY <1>1, <1>3
  <2> QED
    BY <1>2, <2>1
<1>7. "restarts" \in regime /\ faults' \in 0 .. MaxFaults
  <2>1. "restarts" \in regime /\ faults < MaxFaults /\ faults' = faults + 1
    BY DEF Restart, Fault
  <2> QED
    BY <2>1, Numbers
<1>8. /\ ref' = None /\ now' = 0 /\ upcoming' = 0 /\ started' = started
      /\ frozen' = FALSE /\ node' = FALSE /\ mirror' = FALSE /\ lingers' = FALSE
      /\ UNCHANGED <<regime, messages>>
  BY DEF Restart
<1> QED
  BY <1>4, <1>5, <1>6, <1>7, <1>8 DEF Restarted

\* What a step of the guild is.
LEMMA NextIs ==
  ASSUME Types, [Next]_vars
  PROVE  \/ \E m, todo, track : Begun(m, todo, track)
         \/ \E p \in DOMAIN tasks : \E l, steps, m, f : Turn(p, l, steps, m, f)
         \/ Hear \/ Restarted \/ UNCHANGED vars
<1>1. CASE PlayStarts \/ PlayAppends \/ NowPlaying \/ TrackEnds \/ Command \/ Press
  BY <1>1, Operations
<1>2. CASE \E p \in DOMAIN tasks : Step(p)
  BY <1>2, StepTurns
<1>3. CASE Restart
  BY <1>3, Restarts
<1>4. CASE Hear \/ Rest \/ UNCHANGED vars
  BY <1>4 DEF Rest
<1>5. Next \/ UNCHANGED vars
  OBVIOUS
<1> QED
  BY <1>1, <1>2, <1>3, <1>4, <1>5, Zenon DEF Next

Typed == Types /\ PlanInv

LEMMA TypedFirst ==
  ASSUME Init
  PROVE  Typed
<1>1. tasks = <<>> /\ messages = <<>> /\ Len(<<>>) = 0 /\ DOMAIN tasks = {}
  BY DEF Init
<1>2. tasks \in Seq(Task) /\ messages \in Seq(Message)
  BY <1>1, EmptySeq
<1>3. PlayerType
  <2>1. MaxTasks \in Nat /\ MaxFaults \in Nat /\ Len(tasks) = 0
    BY <1>1, BoundsAssumption
  <2>2. started \in 0 .. Len(tasks) /\ now \in 0 .. started /\ upcoming \in 0 .. Len(tasks)
        /\ Len(tasks) <= MaxTasks /\ faults \in 0 .. MaxFaults
    BY <2>1 DEF Init
  <2>3. /\ regime \in Regimes /\ frozen \in BOOLEAN /\ node \in BOOLEAN /\ mirror \in BOOLEAN
        /\ lingers \in BOOLEAN
    BY DEF Init
  <2> QED
    BY <2>2, <2>3 DEF PlayerType
<1>4. PanelType
  BY <1>2 DEF Init, PanelType, Panels
<1> QED
  BY <1>1, <1>2, <1>3, <1>4 DEF Typed, Types, TasksType, PlanInv

LEMMA RestartedTypes ==
  ASSUME Typed, Restarted
  PROVE  Typed'
<1> USE Numbers DEF Typed
<1>1. PlayerType'
  <2>1. regime' \in Regimes
    BY DEF Restarted, Types, PlayerType
  <2>2. started' \in 0 .. Len(tasks') /\ now' \in 0 .. started' /\ upcoming' \in 0 .. Len(tasks')
        /\ Len(tasks') <= MaxTasks /\ faults' \in 0 .. MaxFaults
    BY DEF Restarted, Types, PlayerType
  <2>3. frozen' \in BOOLEAN /\ node' \in BOOLEAN /\ mirror' \in BOOLEAN /\ lingers' \in BOOLEAN
    BY DEF Restarted
  <2> QED
    BY <2>1, <2>2, <2>3 DEF PlayerType
<1>2. PanelType' /\ Panels' = Panels
  BY DEF Restarted, Types, PanelType, Panels
<1>3. TasksType'
  <2>1. \A p \in DOMAIN tasks' : tasks'[p].clicked \in Panels' /\ tasks'[p].held \in Panels'
    BY <1>2 DEF Restarted, Types, TasksType, Panels
  <2> QED
    BY <2>1 DEF Restarted, TasksType
<1>4. PlanInv'
  <2>1. Planned(<<>>) /\ DOMAIN <<>> = {}
    BY EmptySeq DEF Planned
  <2> SUFFICES ASSUME NEW p \in DOMAIN tasks' PROVE TaskPlanned(tasks'[p])
    BY DEF PlanInv
  <2>2. tasks'[p].todo = <<>>
    BY DEF Restarted
  <2> QED
    BY <2>1, <2>2 DEF TaskPlanned
<1> QED
  BY <1>1, <1>2, <1>3, <1>4 DEF Types

LEMMA TypedNext ==
  ASSUME Typed, [Next]_vars
  PROVE  Typed'
<1> USE DEF Typed
<1>1. CASE \E m, todo, track : Begun(m, todo, track)
  BY <1>1, BegunTypes
<1>2. CASE \E p \in DOMAIN tasks : \E l, steps, m, f : Turn(p, l, steps, m, f)
  <2>1. PICK p \in DOMAIN tasks : \E l, steps, m, f : Turn(p, l, steps, m, f)
    BY <1>2
  <2>2. PICK l, steps, m, f : Turn(p, l, steps, m, f)
    BY <2>1
  <2> QED
    BY <2>2, TurnTypes
<1>3. CASE Hear
  <2>1. /\ UNCHANGED <<regime, now, upcoming, frozen, node, started, lingers>>
        /\ UNCHANGED <<messages, ref, tasks, faults>>
        /\ mirror' \in BOOLEAN
    BY <1>3, Numbers DEF Hear
  <2> QED
    BY <2>1 DEF Types, PlayerType, PanelType, Panels, TasksType, PlanInv
<1>4. CASE Restarted
  BY <1>4, RestartedTypes
<1>5. CASE UNCHANGED vars
  BY <1>5 DEF vars, player, Types, PlayerType, PanelType, Panels, TasksType, PlanInv
<1> QED
  BY <1>1, <1>2, <1>3, <1>4, <1>5, NextIs

LEMMA TypedAlways == Spec => []Typed
<1>1. Init => Typed
  BY TypedFirst
<1>2. Typed /\ [Next]_vars => Typed'
  BY TypedNext
<1> QED
  BY <1>1, <1>2, PTL DEF Spec

LEMMA TypedIsTypeOK ==
  ASSUME Typed
  PROVE  TypeOK
<1> USE Numbers DEF Typed
<1>1. now \in 0 .. MaxTasks /\ upcoming \in 0 .. MaxTasks /\ started \in 0 .. MaxTasks
  BY DEF Types, PlayerType
<1>2. ref \in DOMAIN messages \cup {None} /\ messages \in Seq([face : Faces, buttons : BOOLEAN])
  BY DEF Types, PanelType, Panels, Message
<1>3. ASSUME NEW p \in DOMAIN tasks
      PROVE  /\ tasks[p] \in [todo : Seq(Steps), clicked : DOMAIN messages \cup {None},
                              held : DOMAIN messages \cup {None}, seen : Faces,
                              track : 0 .. MaxTasks, alone : BOOLEAN, serves : BOOLEAN]
             /\ At(p, "unbutton") \/ At(p, "idle") \/ At(p, "render") => tasks[p].held # None
             /\ At(p, "acknowledge") \/ At(p, "blank") \/ At(p, "paint") => tasks[p].clicked # None
  <2>1. tasks[p] \in Task /\ tasks[p].clicked \in Panels /\ tasks[p].held \in Panels
    BY ElementOfSeq, LenProperties DEF Types, TasksType
  <2>2. tasks[p].todo # <<>> =>
          tasks[p].todo[1] = Head(tasks[p].todo) /\ 1 \in DOMAIN tasks[p].todo
    BY <2>1, EmptySeq, LenProperties DEF Task
  <2>3. TaskPlanned(tasks[p])
    BY DEF PlanInv
  <2>4. /\ At(p, "unbutton") \/ At(p, "idle") \/ At(p, "render") => tasks[p].held # None
        /\ At(p, "acknowledge") \/ At(p, "blank") \/ At(p, "paint") => tasks[p].clicked # None
    BY <2>2, <2>3 DEF At, TaskPlanned, OnHeld, OnClicked
  <2>5. tasks[p] \in [todo : Seq(Steps), clicked : DOMAIN messages \cup {None},
                      held : DOMAIN messages \cup {None}, seen : Faces,
                      track : 0 .. MaxTasks, alone : BOOLEAN, serves : BOOLEAN]
    BY <2>1 DEF Task, Panels
  <2> QED
    BY <2>4, <2>5
<1>4. {frozen, node, mirror, lingers} \subseteq BOOLEAN
  OBVIOUS
<1> QED
  BY <1>1, <1>2, <1>3, <1>4 DEF TypeOK, Types, PlayerType

\* Every variable has its type, and a task that is about to edit a message
\* (editMessage, acknowledgeControl) has one: it looked the panel up or it
\* serves a press, and no step before in its list changes that.
THEOREM TypeCorrect == Spec => []TypeOK
<1>1. Typed => TypeOK
  BY TypedIsTypeOK
<1> QED
  BY <1>1, TypedAlways, PTL

-----------------------------------------------------------------------------
(* The inductive invariants, beside types and plans.                       *)

\* The player agrees with a step.
WhilePlaying == {"repost", "strip", "unbutton", "compose", "send", "adopt", "render", "paint"}
WhileIdle    == {"find", "idle", "forget", "blank"}
Agrees(l, n) == (l \in WhilePlaying => n # 0) /\ (l \in WhileIdle => n = 0)

\* One task after another: the last one is at work, and nothing starts or
\* stops to play under its steps.
OneInv ==
  Sequential =>
    \A p \in DOMAIN tasks :
      /\ tasks[p].todo # <<>> => p = Len(tasks)
      /\ \A i \in DOMAIN tasks[p].todo : Agrees(tasks[p].todo[i], now)

\* The mirror is right when answers are in time.
TellInv == "answers" \notin regime => mirror = node

\* A panel of nothing has a task that will forget it.
Clearing == {"fresh", "refresh", "find", "forget"}
Clears(p) == \E i \in DOMAIN tasks[p].todo : tasks[p].todo[i] \in Clearing
ClearInv ==
  regime \subseteq {"answers", "calls", "restarts"} /\ ref # None /\ now = 0
    => \E p \in DOMAIN tasks : Clears(p)

\* The steps of a task that redraws its message, those of one that only takes
\* its buttons, and what follows a strip that is still to come.
Refreshing == {"refresh", "find", "update", "consider", "render", "idle", "forget", "redraw", "paint"}
Renewing   == {"fresh", "find", "idle", "forget", "repost", "strip", "unbutton", "send", "adopt",
               "acknowledge"}
Kin(s) ==
  /\ (\E i \in DOMAIN s : s[i] \in {"redraw", "paint"}) => \A i \in DOMAIN s : s[i] \in Refreshing
  /\ (\E i \in DOMAIN s : s[i] = "acknowledge") => \A i \in DOMAIN s : s[i] \in Renewing
  /\ \A i \in DOMAIN s : i > 1 /\ s[i] = "strip" => i + 1 \in DOMAIN s /\ s[i + 1] = "compose"
KinInv == \A p \in DOMAIN tasks : Kin(tasks[p].todo)

\* The messages with buttons, and those that a task knows about: the guild's
\* panel, the message that it posted, or the one that was pressed.
Buttons == {m \in DOMAIN messages : messages[m].buttons}
Blanks(s) == s[1] = "blank" \/ (s[1] = "forget" /\ Len(s) > 1 /\ s[2] = "blank")
Known(t, panel) ==
  CASE Blanks(t.todo) -> {t.clicked}
    [] t.todo[1] = "adopt" -> {t.held}
    [] t.todo[1] \in {"compose", "send"} -> {}
    [] t.todo[1] = "forget" /\ ~Blanks(t.todo) -> {}
    [] OTHER -> {panel}
Orderly(t) ==
  /\ Buttons \subseteq Known(t, ref)
  /\ t.todo[1] \in {"unbutton", "idle", "consider", "render"} => t.held = ref
  /\ (\E i \in DOMAIN t.todo : t.todo[i] \in {"redraw", "paint"})
       => t.clicked = ref \/ (ref = None /\ now = 0)
ButtonsInv ==
  regime \subseteq {"answers", "operations"} =>
    /\ Done => Buttons \subseteq {ref}
    /\ \A p \in DOMAIN tasks : tasks[p].todo # <<>> => Orderly(tasks[p])

\* What the guild's panel shows, and what the steps of a task will show.
Shown == ref # None => messages[ref] = [face |-> Face, buttons |-> TRUE]
Showing(t) ==
  /\ t.todo[1] \in {"repost", "send", "render", "paint"} => t.seen = Face
  /\ t.todo[1] \in {"strip", "unbutton"} /\ t.todo[2] = "send" => t.seen = Face
  /\ (\E i \in DOMAIN t.todo : t.todo[i] = "compose") => t.track = now
  /\ t.todo[1] = "adopt" =>
       messages[t.held] = [face |-> Face, buttons |-> TRUE] /\ t.held # t.clicked
  /\ t.todo[1] = "acknowledge" => Shown /\ t.clicked # ref
  /\ t.todo[1] = "blank" => ref = None
ShowsInv ==
  regime = {} =>
    /\ Done => Shown
    /\ \A p \in DOMAIN tasks : tasks[p].todo # <<>> => Showing(tasks[p])

\* A press that has the guild to itself works on its message up to the end:
\* a control button's list ends in a step about the message, a vote works on
\* the guild's panel, which is the message or replaced it.
Last == tasks[Len(tasks)]
Honest(m) == ~messages[m].buttons \/ messages[m].face = Face
Controlled(t) ==
  t.todo # <<>> => t.todo[Len(t.todo)] \in OnClicked /\ (t.todo[1] = "paint" => t.seen = Face)
VoteSteps == {"fresh", "refresh", "find", "idle", "forget", "repost", "strip", "unbutton", "send",
              "adopt", "update", "consider", "render"}
Voted(t) ==
  /\ \A i \in DOMAIN t.todo : t.todo[i] \in VoteSteps
  /\ t.todo # <<>> =>
       /\ t.todo[1] \in {"fresh", "refresh", "find", "repost", "strip"} => ref = t.clicked
       /\ t.todo[1] \in {"unbutton", "idle", "consider", "render"} =>
            t.held = t.clicked \/ Honest(t.clicked)
       /\ t.todo[1] = "update" => ref = t.clicked \/ Honest(t.clicked)
       /\ t.todo[1] \in {"forget", "send", "adopt"} => Honest(t.clicked)
       /\ t.todo[1] = "render" => t.seen = Face
HonestInv ==
  regime \subseteq {"handlers", "operations", "restarts"} /\ tasks # <<>> /\ Last.alone =>
    /\ \A p \in DOMAIN tasks : tasks[p].todo # <<>> => p = Len(tasks)
    /\ Last.clicked # None /\ Last.serves =>
         /\ Last.todo = <<>> => Honest(Last.clicked)
         /\ Controlled(Last) \/ Voted(Last)

\* A turn once more: the task's list, and all that stays.
LEMMA TurnIs ==
  ASSUME Typed, NEW p \in DOMAIN tasks, NEW l, NEW steps, NEW m, NEW f, Turn(p, l, steps, m, f)
  PROVE  /\ Replaced(tasks[p].todo, steps, tasks'[p].todo)
         /\ tasks[p].todo # <<>> /\ tasks[p].todo[1] = l /\ 1 \in DOMAIN tasks[p].todo
         /\ tasks \in Seq(Task) /\ tasks' \in Seq(Task)
         /\ Len(tasks') = Len(tasks) /\ DOMAIN tasks' = DOMAIN tasks
         /\ \A q \in DOMAIN tasks : q # p => tasks'[q] = tasks[q]
         /\ tasks'[p].clicked = tasks[p].clicked
         /\ tasks'[p].track = tasks[p].track
         /\ tasks'[p].alone = tasks[p].alone /\ tasks'[p].serves = tasks[p].serves
         /\ tasks'[p].todo # <<>> => tasks'[p].held = m /\ tasks'[p].seen = f
         /\ regime' = regime /\ now' = now /\ mirror' = mirror /\ node' = node
         /\ UNCHANGED player /\ Face' = Face
         /\ Looking(tasks[p], l, steps, m, f) \/ Changing(tasks[p], l, steps, m, f)
<1>1. /\ tasks[p].todo \in Seq(Steps) /\ tasks[p].todo # <<>> /\ tasks[p].todo[1] = l
      /\ 1 \in DOMAIN tasks[p].todo
  BY Turning DEF Typed
<1>2. Replaced(tasks[p].todo, steps, tasks'[p].todo)
  BY <1>1 DEF Turn, Moves, Replaced
<1>3. /\ regime' = regime /\ now' = now /\ mirror' = mirror /\ node' = node
      /\ UNCHANGED player /\ Face' = Face
  BY DEF Turn, player, Face
<1>4. tasks \in Seq(Task)
  BY DEF Typed, Types, TasksType
<1>5. tasks'[p].todo # <<>> => tasks'[p].held = m /\ tasks'[p].seen = f
  BY DEF Turn, Moves
<1>6. /\ tasks' \in Seq(Task) /\ Len(tasks') = Len(tasks) /\ DOMAIN tasks' = DOMAIN tasks
      /\ \A q \in DOMAIN tasks : q # p => tasks'[q] = tasks[q]
      /\ tasks'[p].clicked = tasks[p].clicked
      /\ tasks'[p].track = tasks[p].track
      /\ tasks'[p].alone = tasks[p].alone /\ tasks'[p].serves = tasks[p].serves
  BY DEF Turn, Moves
<1> QED
  BY <1>1, <1>2, <1>3, <1>4, <1>5, <1>6 DEF Turn

\* What a step is replaced by agrees with the player, if the step does.
LEMMA StepsAgree ==
  ASSUME NEW t, NEW l, NEW steps, NEW m, NEW f,
         Looking(t, l, steps, m, f) \/ Changing(t, l, steps, m, f), Agrees(l, now), NEW j \in DOMAIN steps
  PROVE  Agrees(steps[j], now)
<1>1. CASE now = 0
  <2>1. Agrees("find", now) /\ Agrees("idle", now) /\ Agrees("forget", now) /\ Agrees("blank", now)
        /\ Agrees("update", now) /\ Agrees("consider", now)
    BY <1>1 DEF Agrees, WhilePlaying, WhileIdle
  <2>2. l \notin WhilePlaying
    BY <1>1 DEF Agrees
  <2>3. \/ steps = <<"find">> \/ steps = <<"forget">> \/ steps = <<"idle", "forget">>
        \/ steps = <<>> \/ steps = <<"consider">> \/ steps = <<"forget", "blank">>
    BY <1>1, <2>2 DEF Looking, Changing, WhilePlaying
  <2> QED
    BY <2>1, <2>3
<1>2. CASE now # 0
  <2>1. /\ Agrees("repost", now) /\ Agrees("strip", now) /\ Agrees("send", now) /\ Agrees("adopt", now)
        /\ Agrees("update", now) /\ Agrees("consider", now) /\ Agrees("render", now) /\ Agrees("unbutton", now)
        /\ Agrees("paint", now)
    BY <1>2 DEF Agrees, WhilePlaying, WhileIdle
  <2>2. l \notin WhileIdle
    BY <1>2 DEF Agrees
  <2>3. \/ steps = <<"repost">> \/ steps = <<"update">> \/ steps = <<"strip", "send">>
        \/ steps = <<>> \/ steps = <<"consider">> \/ steps = <<"render">>
        \/ steps = <<"unbutton">> \/ steps = <<"paint">> \/ steps = <<"adopt">>
    BY <1>2, <2>2 DEF Looking, Changing, WhileIdle
  <2> QED
    BY <2>1, <2>3
<1> QED
  BY <1>1, <1>2

\* A new task's steps agree with the player.
LEMMA PlansAgree ==
  ASSUME Types, NEW m, NEW todo, NEW track, Begun(m, todo, track), NEW i \in DOMAIN todo
  PROVE  Agrees(todo[i], now')
<1>1. todo[i] \notin {"repost", "unbutton", "adopt", "render", "paint", "find", "idle"}
  <2>1. todo \in PlainPlans \cup PublishPlans \cup PressPlans
    BY DEF Begun
  <2> QED
    BY <2>1 DEF PlainPlans, PublishPlans, PressPlans
<1>2. todo[i] \in {"strip", "compose", "send"} => now' # 0
  <2>1. CASE todo \in PublishPlans
    BY <2>1, NoneIsNone DEF Begun, PublishPlans, PlainPlans, PressPlans
  <2>2. CASE todo \in PlainPlans \cup PressPlans
    BY <2>2 DEF PlainPlans, PressPlans
  <2> QED
    BY <2>1, <2>2 DEF Begun
<1>3. todo[i] \in {"forget", "blank"} => now' = 0
  <2>1. CASE todo = <<"fresh", "forget", "blank">>
    BY <2>1 DEF Begun
  <2>2. CASE todo \in PlainPlans \cup PublishPlans \cup PressPlans /\ todo # <<"fresh", "forget", "blank">>
    BY <2>2 DEF PlainPlans, PublishPlans, PressPlans
  <2> QED
    BY <2>1, <2>2 DEF Begun
<1> QED
  BY <1>1, <1>2, <1>3 DEF Agrees, WhilePlaying, WhileIdle

LEMMA OneNext ==
  ASSUME Typed, OneInv, [Next]_vars
  PROVE  OneInv'
<1> USE DEF Typed
<1>1. ASSUME NEW m, NEW todo, NEW track, Begun(m, todo, track) PROVE OneInv'
  <2> SUFFICES ASSUME Sequential', NEW q \in DOMAIN tasks'
               PROVE  /\ tasks'[q].todo # <<>> => q = Len(tasks')
                      /\ \A i \in DOMAIN tasks'[q].todo : Agrees(tasks'[q].todo[i], now')
    BY DEF OneInv
  <2>1. Done
    BY <1>1 DEF Begun, Readied, Sequential
  <2> DEFINE n == Len(tasks) + 1
  <2>2. /\ DOMAIN tasks = 1 .. Len(tasks) /\ Len(tasks') = n /\ DOMAIN tasks' = 1 .. n
        /\ Len(tasks) \in Nat
        /\ \A r \in DOMAIN tasks : tasks'[r] = tasks[r]
        /\ tasks'[n].todo = todo
    BY <1>1, Spawned
  <2>3. CASE q = n
    BY <1>1, <2>2, <2>3, PlansAgree
  <2>4. CASE q # n
    <3>1. q \in DOMAIN tasks
      BY <2>2, <2>4
    <3>2. tasks'[q].todo = <<>> /\ DOMAIN <<>> = {}
      BY <2>1, <2>2, <3>1 DEF Done
    <3> QED
      BY <3>2
  <2> QED
    BY <2>3, <2>4
<1>2. ASSUME NEW p \in DOMAIN tasks, NEW l, NEW steps, NEW m, NEW f, Turn(p, l, steps, m, f)
      PROVE  OneInv'
  <2> SUFFICES ASSUME Sequential', NEW q \in DOMAIN tasks'
               PROVE  /\ tasks'[q].todo # <<>> => q = Len(tasks')
                      /\ \A i \in DOMAIN tasks'[q].todo : Agrees(tasks'[q].todo[i], now')
    BY DEF OneInv
  <2>1. /\ Replaced(tasks[p].todo, steps, tasks'[p].todo)
        /\ tasks[p].todo # <<>> /\ tasks[p].todo[1] = l /\ 1 \in DOMAIN tasks[p].todo
        /\ Len(tasks') = Len(tasks) /\ DOMAIN tasks' = DOMAIN tasks
        /\ \A r \in DOMAIN tasks : r # p => tasks'[r] = tasks[r]
        /\ regime' = regime /\ now' = now
        /\ Looking(tasks[p], l, steps, m, f) \/ Changing(tasks[p], l, steps, m, f)
    BY <1>2, TurnIs
  <2>2. \A r \in DOMAIN tasks : /\ tasks[r].todo # <<>> => r = Len(tasks)
                                /\ \A i \in DOMAIN tasks[r].todo : Agrees(tasks[r].todo[i], now)
    BY <2>1 DEF OneInv, Sequential
  <2>4. CASE q = p
    <3>1. Agrees(l, now)
      BY <2>1, <2>2
    <3> SUFFICES ASSUME NEW i \in DOMAIN tasks'[p].todo PROVE Agrees(tasks'[p].todo[i], now)
      BY <2>1, <2>2, <2>4
    <3>2. CASE \E j \in DOMAIN steps : tasks'[p].todo[i] = steps[j]
      BY <2>1, <3>1, <3>2, StepsAgree
    <3>3. CASE \E j \in DOMAIN tasks[p].todo : j > 1 /\ tasks'[p].todo[i] = tasks[p].todo[j]
      BY <2>2, <3>3
    <3> QED
      BY <2>1, <3>2, <3>3, Occurring
  <2>5. CASE q # p
    BY <2>1, <2>2, <2>5
  <2> QED
    BY <2>4, <2>5
<1>3. CASE Hear \/ UNCHANGED vars
  BY <1>3 DEF Hear, vars, player, OneInv, Sequential, Agrees
<1>4. CASE Restarted
  <2>1. \A q \in DOMAIN tasks' : tasks'[q].todo = <<>> /\ DOMAIN <<>> = {}
    BY <1>4 DEF Restarted
  <2> QED
    BY <2>1 DEF OneInv
<1> QED
  BY <1>1, <1>2, <1>3, <1>4, NextIs

LEMMA TellNext ==
  ASSUME Typed, TellInv, [Next]_vars
  PROVE  TellInv'
<1> USE DEF Typed
<1>1. ASSUME NEW m, NEW todo, NEW track, Begun(m, todo, track) PROVE TellInv'
  BY <1>1 DEF Begun, Operated, TellInv
<1>2. ASSUME NEW p \in DOMAIN tasks, NEW l, NEW steps, NEW m, NEW f, Turn(p, l, steps, m, f)
      PROVE  TellInv'
  BY <1>2, TurnIs DEF TellInv
<1>3. CASE Hear
  BY <1>3 DEF Hear, TellInv
<1>4. CASE Restarted
  BY <1>4 DEF Restarted, TellInv
<1>5. CASE UNCHANGED vars
  BY <1>5 DEF vars, player, TellInv
<1> QED
  BY <1>1, <1>2, <1>3, <1>4, <1>5, NextIs

\* A list keeps to its kind.
LEMMA KinReplaced ==
  ASSUME NEW s, NEW steps, NEW r, Replaced(s, steps, r), Kin(s), Planned(s),
         NEW t, NEW m, NEW f,
         Looking(t, s[1], steps, m, f) \/ Changing(t, s[1], steps, m, f)
  PROVE  Kin(r)
<1> DEFINE l == s[1]
<1>1. /\ DOMAIN s = 1 .. Len(s) /\ DOMAIN r = 1 .. Len(r) /\ DOMAIN steps = 1 .. Len(steps)
      /\ Len(s) \in Nat \ {0} /\ Len(steps) \in Nat /\ Len(r) = Len(steps) + Len(s) - 1
      /\ \A i \in 1 .. Len(steps) : r[i] = steps[i]
      /\ \A i \in Len(steps) + 1 .. Len(r) : r[i] = s[i - Len(steps) + 1]
  BY Spliced
<1>2. 1 \in DOMAIN s
  BY <1>1
<1>3. l = "redraw" => Len(s) = 1
  <2> SUFFICES ASSUME l = "redraw", Len(s) # 1 PROVE FALSE
    OBVIOUS
  <2>1. 1 \in 1 .. Len(s) - 1
    BY <1>1
  <2>2. s[1 + 1] \in Next1(s[1])
    BY <2>1 DEF Planned
  <2> QED
    BY <2>2 DEF Next1
<1>4. \A j \in DOMAIN steps : steps[j] \in {"redraw", "paint"} => l = "redraw" /\ steps = <<"paint">>
  <2>1. CASE Looking(t, l, steps, m, f)
    BY <2>1 DEF Looking
  <2>2. CASE Changing(t, l, steps, m, f)
    BY <2>2 DEF Changing
  <2> QED
    BY <2>1, <2>2
<1>5. \A j \in DOMAIN steps : l \in Refreshing /\ l # "redraw" => steps[j] \in Refreshing
  <2>1. CASE Looking(t, l, steps, m, f)
    BY <2>1 DEF Looking, Refreshing
  <2>2. CASE Changing(t, l, steps, m, f)
    BY <2>2 DEF Changing, Refreshing
  <2> QED
    BY <2>1, <2>2
<1>6. \A j \in DOMAIN steps : /\ steps[j] # "acknowledge"
                              /\ l \in Renewing => steps[j] \in Renewing
  <2>1. CASE Looking(t, l, steps, m, f)
    BY <2>1 DEF Looking, Renewing
  <2>2. CASE Changing(t, l, steps, m, f)
    BY <2>2 DEF Changing, Renewing
  <2> QED
    BY <2>1, <2>2
<1>7. \A j \in DOMAIN steps : j > 1 => steps[j] # "strip"
  <2>1. CASE Looking(t, l, steps, m, f)
    BY <2>1 DEF Looking
  <2>2. CASE Changing(t, l, steps, m, f)
    BY <2>2 DEF Changing
  <2> QED
    BY <2>1, <2>2
<1>8. ASSUME NEW i \in DOMAIN r, r[i] \in {"redraw", "paint"}, NEW k \in DOMAIN r
      PROVE  r[k] \in Refreshing
  <2>1. CASE l = "redraw"
    <3>1. Len(s) = 1
      BY <1>3, <2>1
    <3>2. ~\E j \in DOMAIN s : j > 1
      BY <1>1, <3>1
    <3>3. PICK j \in DOMAIN steps : r[i] = steps[j]
      BY <3>2, Occurring
    <3>4. steps = <<"paint">>
      BY <1>4, <1>8, <3>3
    <3>5. PICK h \in DOMAIN steps : r[k] = steps[h]
      BY <3>2, Occurring
    <3> QED
      BY <3>4, <3>5 DEF Refreshing
  <2>2. CASE l # "redraw"
    <3>1. PICK j \in DOMAIN s : j > 1 /\ r[i] = s[j]
      BY <1>4, <1>8, <2>2, Occurring
    <3>2. \A h \in DOMAIN s : s[h] \in Refreshing
      BY <1>8, <3>1 DEF Kin
    <3>3. CASE \E h \in DOMAIN steps : r[k] = steps[h]
      BY <1>2, <1>5, <2>2, <3>2, <3>3
    <3>4. CASE \E h \in DOMAIN s : h > 1 /\ r[k] = s[h]
      BY <3>2, <3>4
    <3> QED
      BY <3>3, <3>4, Occurring
  <2> QED
    BY <2>1, <2>2
<1>9. ASSUME NEW i \in DOMAIN r, r[i] = "acknowledge", NEW k \in DOMAIN r
      PROVE  r[k] \in Renewing
  <2>1. PICK j \in DOMAIN s : j > 1 /\ r[i] = s[j]
    BY <1>6, <1>9, Occurring
  <2>2. \A h \in DOMAIN s : s[h] \in Renewing
    BY <1>9, <2>1 DEF Kin
  <2>3. CASE \E h \in DOMAIN steps : r[k] = steps[h]
    BY <1>2, <1>6, <2>2, <2>3
  <2>4. CASE \E h \in DOMAIN s : h > 1 /\ r[k] = s[h]
    BY <2>2, <2>4
  <2> QED
    BY <2>3, <2>4, Occurring
<1>10. ASSUME NEW i \in DOMAIN r, i > 1, r[i] = "strip"
       PROVE  i + 1 \in DOMAIN r /\ r[i + 1] = "compose"
  <2> DEFINE k == Len(steps)
             j == i - k + 1
  <2>1. i > k
    <3> SUFFICES ASSUME i <= k PROVE FALSE
      BY <1>1
    <3>1. i \in DOMAIN steps /\ r[i] = steps[i]
      BY <1>1
    <3> QED
      BY <1>7, <1>10, <3>1
  <2>2. j \in DOMAIN s /\ j > 1 /\ r[i] = s[j]
    BY <1>1, <2>1
  <2>3. j + 1 \in DOMAIN s /\ s[j + 1] = "compose"
    BY <1>10, <2>2 DEF Kin
  <2>4. i + 1 \in k + 1 .. Len(r) /\ i + 1 \in DOMAIN r /\ (i + 1) - k + 1 = j + 1
    BY <1>1, <2>1, <2>3
  <2>5. r[i + 1] = s[(i + 1) - k + 1]
    BY <1>1, <2>4
  <2> QED
    BY <2>3, <2>4, <2>5
<1> QED
  BY <1>8, <1>9, <1>10 DEF Kin

LEMMA PlansKin ==
  ASSUME NEW todo \in PlainPlans \cup PublishPlans \cup PressPlans
  PROVE  Kin(todo)
<1> USE DEF Kin, Refreshing, Renewing
<1>1. Kin(<<>>) /\ Kin(<<"fresh">>) /\ Kin(<<"refresh">>)
  OBVIOUS
<1>2. Kin(<<"refresh", "update">>) /\ Kin(<<"fresh", "update">>)
  OBVIOUS
<1>3. Kin(<<"fresh", "strip", "compose", "send">>)
  OBVIOUS
<1>4. Kin(<<"strip", "compose", "send">>)
  OBVIOUS
<1>5. Kin(<<"redraw">>) /\ Kin(<<"fresh", "acknowledge">>)
  OBVIOUS
<1>6. Kin(<<"fresh", "forget", "blank">>) /\ Kin(<<"refresh", "redraw">>)
  OBVIOUS
<1> HIDE DEF Kin
<1> QED
  BY <1>1, <1>2, <1>3, <1>4, <1>5, <1>6, Zenon DEF PlainPlans, PublishPlans, PressPlans

LEMMA KinNext ==
  ASSUME Typed, KinInv, [Next]_vars
  PROVE  KinInv'
<1> USE DEF Typed
<1>1. ASSUME NEW m, NEW todo, NEW track, Begun(m, todo, track) PROVE KinInv'
  <2> DEFINE n == Len(tasks) + 1
  <2>1. /\ DOMAIN tasks = 1 .. Len(tasks) /\ DOMAIN tasks' = 1 .. n /\ Len(tasks) \in Nat
        /\ \A r \in DOMAIN tasks : tasks'[r] = tasks[r]
        /\ tasks'[n].todo = todo
    BY <1>1, Spawned
  <2>2. Kin(todo)
    BY <1>1, PlansKin DEF Begun
  <2>3. \A r \in DOMAIN tasks' : r \in DOMAIN tasks \/ r = n
    BY <2>1
  <2> QED
    BY <2>1, <2>2, <2>3 DEF KinInv
<1>2. ASSUME NEW p \in DOMAIN tasks, NEW l, NEW steps, NEW m, NEW f, Turn(p, l, steps, m, f)
      PROVE  KinInv'
  <2>1. /\ Replaced(tasks[p].todo, steps, tasks'[p].todo) /\ tasks[p].todo[1] = l
        /\ DOMAIN tasks' = DOMAIN tasks
        /\ \A r \in DOMAIN tasks : r # p => tasks'[r] = tasks[r]
        /\ Looking(tasks[p], l, steps, m, f) \/ Changing(tasks[p], l, steps, m, f)
    BY <1>2, TurnIs
  <2>2. Kin(tasks[p].todo) /\ Planned(tasks[p].todo)
    BY DEF KinInv, PlanInv, TaskPlanned
  <2>3. Kin(tasks'[p].todo)
    BY <2>1, <2>2, KinReplaced
  <2> QED
    BY <2>1, <2>3 DEF KinInv
<1>3. CASE Hear \/ UNCHANGED vars
  BY <1>3 DEF Hear, vars, KinInv
<1>4. CASE Restarted
  <2>1. Kin(<<>>)
    BY PlansKin DEF PlainPlans
  <2>2. \A q \in DOMAIN tasks' : tasks'[q].todo = <<>>
    BY <1>4 DEF Restarted
  <2> QED
    BY <2>1, <2>2 DEF KinInv
<1> QED
  BY <1>1, <1>2, <1>3, <1>4, NextIs

LEMMA ClearNext ==
  ASSUME Typed, OneInv, ClearInv, [Next]_vars
  PROVE  ClearInv'
<1> USE DEF Typed
<1>1. ASSUME NEW m, NEW todo, NEW track, Begun(m, todo, track) PROVE ClearInv'
  <2> SUFFICES ASSUME regime' \subseteq {"answers", "calls", "restarts"}, ref' # None, now' = 0
               PROVE  \E p \in DOMAIN tasks' : \E i \in DOMAIN tasks'[p].todo :
                        tasks'[p].todo[i] \in Clearing
    BY DEF ClearInv, Clears
  <2> DEFINE n == Len(tasks) + 1
  <2>1. /\ DOMAIN tasks = 1 .. Len(tasks) /\ DOMAIN tasks' = 1 .. n /\ Len(tasks) \in Nat
        /\ \A r \in DOMAIN tasks : tasks'[r] = tasks[r]
        /\ tasks'[n].todo = todo /\ Fits(todo)
    BY <1>1, Spawned
  <2>2. regime' = regime /\ ref' = ref /\ "operations" \notin regime
    BY <1>1 DEF Begun
  <2>3. CASE now = 0
    <3>1. PICK p \in DOMAIN tasks : Clears(p)
      BY <2>2, <2>3 DEF ClearInv
    <3>2. p \in DOMAIN tasks' /\ tasks'[p] = tasks[p]
      BY <2>1
    <3> QED
      BY <3>1, <3>2 DEF Clears
  <2>4. CASE now # 0
    <3>1. todo # <<>> /\ todo[1] = "fresh"
      BY <1>1, <2>2, <2>4 DEF Begun
    <3>2. 1 \in DOMAIN todo /\ n \in DOMAIN tasks'
      BY <2>1, <3>1, EmptySeq, LenProperties DEF Fits
    <3> QED
      BY <2>1, <3>1, <3>2 DEF Clearing
  <2> QED
    BY <2>3, <2>4
<1>2. ASSUME NEW p \in DOMAIN tasks, NEW l, NEW steps, NEW m, NEW f, Turn(p, l, steps, m, f)
      PROVE  ClearInv'
  <2> SUFFICES ASSUME regime' \subseteq {"answers", "calls", "restarts"}, ref' # None, now' = 0
               PROVE  \E q \in DOMAIN tasks' : \E i \in DOMAIN tasks'[q].todo :
                        tasks'[q].todo[i] \in Clearing
    BY DEF ClearInv, Clears
  <2> DEFINE s == tasks[p].todo
             r == tasks'[p].todo
  <2>1. /\ Replaced(s, steps, r) /\ s[1] = l /\ 1 \in DOMAIN s
        /\ DOMAIN tasks' = DOMAIN tasks
        /\ \A q \in DOMAIN tasks : q # p => tasks'[q] = tasks[q]
        /\ regime' = regime /\ now' = now
        /\ Looking(tasks[p], l, steps, m, f) \/ Changing(tasks[p], l, steps, m, f)
    BY <1>2, TurnIs
  <2>2. Agrees(l, now)
    BY <2>1 DEF OneInv, Sequential
  <2>3. l # "adopt"
    BY <2>1, <2>2 DEF Agrees, WhilePlaying
  <2>4. ref' = ref /\ l # "forget"
    <3>1. CASE Looking(tasks[p], l, steps, m, f)
      BY <3>1 DEF Looking
    <3>2. CASE Changing(tasks[p], l, steps, m, f)
      BY <2>3, <3>2 DEF Changing, Edits
    <3> QED
      BY <2>1, <3>1, <3>2
  <2>5. PICK q \in DOMAIN tasks : Clears(q)
    BY <2>1, <2>4 DEF ClearInv
  <2>6. PICK i \in DOMAIN tasks[q].todo : tasks[q].todo[i] \in Clearing
    BY <2>5 DEF Clears
  <2>7. CASE q # p
    BY <2>1, <2>6, <2>7
  <2>8. CASE q = p
    <3> HIDE DEF s, r
    <3>1. CASE i > 1
      <4>1. \E k \in DOMAIN r : r[k] = s[i]
        BY <2>1, <2>6, <2>8, <3>1, Parts DEF s
      <4> QED
        BY <2>1, <2>6, <2>8, <4>1 DEF s, r
    <3>2. CASE i = 1
      <4>1. l \in {"fresh", "refresh", "find"}
        BY <2>1, <2>4, <2>6, <2>8, <3>2 DEF Clearing, s
      <4>2. steps = <<"find">> \/ steps = <<"forget">> \/ steps = <<"idle", "forget">>
        <5>1. now = 0
          BY <2>1
        <5> QED
          BY <2>1, <4>1, <5>1 DEF Looking, Changing, Edits
      <4>3. \E j \in DOMAIN steps : steps[j] \in Clearing
        <5>1. 1 \in DOMAIN <<"find">> /\ 1 \in DOMAIN <<"forget">> /\ 2 \in DOMAIN <<"idle", "forget">>
          OBVIOUS
        <5> QED
          BY <4>2, <5>1 DEF Clearing
      <4>4. \E k \in DOMAIN r : r[k] \in Clearing
        BY <2>1, <4>3, Parts
      <4> QED
        BY <2>1, <4>4 DEF r
    <3>3. i = 1 \/ i > 1
      <4>1. DOMAIN s = 1 .. Len(s) /\ Len(s) \in Nat \ {0}
        BY <2>1, Spliced
      <4> QED
        BY <2>6, <2>8, <4>1 DEF s
    <3> QED
      BY <3>1, <3>2, <3>3
  <2> QED
    BY <2>7, <2>8
<1>3. CASE Hear \/ UNCHANGED vars
  BY <1>3 DEF Hear, vars, player, ClearInv, Clears
<1>4. CASE Restarted
  BY <1>4 DEF Restarted, ClearInv
<1> QED
  BY <1>1, <1>2, <1>3, <1>4, NextIs

\* What a turn changes when calls to Discord succeed.
LEMMA TurnDoes ==
  ASSUME Typed, NEW p \in DOMAIN tasks, NEW l, NEW steps, NEW m, NEW f, Turn(p, l, steps, m, f),
         "calls" \notin regime
  PROVE  /\ l \in Edits =>
              OneEdited(Target(tasks[p], l), Edited(tasks[p], l)) /\ steps = <<>>
         /\ l = "send" =>
              /\ OneMore([face |-> tasks[p].seen, buttons |-> TRUE])
              /\ steps = <<"adopt">> /\ m = Len(messages) + 1 /\ f = tasks[p].seen
         /\ l \notin Edits /\ l # "send" => messages' = messages
         /\ l \notin {"forget", "adopt"} => ref' = ref
         /\ l = "forget" => ref' = None /\ steps = <<>>
         /\ l = "adopt" => ref' = tasks[p].held /\ steps = <<>>
<1> USE DEF Typed
<1> DEFINE t == tasks[p]
<1>1. ~Faulty
  BY DEF Faulty
<1>2. messages \in Seq(Message) /\ DOMAIN messages = 1 .. Len(messages)
  BY LenProperties DEF Types, PanelType
<1>3. ASSUME l \in Edits
      PROVE  OneEdited(Target(t, l), Edited(t, l)) /\ steps = <<>> /\ ref' = ref
  <2> DEFINE x == Target(t, l)
             y == Edited(t, l)
  <2>1. messages' = [messages EXCEPT ![x] = y] /\ steps = <<>> /\ ref' = ref
    <3>1. ~Looking(t, l, steps, m, f)
      BY <1>3 DEF Looking, Edits
    <3>2. Changing(t, l, steps, m, f)
      BY <3>1 DEF Turn
    <3> QED
      BY <1>1, <1>3, <3>2 DEF Changing, Edits
  <2>2. x \in DOMAIN messages /\ y \in Message
    BY <1>3, Targeted
  <2> HIDE DEF x, y
  <2>3. /\ messages' \in Seq(Message) /\ Len(messages') = Len(messages) /\ messages'[x] = y
        /\ \A q \in 1 .. Len(messages) : q # x => messages'[q] = messages[q]
    BY <1>2, <2>1, <2>2, ExceptSeq
  <2>4. DOMAIN messages' = DOMAIN messages
    BY <1>2, <2>3, LenProperties
  <2>5. OneEdited(x, y)
    BY <1>2, <2>2, <2>3, <2>4 DEF OneEdited
  <2> QED
    BY <2>1, <2>5 DEF x, y
<1>4. ASSUME l = "send"
      PROVE  /\ OneMore([face |-> t.seen, buttons |-> TRUE]) /\ ref' = ref
             /\ steps = <<"adopt">> /\ m = Len(messages) + 1 /\ f = t.seen
  <2>1. Changing(t, l, steps, m, f)
    BY <1>4 DEF Turn, Looking
  <2>2. steps = <<"adopt">> /\ m = Len(messages) + 1 /\ f = t.seen /\ ref' = ref
    BY <1>1, <1>4, <2>1 DEF Changing, Edits
  <2>3. steps # <<>>
    BY <2>2
  <2>4. m = Len(messages) + 1 /\ l = "send" /\ steps # <<>> =>
          OneMore([face |-> t.seen, buttons |-> TRUE])
    BY TurnMessages
  <2> QED
    BY <1>4, <2>2, <2>3, <2>4, Zenon
<1>5. l \notin Edits /\ l # "send" => messages' = messages
  <2>1. CASE Looking(t, l, steps, m, f)
    BY <2>1 DEF Looking
  <2>2. CASE Changing(t, l, steps, m, f)
    BY <2>2 DEF Changing
  <2> QED
    BY <2>1, <2>2 DEF Turn
<1>6. l \notin {"forget", "adopt"} => ref' = ref
  <2>1. CASE Looking(t, l, steps, m, f)
    BY <2>1 DEF Looking
  <2>2. CASE Changing(t, l, steps, m, f)
    BY <2>2 DEF Changing
  <2> QED
    BY <2>1, <2>2 DEF Turn
<1>7. /\ l = "forget" => ref' = None /\ steps = <<>>
      /\ l = "adopt" => ref' = t.held /\ steps = <<>>
  <2>1. CASE Looking(t, l, steps, m, f)
    BY <2>1 DEF Looking
  <2>2. CASE Changing(t, l, steps, m, f)
    BY <2>2 DEF Changing, Edits
  <2> QED
    BY <2>1, <2>2 DEF Turn
<1> QED
  BY <1>3, <1>4, <1>5, <1>6, <1>7

\* The first and the last step of a list after a turn.
LEMMA Ends ==
  ASSUME Typed, NEW p \in DOMAIN tasks, NEW l, NEW steps, NEW m, NEW f, Turn(p, l, steps, m, f)
  PROVE  LET s == tasks[p].todo
             r == tasks'[p].todo
         IN  /\ r = <<>> <=> (steps = <<>> /\ Len(s) = 1)
             /\ steps # <<>> => r[1] = steps[1]
             /\ steps = <<>> /\ r # <<>> => r[1] = s[2] /\ Len(s) > 1
             /\ Len(s) > 1 => r[Len(r)] = s[Len(s)]
             /\ Len(s) = 1 \/ Len(s) > 1
             /\ Len(s) > 1 => s[2] \in Next1(l)
             /\ s[Len(s)] \notin Open /\ Len(s) \in Nat \ {0}
             /\ Len(steps) > 1 => Len(r) > 1 /\ r[2] = steps[2]
             /\ Len(steps) = 1 /\ Len(s) > 1 => Len(r) > 1 /\ r[2] = s[2]
<1> DEFINE s == tasks[p].todo
           r == tasks'[p].todo
<1>1. Replaced(s, steps, r) /\ s # <<>> /\ s[1] = l /\ Planned(s)
  BY TurnIs DEF Typed, PlanInv, TaskPlanned
<1> HIDE DEF s, r
<1>2. /\ r = <<>> <=> (steps = <<>> /\ Len(s) = 1)
      /\ steps # <<>> => r[1] = steps[1]
      /\ steps = <<>> /\ r # <<>> => r[1] = s[2] /\ Len(s) > 1
      /\ Len(s) > 1 => r[Len(r)] = s[Len(s)]
      /\ Len(steps) > 1 => Len(r) > 1 /\ r[2] = steps[2]
      /\ Len(steps) = 1 /\ Len(s) > 1 => Len(r) > 1 /\ r[2] = s[2]
      /\ Len(s) \in Nat \ {0}
  BY <1>1, Parts
<1>3. Len(s) = 1 \/ Len(s) > 1
  <2> DEFINE k == Len(s)
  <2>1. k \in Nat \ {0}
    BY <1>2
  <2> HIDE DEF k
  <2>2. k = 1 \/ k > 1
    BY <2>1
  <2> QED
    BY <2>2 DEF k
<1>4. ASSUME Len(s) > 1 PROVE s[2] \in Next1(l)
  <2>1. 1 \in 1 .. Len(s) - 1
    BY <1>2, <1>4
  <2>2. s[1 + 1] \in Next1(s[1])
    BY <1>1, <2>1 DEF Planned
  <2> QED
    BY <1>1, <2>2
<1>5. s[Len(s)] \notin Open
  BY <1>1 DEF Planned
<1> QED
  BY <1>2, <1>3, <1>4, <1>5 DEF s, r

\* A control button's task after a turn.
LEMMA ControlledTurn ==
  ASSUME Typed, NEW p \in DOMAIN tasks, NEW l, NEW steps, NEW m, NEW f, Turn(p, l, steps, m, f),
         "calls" \notin regime, tasks[p].clicked # None, Controlled(tasks[p])
  PROVE  /\ tasks'[p].todo = <<>> => Honest(tasks[p].clicked)'
         /\ Controlled(tasks[p])'
<1> USE DEF Typed
<1> DEFINE s == tasks[p].todo
           r == tasks'[p].todo
           x == tasks[p].clicked
<1>1. /\ s # <<>> /\ s[1] = l
      /\ tasks'[p].clicked = x
      /\ r # <<>> => tasks'[p].held = m /\ tasks'[p].seen = f
      /\ Face' = Face
      /\ Looking(tasks[p], l, steps, m, f) \/ Changing(tasks[p], l, steps, m, f)
  BY TurnIs
<1>2. s[Len(s)] \in OnClicked /\ (l = "paint" => tasks[p].seen = Face)
  BY <1>1 DEF Controlled
<1> HIDE DEF s, r
<1>3. ASSUME r = <<>> PROVE ~messages'[x].buttons \/ messages'[x].face = Face
  <2>1. steps = <<>> /\ Len(s) = 1
    BY <1>3, Ends DEF s, r
  <2>2. l \in OnClicked
    BY <1>1, <1>2, <2>1
  <2>3. l # "redraw"
    BY <1>1, <2>1 DEF Looking, Changing, Edits
  <2>4. l \in Edits /\ l \notin OnHeld /\ l \in {"paint", "blank", "acknowledge"}
    BY <2>2, <2>3 DEF OnClicked, Edits, OnHeld
  <2>5. OneEdited(x, Edited(tasks[p], l))
    BY <2>4, TurnDoes DEF Target
  <2>6. messages'[x] = Edited(tasks[p], l)
    BY <2>5 DEF OneEdited
  <2>7. CASE l = "paint"
    <3>1. Edited(tasks[p], l) = [face |-> tasks[p].seen, buttons |-> TRUE]
      BY <2>7 DEF Edited
    <3> QED
      BY <1>2, <2>6, <2>7, <3>1
  <2>8. CASE l = "blank"
    <3>1. Edited(tasks[p], l) = [face |-> Idle, buttons |-> FALSE]
      BY <2>8 DEF Edited
    <3> QED
      BY <2>6, <3>1
  <2>9. CASE l = "acknowledge"
    BY <2>4, <2>6, <2>9, Targeted
  <2> QED
    BY <2>4, <2>7, <2>8, <2>9
<1>4. ASSUME r # <<>>
      PROVE  r[Len(r)] \in OnClicked /\ (r[1] = "paint" => tasks'[p].seen = Face)
  <2>1. /\ steps # <<>> => r[1] = steps[1]
        /\ steps = <<>> => r[1] = s[2] /\ s[2] \in Next1(l)
        /\ Len(s) > 1 => r[Len(r)] = s[Len(s)]
        /\ Len(s) = 1 \/ Len(s) > 1
        /\ Len(s) = 1 => steps # <<>>
    BY <1>4, Ends DEF s, r
  <2>2. r[Len(r)] \in OnClicked
    <3>1. CASE Len(s) > 1
      BY <1>2, <2>1, <3>1
    <3>2. CASE Len(s) = 1
      <4>1. l \in OnClicked /\ steps # <<>>
        BY <1>1, <1>2, <2>1, <3>2
      <4>2. steps = <<"forget", "blank">> \/ steps = <<"paint">>
        BY <1>1, <4>1 DEF Looking, Changing, OnClicked
      <4>3. Replaced(s, steps, r)
        BY TurnIs DEF s, r
      <4>4. r[Len(r)] = steps[Len(steps)]
        BY <3>2, <4>1, <4>3, Parts
      <4> QED
        BY <4>2, <4>4 DEF OnClicked
    <3> QED
      BY <2>1, <3>1, <3>2
  <2>3. ASSUME r[1] = "paint" PROVE tasks'[p].seen = Face
    <3>1. CASE steps = <<>>
      BY <2>1, <2>3, <3>1 DEF Next1
    <3>2. CASE steps # <<>>
      <4>1. steps[1] = "paint"
        BY <2>1, <2>3, <3>2
      <4>2. f = Face
        BY <1>1, <3>2, <4>1 DEF Looking, Changing
      <4> QED
        BY <1>1, <1>4, <4>2 DEF r
    <3> QED
      BY <3>1, <3>2
  <2> QED
    BY <2>2, <2>3
<1> QED
  BY <1>1, <1>3, <1>4 DEF Controlled, Honest, r

\* The messages with buttons after a turn.
LEMMA ButtonsEdited ==
  ASSUME NEW x, NEW y, OneEdited(x, y)
  PROVE  /\ Buttons' \subseteq Buttons \cup {x}
         /\ y.buttons = FALSE => Buttons' \subseteq Buttons \ {x}
  BY DEF Buttons, OneEdited

LEMMA ButtonsPosted ==
  ASSUME Types, NEW y, OneMore(y)
  PROVE  Buttons' \subseteq Buttons \cup {Len(messages) + 1}
<1>1. DOMAIN messages = 1 .. Len(messages) /\ Len(messages) \in Nat
  BY LenProperties DEF Types, PanelType
<1> SUFFICES ASSUME NEW q \in DOMAIN messages', messages'[q].buttons, q # Len(messages) + 1
             PROVE  q \in DOMAIN messages /\ messages[q].buttons
  BY DEF Buttons
<1>2. q \in DOMAIN messages
  BY <1>1 DEF OneMore
<1> QED
  BY <1>2 DEF OneMore

\* The set of known messages by the first steps of a list.
Other == {"blank", "adopt", "compose", "send", "forget"}

LEMMA KnownIs ==
  ASSUME NEW t, NEW x
  PROVE  /\ t.todo[1] \notin Other => Known(t, x) = {x}
         /\ t.todo[1] = "blank" => Known(t, x) = {t.clicked}
         /\ t.todo[1] = "adopt" => Known(t, x) = {t.held}
         /\ t.todo[1] \in {"compose", "send"} => Known(t, x) = {}
         /\ t.todo[1] = "forget" /\ Len(t.todo) > 1 /\ t.todo[2] = "blank" => Known(t, x) = {t.clicked}
         /\ t.todo[1] = "forget" /\ ~(Len(t.todo) > 1 /\ t.todo[2] = "blank") => Known(t, x) = {}
  BY DEF Other, Known, Blanks

\* All that is known of a turn of an orderly task.
LEMMA OrderlyTurn ==
  ASSUME Typed, OneInv, ButtonsInv, regime \subseteq {"answers", "operations"},
         NEW p \in DOMAIN tasks, NEW l, NEW steps, NEW m, NEW f, Turn(p, l, steps, m, f)
  PROVE  LET t == tasks[p]
             s == tasks[p].todo
             r == tasks'[p].todo
         IN  /\ Orderly(t) /\ Agrees(l, now) /\ s # <<>> /\ s[1] = l /\ 1 \in DOMAIN s
             /\ Len(s) > 1 => Agrees(s[2], now) /\ s[2] \in Next1(l) /\ 2 \in DOMAIN s
             /\ r = <<>> <=> (steps = <<>> /\ Len(s) = 1)
             /\ steps # <<>> => r[1] = steps[1]
             /\ steps = <<>> /\ r # <<>> => r[1] = s[2] /\ Len(s) > 1
             /\ Len(steps) > 1 => Len(r) > 1 /\ r[2] = steps[2]
             /\ tasks'[p].clicked = t.clicked /\ tasks'[p].track = t.track
             /\ r # <<>> => tasks'[p].held = m /\ tasks'[p].seen = f
<1>1. /\ tasks[p].todo # <<>> /\ tasks[p].todo[1] = l /\ 1 \in DOMAIN tasks[p].todo
      /\ tasks'[p].clicked = tasks[p].clicked /\ tasks'[p].track = tasks[p].track
      /\ tasks'[p].todo # <<>> => tasks'[p].held = m /\ tasks'[p].seen = f
      /\ Replaced(tasks[p].todo, steps, tasks'[p].todo)
  BY TurnIs
<1>2. Orderly(tasks[p])
  BY <1>1 DEF ButtonsInv
<1>3. Len(tasks[p].todo) > 1 => 2 \in DOMAIN tasks[p].todo
  BY <1>1, Spliced
<1>4. \A i \in DOMAIN tasks[p].todo : Agrees(tasks[p].todo[i], now)
  BY DEF OneInv, Sequential
<1>5. LET s == tasks[p].todo
          r == tasks'[p].todo
      IN  /\ r = <<>> <=> (steps = <<>> /\ Len(s) = 1)
          /\ steps # <<>> => r[1] = steps[1]
          /\ steps = <<>> /\ r # <<>> => r[1] = s[2] /\ Len(s) > 1
          /\ Len(steps) > 1 => Len(r) > 1 /\ r[2] = steps[2]
          /\ Len(s) > 1 => s[2] \in Next1(l)
  BY Ends
<1> QED
  BY <1>1, <1>2, <1>3, <1>4, <1>5

\* The head of the list after a turn, and the locals it is left with.
LEMMA TurnHeads ==
  ASSUME Typed, NEW p \in DOMAIN tasks, NEW l, NEW steps, NEW m, NEW f, Turn(p, l, steps, m, f),
         "calls" \notin regime
  PROVE  LET t == tasks[p]
             r == tasks'[p].todo
         IN  /\ l \in {"fresh", "refresh"} /\ now = 0 => r # <<>> /\ r[1] = "find"
             /\ l = "fresh" /\ now # 0 => r # <<>> /\ r[1] = "repost" /\ f = Face
             /\ l = "refresh" /\ now # 0 => r # <<>> /\ r[1] = "update"
             /\ l = "find" =>
                  m = ref /\ r # <<>> /\ r[1] = IF ref = None THEN "forget" ELSE "idle"
             /\ l = "repost" => IF ref = None THEN steps = <<>>
                                ELSE r # <<>> /\ r[1] = "strip" /\ r[2] = "send" /\ f = t.seen
             /\ l = "update" => IF ref = None THEN steps = <<>>
                                ELSE r # <<>> /\ r[1] = "consider" /\ m = ref
             /\ l = "consider" =>
                  m = t.held /\ f = Face /\ r # <<>> /\ r[1] = IF now = 0 THEN "idle" ELSE "render"
             /\ l = "strip" => IF ref = None THEN steps = <<>> /\ f = t.seen
                               ELSE r # <<>> /\ r[1] = "unbutton" /\ m = ref /\ f = t.seen
             /\ l = "compose" => steps = <<>> /\ f = [Face EXCEPT !.now = t.track]
             /\ l = "redraw" =>
                  r # <<>> /\ IF now = 0 THEN r[1] = "forget" /\ Len(r) > 1 /\ r[2] = "blank"
                                         ELSE r[1] = "paint" /\ f = Face
             /\ l \in {"forget", "adopt"} \cup Edits => steps = <<>> /\ m = t.held /\ f = t.seen
             /\ l = "send" => r # <<>> /\ r[1] = "adopt" /\ m = Len(messages) + 1
<1> DEFINE t == tasks[p]
           r == tasks'[p].todo
<1>1. /\ steps # <<>> => r # <<>> /\ r[1] = steps[1]
      /\ Len(steps) > 1 => Len(r) > 1 /\ r[2] = steps[2]
  BY Ends
<1>2. Looking(t, l, steps, m, f) \/ Changing(t, l, steps, m, f)
  BY TurnIs
<1> HIDE DEF t, r
<1>3. ASSUME NEW a, steps = <<a>> PROVE r # <<>> /\ r[1] = a
  BY <1>1, <1>3
<1>4. ASSUME NEW a, NEW b, steps = <<a, b>>
      PROVE  r # <<>> /\ r[1] = a /\ Len(r) > 1 /\ r[2] = b
  BY <1>1, <1>4
<1>5. CASE Looking(t, l, steps, m, f)
  <2>1. l \notin {"forget", "adopt", "send"} \cup Edits
    BY <1>5 DEF Looking, Edits
  <2>2. CASE l \in {"fresh", "refresh"}
    <3>1. \/ now = 0 /\ steps = <<"find">> 
          \/ now # 0 /\ l = "fresh" /\ steps = <<"repost">> /\ f = Face
          \/ now # 0 /\ l = "refresh" /\ steps = <<"update">>
      BY <1>5, <2>2 DEF Looking
    <3> QED
      BY <1>3, <2>1, <2>2, <3>1 DEF t, r
  <2>3. CASE l \in {"find", "consider"}
    <3>1. \/ l = "find" /\ ref = None /\ steps = <<"forget">> /\ m = ref
          \/ l = "find" /\ ref # None /\ steps = <<"idle", "forget">> /\ m = ref
          \/ l = "consider" /\ now = 0 /\ steps = <<"idle", "forget">> /\ m = t.held /\ f = Face
          \/ l = "consider" /\ now # 0 /\ steps = <<"render">> /\ m = t.held /\ f = Face
      BY <1>5, <2>3 DEF Looking
    <3> QED
      BY <1>3, <1>4, <2>1, <2>3, <3>1 DEF t, r
  <2>4. CASE l \in {"repost", "update", "strip"}
    <3>1. \/ ref = None /\ steps = <<>> /\ (l = "strip" => f = t.seen)
          \/ l = "repost" /\ ref # None /\ steps = <<"strip", "send">> /\ f = t.seen
          \/ l = "update" /\ ref # None /\ steps = <<"consider">> /\ m = ref
          \/ l = "strip" /\ ref # None /\ steps = <<"unbutton">> /\ m = ref /\ f = t.seen
      BY <1>5, <2>4 DEF Looking
    <3> QED
      BY <1>3, <1>4, <2>1, <2>4, <3>1 DEF t, r
  <2>5. CASE l \in {"compose", "redraw"}
    <3>1. \/ l = "compose" /\ steps = <<>> /\ f = [Face EXCEPT !.now = t.track]
          \/ l = "redraw" /\ now = 0 /\ steps = <<"forget", "blank">>
          \/ l = "redraw" /\ now # 0 /\ steps = <<"paint">> /\ f = Face
      BY <1>5, <2>5 DEF Looking
    <3> QED
      BY <1>3, <1>4, <2>1, <2>5, <3>1 DEF t, r
  <2>6. l \in {"fresh", "refresh", "find", "consider", "repost", "update", "strip", "compose", "redraw"}
    BY <1>5 DEF Looking
  <2> QED
    BY <2>2, <2>3, <2>4, <2>5, <2>6
<1>6. CASE Changing(t, l, steps, m, f)
  <2>1. l \in {"forget", "adopt"} \cup Edits => steps = <<>> /\ m = t.held /\ f = t.seen
    BY <1>6 DEF Changing, Edits
  <2>2. l = "send" => steps = <<"adopt">> /\ m = Len(messages) + 1
    BY <1>6 DEF Changing, Edits, Faulty
  <2>3. l \in {"forget", "adopt", "send"} \cup Edits
    BY <1>6 DEF Changing
  <2>4. l = "send" => r # <<>> /\ r[1] = "adopt"
    BY <1>3, <2>2
  <2> QED
    BY <2>1, <2>2, <2>3, <2>4 DEF Edits, t, r
<1> QED
  BY <1>2, <1>5, <1>6

\* A vote's task after a turn.
LEMMA VotedTurn ==
  ASSUME Typed, NEW p \in DOMAIN tasks, NEW l, NEW steps, NEW m, NEW f, Turn(p, l, steps, m, f),
         "calls" \notin regime, tasks[p].clicked # None, Voted(tasks[p]), Kin(tasks[p].todo)
  PROVE  /\ tasks'[p].todo = <<>> => Honest(tasks[p].clicked)'
         /\ Voted(tasks[p])'
<1> USE DEF Typed
<1> DEFINE t == tasks[p]
           s == tasks[p].todo
           r == tasks'[p].todo
           x == tasks[p].clicked
           Good == ~messages'[x].buttons \/ messages'[x].face = Face
<1>1. /\ s # <<>> /\ s[1] = l /\ 1 \in DOMAIN s /\ Replaced(s, steps, r)
      /\ tasks'[p].clicked = x
      /\ r # <<>> => tasks'[p].held = m /\ tasks'[p].seen = f
      /\ Face' = Face
      /\ Looking(t, l, steps, m, f) \/ Changing(t, l, steps, m, f)
      /\ s \in Seq(Steps)
  BY TurnIs, Turning
<1>2. x \in DOMAIN messages /\ DOMAIN messages = 1 .. Len(messages) /\ Len(messages) \in Nat
  BY LenProperties DEF Types, TasksType, PanelType, Panels
<1>3. /\ l \in VoteSteps
      /\ l \in {"fresh", "refresh", "find", "repost", "strip"} => ref = x
      /\ l \in {"unbutton", "idle", "consider", "render"} => t.held = x \/ Honest(x)
      /\ l = "update" => ref = x \/ Honest(x)
      /\ l \in {"forget", "send", "adopt"} => Honest(x)
      /\ l = "render" => t.seen = Face
  BY <1>1 DEF Voted
<1>4. ref = x => ref # None
  OBVIOUS
\* What the step does to the message.
<1>5. messages' = messages /\ Honest(x) => Good
  BY DEF Honest
<1>6. ASSUME l \in {"unbutton", "idle", "render"} PROVE Good
  <2>1. l \in Edits /\ Target(t, l) = t.held
    BY <1>6 DEF Edits, Target, OnHeld
  <2>2. OneEdited(t.held, Edited(t, l))
    BY <2>1, TurnDoes
  <2>3. CASE t.held = x
    <3>1. messages'[x] = Edited(t, l)
      BY <2>2, <2>3 DEF OneEdited
    <3>2. CASE l = "unbutton"
      <4>1. Edited(t, l).buttons = FALSE
        BY <2>1, <3>2, Targeted
      <4> QED
        BY <3>1, <4>1
    <3>3. CASE l = "idle"
      <4>1. Edited(t, l) = [face |-> Idle, buttons |-> FALSE]
        BY <3>3 DEF Edited
      <4> QED
        BY <3>1, <4>1
    <3>4. CASE l = "render"
      <4>1. Edited(t, l) = [face |-> Face, buttons |-> TRUE]
        BY <1>3, <3>4 DEF Edited
      <4> QED
        BY <3>1, <4>1
    <3> QED
      BY <1>6, <3>2, <3>3, <3>4
  <2>4. CASE t.held # x
    <3>1. messages'[x] = messages[x] /\ Honest(x)
      BY <1>2, <1>3, <1>6, <2>2, <2>4 DEF OneEdited
    <3> QED
      BY <3>1 DEF Honest
  <2> QED
    BY <2>3, <2>4
<1>7. ASSUME l = "send" PROVE Good
  <2>1. OneMore([face |-> t.seen, buttons |-> TRUE])
    BY <1>7, TurnDoes
  <2>2. messages'[x] = messages[x] /\ Honest(x)
    BY <1>2, <1>3, <1>7, <2>1 DEF OneMore
  <2> QED
    BY <2>2 DEF Honest
<1>8. ASSUME l \in {"forget", "adopt"} PROVE Good
  <2>1. messages' = messages
    BY <1>8, TurnDoes DEF Edits
  <2> QED
    BY <1>3, <1>5, <1>8, <2>1
<1>9. /\ l \notin {"unbutton", "idle", "render", "send"} => messages' = messages
      /\ l \notin {"forget", "adopt"} => ref' = ref
  BY <1>3, TurnDoes DEF Edits, VoteSteps
\* The list of steps after it.
<1>10. /\ r = <<>> <=> (steps = <<>> /\ Len(s) = 1)
       /\ steps # <<>> => r # <<>> /\ r[1] = steps[1]
       /\ steps = <<>> /\ r # <<>> => r[1] = s[2] /\ Len(s) > 1 /\ s[2] \in Next1(l)
  <2>1. steps # <<>> => r # <<>>
    BY Ends
  <2> QED
    BY <2>1, Ends
<1>11. \A j \in DOMAIN s : s[j] \in VoteSteps
  BY DEF Voted
<1> HIDE DEF s, r, Good
<1>12. \A j \in DOMAIN steps : steps[j] \in VoteSteps
  <2>1. CASE Looking(t, l, steps, m, f)
    BY <1>3, <2>1 DEF Looking, VoteSteps
  <2>2. CASE Changing(t, l, steps, m, f)
    BY <2>2 DEF Changing, VoteSteps
  <2> QED
    BY <1>1, <2>1, <2>2
<1>13. \A i \in DOMAIN r : r[i] \in VoteSteps
  <2> SUFFICES ASSUME NEW i \in DOMAIN r PROVE r[i] \in VoteSteps
    OBVIOUS
  <2>1. (\E j \in DOMAIN steps : r[i] = steps[j]) \/ (\E j \in DOMAIN s : j > 1 /\ r[i] = s[j])
    BY <1>1, Occurring
  <2> QED
    BY <1>11, <1>12, <2>1
<1>14. ASSUME steps = <<>>, r # <<>> PROVE r[1] \in {"update", "forget", "send"}
  <2>1. /\ r[1] = s[2] /\ Len(s) > 1 /\ s[2] \in Next1(l)
        /\ DOMAIN s = 1 .. Len(s) /\ Len(s) \in Nat
    BY <1>1, <1>10, <1>14, LenProperties
  <2>2. 2 \in DOMAIN s
    BY <2>1
  <2>3. s[2] \in VoteSteps
    BY <1>11, <2>2
  <2>4. s[2] # "strip"
    <3> SUFFICES ASSUME s[2] = "strip" PROVE FALSE
      OBVIOUS
    <3>1. 2 + 1 \in DOMAIN s /\ s[2 + 1] = "compose"
      BY <2>2 DEF Kin, s
    <3>2. s[2 + 1] \in VoteSteps
      BY <1>11, <3>1
    <3> QED
      BY <3>1, <3>2 DEF VoteSteps
  <2>5. l \notin {"compose", "redraw", "paint", "blank", "acknowledge"}
    BY <1>3 DEF VoteSteps
  <2> QED
    BY <2>1, <2>3, <2>4, <2>5 DEF Next1, VoteSteps
<1>15. ASSUME steps = <<>> PROVE Good
  <2>1. l \in {"unbutton", "idle", "render", "send", "forget", "adopt"}
          \/ (l = "update" /\ ref = None)
    <3>1. CASE Looking(t, l, steps, m, f)
      BY <1>3, <1>4, <1>15, <3>1 DEF Looking, VoteSteps
    <3>2. CASE Changing(t, l, steps, m, f)
      BY <1>3, <3>2 DEF Changing, Edits, VoteSteps
    <3> QED
      BY <1>1, <3>1, <3>2
  <2>2. CASE l = "update" /\ ref = None
    BY <1>3, <1>4, <1>5, <1>9, <2>2
  <2> QED
    BY <1>6, <1>7, <1>8, <2>1, <2>2
\* What holds for the step that comes first now.
<1>16. ASSUME r # <<>>
       PROVE  /\ r[1] \in {"fresh", "refresh", "find", "repost", "strip"} => ref' = x
              /\ r[1] \in {"unbutton", "idle", "consider", "render"} => m = x \/ Good
              /\ r[1] = "update" => ref' = x \/ Good
              /\ r[1] \in {"forget", "send", "adopt"} => Good
              /\ r[1] = "render" => f = Face
  <2>1. CASE steps = <<>>
    BY <1>14, <1>15, <1>16, <2>1
  <2>2. CASE steps # <<>>
    <3>1. r[1] = steps[1]
      BY <1>10, <2>2
    <3>2. CASE l \in {"fresh", "refresh"}
      <4>1. steps[1] \in {"find", "repost", "update"}
        BY <1>1, <3>2 DEF Looking, Changing, Edits
      <4> QED
        BY <1>3, <1>9, <3>1, <3>2, <4>1
    <3>3. CASE l = "find"
      <4>1. steps[1] = "idle" /\ m = ref
        BY <1>1, <1>3, <1>4, <3>3 DEF Looking, Changing, Edits
      <4> QED
        BY <1>3, <3>1, <3>3, <4>1
    <3>4. CASE l = "repost"
      <4>1. steps[1] = "strip"
        BY <1>1, <2>2, <3>4 DEF Looking, Changing, Edits
      <4> QED
        BY <1>3, <1>9, <3>1, <3>4, <4>1
    <3>5. CASE l = "strip"
      <4>1. steps[1] = "unbutton" /\ m = ref
        BY <1>1, <2>2, <3>5 DEF Looking, Changing, Edits
      <4> QED
        BY <1>3, <3>1, <3>5, <4>1
    <3>6. CASE l = "update"
      <4>1. steps[1] = "consider" /\ m = ref
        BY <1>1, <2>2, <3>6 DEF Looking, Changing, Edits
      <4> QED
        BY <1>3, <1>5, <1>9, <3>1, <3>6, <4>1
    <3>7. CASE l = "consider"
      <4>1. steps[1] \in {"idle", "render"} /\ m = t.held /\ f = Face
        BY <1>1, <3>7 DEF Looking, Changing, Edits
      <4> QED
        BY <1>3, <1>5, <1>9, <3>1, <3>7, <4>1
    <3>8. CASE l = "send"
      <4>1. steps[1] = "adopt"
        BY <1>1, <2>2, <3>8 DEF Looking, Changing, Edits
      <4> QED
        BY <1>7, <3>1, <3>8, <4>1
    <3>9. l \notin {"unbutton", "idle", "render", "forget", "adopt"}
      BY <1>1, <2>2 DEF Looking, Changing, Edits
    <3> QED
      BY <1>3, <3>2, <3>3, <3>4, <3>5, <3>6, <3>7, <3>8, <3>9 DEF VoteSteps
  <2> QED
    BY <2>1, <2>2
<1>17. r = <<>> => Good
  BY <1>10, <1>15
<1>18. Good <=> Honest(x)'
  BY <1>1 DEF Good, Honest
<1>19. Voted(tasks[p])'
  BY <1>1, <1>13, <1>16, <1>18 DEF Voted, r
<1> QED
  BY <1>17, <1>18, <1>19 DEF r

LEMMA HonestNext ==
  ASSUME Typed, TellInv, KinInv, HonestInv, [Next]_vars
  PROVE  HonestInv'
<1> USE DEF Typed
<1>1. ASSUME NEW m, NEW todo, NEW track, Begun(m, todo, track) PROVE HonestInv'
  <2> DEFINE n == Len(tasks) + 1
  <2>1. /\ DOMAIN tasks = 1 .. Len(tasks) /\ DOMAIN tasks' = 1 .. n /\ Len(tasks) \in Nat
        /\ Len(tasks') = n
        /\ \A r \in DOMAIN tasks : tasks'[r] = tasks[r]
        /\ tasks'[n].todo = todo /\ tasks'[n].clicked = m /\ tasks'[n].alone = Done
        /\ tasks'[n].serves /\ m # None =>
             todo \in PressPlans \/ (todo \in VotePlans /\ m = ref)
    BY <1>1, Spawned
  <2>2. Last' = tasks'[n] /\ ref' = ref
    BY <1>1, <2>1 DEF Last, Begun
  <2> SUFFICES ASSUME Done
      PROVE  /\ \A p \in DOMAIN tasks' : tasks'[p].todo # <<>> => p = n
             /\ m # None /\ tasks'[n].serves =>
                  todo # <<>> /\ (Controlled(Last)' \/ Voted(Last)')
    BY <2>1, <2>2 DEF HonestInv
  <2>3. \A p \in DOMAIN tasks' : tasks'[p].todo # <<>> => p = n
    <3> SUFFICES ASSUME NEW p \in DOMAIN tasks', p # n PROVE tasks'[p].todo = <<>>
      OBVIOUS
    <3>1. p \in DOMAIN tasks
      BY <2>1
    <3> QED
      BY <2>1, <3>1 DEF Done
  <2>4. ASSUME todo \in PressPlans PROVE todo # <<>> /\ Controlled(Last)'
    <3> DEFINE Serves(t) == t # <<>> /\ t[Len(t)] \in OnClicked /\ t[1] # "paint"
    <3>1. Serves(<<"redraw">>) /\ Serves(<<"fresh", "acknowledge">>)
      BY DEF OnClicked
    <3>2. Serves(<<"fresh", "forget", "blank">>) /\ Serves(<<"refresh", "redraw">>)
      BY DEF OnClicked
    <3> HIDE DEF Serves
    <3>3. Serves(todo)
      BY <2>4, <3>1, <3>2, Zenon DEF PressPlans
    <3>4. todo # <<>> /\ todo[Len(todo)] \in OnClicked /\ todo[1] # "paint"
      BY <3>3 DEF Serves
    <3> QED
      BY <2>1, <2>2, <3>4 DEF Controlled
  <2>5. ASSUME todo \in VotePlans, m = ref PROVE todo # <<>> /\ Voted(Last)'
    <3>1. /\ todo # <<>> /\ todo[1] \in {"fresh", "refresh"}
          /\ \A i \in DOMAIN todo : todo[i] \in VoteSteps
      BY <2>5 DEF VotePlans, VoteSteps
    <3> QED
      BY <2>1, <2>2, <2>5, <3>1 DEF Voted
  <2> QED
    BY <2>1, <2>3, <2>4, <2>5
<1>2. ASSUME NEW p \in DOMAIN tasks, NEW l, NEW steps, NEW m, NEW f, Turn(p, l, steps, m, f)
      PROVE  HonestInv'
  <2> DEFINE n == Len(tasks)
  <2>1. /\ tasks[p].todo # <<>>
        /\ tasks \in Seq(Task)
        /\ Len(tasks') = n /\ DOMAIN tasks' = DOMAIN tasks
        /\ \A q \in DOMAIN tasks : q # p => tasks'[q] = tasks[q]
        /\ tasks'[p].clicked = tasks[p].clicked
        /\ tasks'[p].alone = tasks[p].alone /\ tasks'[p].serves = tasks[p].serves
        /\ regime' = regime
    BY <1>2, TurnIs
  <2>2. tasks # <<>> /\ n \in DOMAIN tasks /\ n \in Nat
    BY <2>1, EmptySeq, LenProperties
  <2> SUFFICES ASSUME regime \subseteq {"handlers", "operations", "restarts"}, tasks'[n].alone
      PROVE  /\ \A q \in DOMAIN tasks' : tasks'[q].todo # <<>> => q = n
             /\ tasks'[n].clicked # None /\ tasks'[n].serves =>
                  /\ tasks'[n].todo = <<>> => Honest(tasks[n].clicked)'
                  /\ Controlled(tasks[n])' \/ Voted(tasks[n])'
    BY <2>1 DEF HonestInv, Last
  <2>3. tasks[n].alone
    BY <2>1, <2>2
  <2>4. /\ \A q \in DOMAIN tasks : tasks[q].todo # <<>> => q = n
        /\ tasks[n].clicked # None /\ tasks[n].serves => Controlled(tasks[n]) \/ Voted(tasks[n])
    BY <2>2, <2>3 DEF HonestInv, Last
  <2>5. p = n
    BY <2>1, <2>4
  <2>6. "calls" \notin regime
    OBVIOUS
  <2>7. \A q \in DOMAIN tasks' : tasks'[q].todo # <<>> => q = n
    BY <2>1, <2>4, <2>5
  <2>8. ASSUME tasks[p].clicked # None, tasks[p].serves
        PROVE  /\ tasks'[p].todo = <<>> => Honest(tasks[p].clicked)'
               /\ Controlled(tasks[p])' \/ Voted(tasks[p])'
    <3>1. CASE Controlled(tasks[p])
      BY <1>2, <2>6, <2>8, <3>1, ControlledTurn
    <3>2. CASE Voted(tasks[p])
      <4>1. Kin(tasks[p].todo)
        BY DEF KinInv
      <4> QED
        BY <1>2, <2>6, <2>8, <3>2, <4>1, VotedTurn
    <3> QED
      BY <2>4, <2>5, <2>8, <3>1, <3>2
  <2> QED
    BY <2>1, <2>5, <2>7, <2>8
<1>3. CASE Hear
  <2> SUFFICES ASSUME "answers" \notin regime PROVE FALSE
    BY <1>3 DEF Hear, HonestInv
  <2> QED
    BY <1>3 DEF Hear, TellInv
<1>4. CASE UNCHANGED vars
  BY <1>4 DEF vars, player, HonestInv, Last, Controlled, Voted, Honest, Face
<1>5. CASE Restarted
  <2>1. tasks' \in Seq(Task) /\ tasks' # <<>> => Len(tasks') \in DOMAIN tasks'
    BY EmptySeq, LenProperties
  <2>2. \A q \in DOMAIN tasks' : tasks'[q].todo = <<>> /\ tasks'[q].clicked = None
    BY <1>5 DEF Restarted
  <2> QED
    BY <1>5, <2>1, <2>2 DEF Restarted, HonestInv, Last
<1> QED
  BY <1>1, <1>2, <1>3, <1>4, <1>5, NextIs

\* The messages with buttons are known to the task after its turn.
LEMMA KnownNext ==
  ASSUME Typed, OneInv, ButtonsInv, regime \subseteq {"answers", "operations"},
         NEW p \in DOMAIN tasks, NEW l, NEW steps, NEW m, NEW f, Turn(p, l, steps, m, f)
  PROVE  /\ tasks'[p].todo = <<>> => Buttons' \subseteq {ref'}
         /\ tasks'[p].todo # <<>> => Buttons' \subseteq Known(tasks'[p], ref')
<1> DEFINE t == tasks[p]
           s == tasks[p].todo
           r == tasks'[p].todo
           K == Known(tasks'[p], ref')
           Goal == /\ r = <<>> => Buttons' \subseteq {ref'}
                   /\ r # <<>> => Buttons' \subseteq K
<1> SUFFICES Goal
  OBVIOUS
\* What is known of the turn.
<1>1. "calls" \notin regime
  OBVIOUS
<1>2. /\ Orderly(t) /\ Agrees(l, now) /\ s[1] = l
      /\ Len(s) > 1 => Agrees(s[2], now) /\ s[2] \in Next1(l)
      /\ r = <<>> <=> (steps = <<>> /\ Len(s) = 1)
      /\ steps = <<>> /\ r # <<>> => r[1] = s[2] /\ Len(s) > 1
      /\ tasks'[p].clicked = t.clicked
      /\ r # <<>> => tasks'[p].held = m
  BY OrderlyTurn
<1>3. /\ l \in {"fresh", "refresh"} /\ now = 0 => r # <<>> /\ r[1] = "find"
      /\ l = "fresh" /\ now # 0 => r # <<>> /\ r[1] = "repost"
      /\ l = "refresh" /\ now # 0 => r # <<>> /\ r[1] = "update"
      /\ l = "find" => r # <<>> /\ r[1] = IF ref = None THEN "forget" ELSE "idle"
      /\ l = "repost" => IF ref = None THEN steps = <<>> ELSE r # <<>> /\ r[1] = "strip"
      /\ l = "update" => IF ref = None THEN steps = <<>> ELSE r # <<>> /\ r[1] = "consider"
      /\ l = "consider" => r # <<>> /\ r[1] = IF now = 0 THEN "idle" ELSE "render"
      /\ l = "strip" => IF ref = None THEN steps = <<>> ELSE r # <<>> /\ r[1] = "unbutton"
      /\ l = "compose" => steps = <<>>
      /\ l = "redraw" =>
           r # <<>> /\ IF now = 0 THEN r[1] = "forget" /\ Len(r) > 1 /\ r[2] = "blank"
                                  ELSE r[1] = "paint"
      /\ l \in {"forget", "adopt"} \cup Edits => steps = <<>>
      /\ l = "send" => r # <<>> /\ r[1] = "adopt" /\ m = Len(messages) + 1
  BY <1>1, TurnHeads
<1>4. /\ l \in Edits => OneEdited(Target(t, l), Edited(t, l))
      /\ l = "send" => OneMore([face |-> t.seen, buttons |-> TRUE])
      /\ l \notin Edits /\ l # "send" => messages' = messages
      /\ l \notin {"forget", "adopt"} => ref' = ref
      /\ l = "forget" => ref' = None
      /\ l = "adopt" => ref' = t.held
  BY <1>1, TurnDoes
<1>5. /\ r[1] \notin Other => K = {ref'}
      /\ r[1] = "blank" => K = {t.clicked}
      /\ r # <<>> /\ r[1] = "adopt" => K = {m}
      /\ r[1] = "forget" /\ Len(r) > 1 /\ r[2] = "blank" => K = {t.clicked}
  BY <1>2, KnownIs
<1>6. /\ l \notin Other => Buttons \subseteq {ref}
      /\ l = "blank" => Buttons \subseteq {t.clicked}
      /\ l = "adopt" => Buttons \subseteq {t.held}
      /\ l \in {"compose", "send"} => Buttons = {}
      /\ l = "forget" /\ Len(s) > 1 /\ s[2] = "blank" => Buttons \subseteq {t.clicked}
      /\ l = "forget" /\ ~(Len(s) > 1 /\ s[2] = "blank") => Buttons = {}
  <2>1. Buttons \subseteq Known(t, ref) /\ s[1] = l
    BY <1>2 DEF Orderly
  <2> QED
    BY <2>1, KnownIs
<1>7. /\ l \in {"unbutton", "idle", "consider", "render"} => t.held = ref
      /\ l \in {"redraw", "paint"} => t.clicked = ref \/ (ref = None /\ now = 0)
  <2>1. 1 \in DOMAIN s
    BY OrderlyTurn
  <2> QED
    BY <1>2, <2>1 DEF Orderly
<1>8. None \notin Buttons
  BY NoneIsNone DEF Buttons, Typed
<1>9. messages' = messages => Buttons' = Buttons
  BY DEF Buttons
<1>10. /\ l \in {"unbutton", "idle", "blank", "acknowledge"} => Edited(t, l).buttons = FALSE
  <2>1. ASSUME l \in {"unbutton", "acknowledge"} PROVE Edited(t, l).buttons = FALSE
    <3>1. l \in Edits
      BY <2>1 DEF Edits
    <3> QED
      BY <2>1, <3>1, Targeted DEF Typed
  <2>2. ASSUME l \in {"idle", "blank"} PROVE Edited(t, l).buttons = FALSE
    <3>1. Edited(t, l) = [face |-> Idle, buttons |-> FALSE]
      BY <2>2 DEF Edited
    <3> QED
      BY <3>1
  <2> QED
    BY <2>1, <2>2
<1>11. l \in Edits =>
         /\ Buttons' \subseteq Buttons \cup {Target(t, l)}
         /\ l \in {"unbutton", "idle", "blank", "acknowledge"} =>
              Buttons' \subseteq Buttons \ {Target(t, l)}
  BY <1>4, <1>10, ButtonsEdited
<1>12. /\ l \in {"unbutton", "idle", "render"} => Target(t, l) = t.held
       /\ l \in {"acknowledge", "blank", "paint"} => Target(t, l) = t.clicked
  BY DEF Target, OnHeld
<1>13. l = "send" => Buttons' \subseteq Buttons \cup {m}
  BY <1>3, <1>4, ButtonsPosted DEF Typed
<1>14. l \in Steps
  BY DEF Turn
<1> HIDE DEF t, s, r, K
\* Two ways to the goal.
<1>15. Buttons' = {} => Goal
  OBVIOUS
<1>16. Buttons' \subseteq {ref'} /\ (r # <<>> => r[1] \notin Other) => Goal
  BY <1>5
<1> HIDE DEF Goal
<1>17. CASE l \in {"fresh", "refresh", "consider"}
  <2>1. Buttons' \subseteq {ref'}
    BY <1>4, <1>6, <1>9, <1>17 DEF Other, Edits
  <2>2. r # <<>> /\ r[1] \in {"find", "repost", "update", "idle", "render"}
    BY <1>3, <1>17
  <2> QED
    BY <1>16, <2>1, <2>2 DEF Other
<1>18. CASE l \in {"find", "repost", "update", "strip"}
  <2>1. Buttons \subseteq {ref} /\ Buttons' = Buttons /\ ref' = ref
    BY <1>4, <1>6, <1>9, <1>18 DEF Other, Edits
  <2>2. CASE ref = None
    <3>1. Buttons' = {}
      BY <1>8, <2>1, <2>2
    <3> QED
      BY <1>15, <3>1
  <2>3. CASE ref # None
    <3>1. r # <<>> /\ r[1] \in {"idle", "strip", "consider", "unbutton"}
      BY <1>3, <1>18, <2>3
    <3> QED
      BY <1>16, <2>1, <3>1 DEF Other
  <2> QED
    BY <2>2, <2>3
<1>19. CASE l = "compose"
  <2>1. Buttons' = {}
    BY <1>4, <1>6, <1>9, <1>19 DEF Edits
  <2> QED
    BY <1>15, <2>1
<1>20. CASE l = "redraw"
  <2>1. Buttons \subseteq {ref} /\ Buttons' = Buttons /\ ref' = ref
    BY <1>4, <1>6, <1>9, <1>20 DEF Other, Edits
  <2>2. CASE now = 0
    <3>1. r # <<>> /\ K = {t.clicked}
      BY <1>3, <1>5, <1>20, <2>2
    <3>2. t.clicked = ref \/ ref = None
      BY <1>7, <1>20
    <3>3. Buttons' \subseteq {t.clicked}
      BY <1>8, <2>1, <3>2
    <3> QED
      BY <3>1, <3>3 DEF Goal
  <2>3. CASE now # 0
    <3>1. r # <<>> /\ r[1] = "paint"
      BY <1>3, <1>20, <2>3
    <3> QED
      BY <1>16, <2>1, <3>1 DEF Other
  <2> QED
    BY <2>2, <2>3
<1>21. CASE l = "forget"
  <2>1. steps = <<>> /\ Buttons' = Buttons
    BY <1>3, <1>4, <1>9, <1>21 DEF Edits
  <2>2. CASE Len(s) > 1 /\ s[2] = "blank"
    <3>1. Buttons' \subseteq {t.clicked}
      BY <1>6, <1>21, <2>1, <2>2
    <3>2. r # <<>>
      BY <1>2, <2>2 DEF r, s
    <3>3. r[1] = "blank"
      BY <1>2, <2>1, <2>2, <3>2 DEF r, s
    <3> QED
      BY <1>5, <3>1, <3>2, <3>3 DEF Goal
  <2>3. CASE ~(Len(s) > 1 /\ s[2] = "blank")
    <3>1. Buttons' = {}
      BY <1>6, <1>21, <2>1, <2>3
    <3> QED
      BY <1>15, <3>1
  <2> QED
    BY <2>2, <2>3
<1>22. CASE l \in {"adopt", "render"}
  <2>1. steps = <<>> /\ now # 0
    BY <1>2, <1>3, <1>22 DEF Agrees, WhilePlaying, Edits
  <2>2. ASSUME r # <<>> PROVE r[1] \notin Other
    <3>1. r[1] \in Next1(l) /\ Agrees(r[1], now)
      BY <1>2, <2>1, <2>2 DEF r, s
    <3>2. r[1] # "forget"
      BY <2>1, <3>1 DEF Agrees, WhileIdle
    <3> QED
      BY <1>22, <3>1, <3>2 DEF Next1, Other
  <2>3. Buttons' \subseteq {ref'}
    <3>1. CASE l = "adopt"
      BY <1>4, <1>6, <1>9, <3>1 DEF Edits
    <3>2. CASE l = "render"
      <4>1. Buttons \subseteq {ref} /\ t.held = ref /\ ref' = ref
        BY <1>4, <1>6, <1>7, <3>2 DEF Other
      <4>2. Buttons' \subseteq Buttons \cup {ref}
        BY <1>11, <1>12, <3>2, <4>1 DEF Edits
      <4> QED
        BY <4>1, <4>2
    <3> QED
      BY <1>22, <3>1, <3>2
  <2> QED
    BY <1>16, <2>2, <2>3
<1>23. CASE l \in {"unbutton", "idle"}
  <2>1. Buttons \subseteq {ref} /\ t.held = ref
    BY <1>6, <1>7, <1>23 DEF Other
  <2>2. Buttons' \subseteq Buttons \ {ref}
    BY <1>11, <1>12, <1>23, <2>1 DEF Edits
  <2> QED
    BY <1>15, <2>1, <2>2
<1>24. CASE l \in {"acknowledge", "blank", "paint"}
  <2>1. steps = <<>> /\ ref' = ref
    BY <1>3, <1>4, <1>24 DEF Edits
  <2>2. r = <<>>
    <3>1. Next1(l) = {}
      BY <1>24 DEF Next1
    <3> QED
      BY <1>2, <2>1, <3>1 DEF r, s
  <2>3. Buttons' \subseteq {ref'}
    <3>1. CASE l = "acknowledge"
      <4>1. Buttons' \subseteq Buttons
        BY <1>11, <3>1 DEF Edits
      <4>2. Buttons \subseteq {ref}
        BY <1>6, <3>1 DEF Other
      <4> QED
        BY <2>1, <4>1, <4>2
    <3>2. CASE l = "blank"
      <4>1. Buttons' \subseteq Buttons \ {t.clicked}
        BY <1>11, <1>12, <3>2 DEF Edits
      <4> QED
        BY <1>6, <3>2, <4>1
    <3>3. CASE l = "paint"
      <4>1. now # 0
        BY <1>2, <3>3 DEF Agrees, WhilePlaying
      <4>2. t.clicked = ref /\ Buttons \subseteq {ref}
        BY <1>6, <1>7, <3>3, <4>1 DEF Other
      <4>3. Buttons' \subseteq Buttons \cup {ref}
        BY <1>11, <1>12, <3>3, <4>2 DEF Edits
      <4> QED
        BY <2>1, <4>2, <4>3
    <3> QED
      BY <1>24, <3>1, <3>2, <3>3
  <2> QED
    BY <2>2, <2>3 DEF Goal
<1>25. CASE l = "send"
  <2>1. r # <<>> /\ K = {m}
    BY <1>3, <1>5, <1>25
  <2>2. Buttons' \subseteq {m}
    BY <1>6, <1>13, <1>25
  <2> QED
    BY <2>1, <2>2 DEF Goal
<1> QED
  BY <1>14, <1>17, <1>18, <1>19, <1>20, <1>21, <1>22, <1>23, <1>24, <1>25 DEF Steps

\* The task is orderly after its turn, unless it is done.
LEMMA OrderlyNext ==
  ASSUME Typed, OneInv, KinInv, ButtonsInv, regime \subseteq {"answers", "operations"},
         NEW p \in DOMAIN tasks, NEW l, NEW steps, NEW m, NEW f, Turn(p, l, steps, m, f),
         tasks'[p].todo # <<>>
  PROVE  Orderly(tasks[p])'
<1> DEFINE t == tasks[p]
           s == tasks[p].todo
           r == tasks'[p].todo
<1>1. "calls" \notin regime
  OBVIOUS
<1>2. /\ Orderly(t) /\ Agrees(l, now) /\ s[1] = l /\ 1 \in DOMAIN s
      /\ Len(s) > 1 => s[2] \in Next1(l)
      /\ steps = <<>> => r[1] = s[2] /\ Len(s) > 1
      /\ tasks'[p].clicked = t.clicked
      /\ tasks'[p].held = m
  BY OrderlyTurn
<1>3. /\ Replaced(s, steps, r) /\ now' = now
      /\ Looking(t, l, steps, m, f) \/ Changing(t, l, steps, m, f)
      /\ Kin(s)
  BY TurnIs DEF KinInv
<1>4. /\ l \notin {"forget", "adopt"} => ref' = ref
      /\ l = "forget" => ref' = None
  BY <1>1, TurnDoes
<1>5. /\ l \in {"fresh", "refresh"} => r[1] \in {"find", "repost", "update"}
      /\ l \in {"find", "update", "strip"} => m = ref \/ steps = <<>>
      /\ l = "repost" => r[1] = "strip" \/ steps = <<>>
      /\ l = "consider" => m = t.held
      /\ l = "redraw" => r[1] \in {"forget", "paint"}
      /\ l \in {"compose", "forget", "adopt"} \cup Edits => steps = <<>>
      /\ l = "send" => r[1] = "adopt"
  BY <1>1, TurnHeads
<1>6. l \in Steps
  BY DEF Turn
<1>7. Buttons' \subseteq Known(tasks'[p], ref')
  BY KnownNext
<1>8. \A j \in DOMAIN steps : steps[j] \in {"redraw", "paint"} => l = "redraw"
  <2>1. CASE Looking(t, l, steps, m, f)
    BY <2>1 DEF Looking
  <2>2. CASE Changing(t, l, steps, m, f)
    BY <2>2 DEF Changing
  <2> QED
    BY <1>3, <2>1, <2>2
<1>9. l \in {"unbutton", "idle", "consider", "render"} => t.held = ref
  BY <1>2 DEF Orderly
<1> HIDE DEF s, r
<1>10. ASSUME r[1] \in {"unbutton", "idle", "consider", "render"} PROVE tasks'[p].held = ref'
  <2>1. steps # <<>>
    BY <1>2, <1>10 DEF Next1
  <2>2. l \in {"find", "update", "strip", "consider"}
    BY <1>5, <1>6, <1>10, <2>1 DEF Steps, Edits
  <2> QED
    BY <1>2, <1>4, <1>5, <1>9, <2>1, <2>2
<1>11. ASSUME NEW i \in DOMAIN r, r[i] \in {"redraw", "paint"}
       PROVE  tasks'[p].clicked = ref' \/ (ref' = None /\ now' = 0)
  <2>1. \E j \in DOMAIN s : s[j] \in {"redraw", "paint"}
    <3>1. CASE \E j \in DOMAIN steps : r[i] = steps[j]
      BY <1>2, <1>8, <1>11, <3>1
    <3>2. CASE \E j \in DOMAIN s : j > 1 /\ r[i] = s[j]
      BY <1>11, <3>2
    <3> QED
      BY <1>3, <3>1, <3>2, Occurring
  <2>2. t.clicked = ref \/ (ref = None /\ now = 0)
    BY <1>2, <2>1 DEF Orderly, s
  <2>3. l \in Refreshing
    BY <1>2, <1>3, <2>1 DEF Kin
  <2>4. CASE l = "forget"
    BY <1>2, <1>3, <1>4, <2>4 DEF Agrees, WhileIdle
  <2>5. CASE l # "forget"
    BY <1>2, <1>3, <1>4, <2>2, <2>3, <2>5 DEF Refreshing
  <2> QED
    BY <2>4, <2>5
<1> QED
  BY <1>7, <1>10, <1>11 DEF Orderly, r

\* The lists of steps that operations begin, by their first step.
LEMMA PlanHeads ==
  ASSUME NEW todo \in PlainPlans \cup PublishPlans \cup PressPlans, todo # <<>>
  PROVE  /\ todo[1] \in {"fresh", "refresh", "strip", "redraw"}
         /\ todo \in PlainPlans \cup PublishPlans =>
              \A i \in DOMAIN todo : todo[i] \notin {"redraw", "paint"}
  BY DEF PlainPlans, PublishPlans, PressPlans

LEMMA ButtonsNext ==
  ASSUME Typed, OneInv, KinInv, ButtonsInv, [Next]_vars
  PROVE  ButtonsInv'
<1>1. ASSUME NEW m, NEW todo, NEW track, Begun(m, todo, track) PROVE ButtonsInv'
  <2> DEFINE n == Len(tasks) + 1
  <2>1. /\ DOMAIN tasks = 1 .. Len(tasks) /\ DOMAIN tasks' = 1 .. n
        /\ \A q \in DOMAIN tasks : tasks'[q] = tasks[q]
        /\ tasks'[n].todo = todo /\ tasks'[n].clicked = m
    BY <1>1, Spawned DEF Typed
  <2>2. regime' = regime /\ ref' = ref /\ messages' = messages /\ Buttons' = Buttons
    BY <1>1 DEF Begun, Buttons
  <2> SUFFICES ASSUME regime \subseteq {"answers", "operations"}
               PROVE  /\ Buttons' \subseteq {ref'}
                      /\ \A q \in DOMAIN tasks' : tasks'[q].todo # <<>> => Orderly(tasks[q])'
    BY <2>2 DEF ButtonsInv
  <2>3. Done /\ Buttons \subseteq {ref}
    BY <1>1 DEF Begun, Readied, Sequential, ButtonsInv
  <2> SUFFICES ASSUME NEW q \in DOMAIN tasks', tasks'[q].todo # <<>> PROVE Orderly(tasks[q])'
    BY <2>2, <2>3
  <2>4. q = n
    BY <2>1, <2>3 DEF Done
  <2>5. todo # <<>> /\ todo \in PlainPlans \cup PublishPlans \cup PressPlans
    BY <1>1, <2>1, <2>4 DEF Begun
  <2>6. /\ todo[1] \in {"fresh", "refresh", "strip", "redraw"}
        /\ todo \in PlainPlans \cup PublishPlans =>
             \A i \in DOMAIN todo : todo[i] \notin {"redraw", "paint"}
    BY <2>5, PlanHeads
  <2>7. Known(tasks'[q], ref') = {ref}
    BY <2>1, <2>2, <2>4, <2>6, KnownIs DEF Other
  <2>8. todo \in PlainPlans \cup PublishPlans \/ m \in Buttons
    BY <1>1 DEF Begun, Buttons
  <2>9. m \in Buttons => m = ref
    BY <2>3
  <2> QED
    BY <2>1, <2>2, <2>3, <2>4, <2>6, <2>7, <2>8, <2>9 DEF Orderly
<1>2. ASSUME NEW p \in DOMAIN tasks, NEW l, NEW steps, NEW m, NEW f, Turn(p, l, steps, m, f)
      PROVE  ButtonsInv'
  <2>1. /\ tasks[p].todo # <<>> /\ DOMAIN tasks' = DOMAIN tasks /\ regime' = regime
        /\ \A q \in DOMAIN tasks : q # p => tasks'[q] = tasks[q]
    BY <1>2, TurnIs
  <2> SUFFICES ASSUME regime \subseteq {"answers", "operations"}
               PROVE  /\ Done' => Buttons' \subseteq {ref'}
                      /\ \A q \in DOMAIN tasks' : tasks'[q].todo # <<>> => Orderly(tasks[q])'
    BY <2>1 DEF ButtonsInv
  <2>2. \A q \in DOMAIN tasks : q # p => tasks'[q].todo = <<>>
    BY <2>1 DEF OneInv, Sequential
  <2>3. Done' => tasks'[p].todo = <<>>
    BY <2>1 DEF Done
  <2>4. tasks'[p].todo = <<>> => Buttons' \subseteq {ref'}
    BY <1>2, KnownNext
  <2>5. tasks'[p].todo # <<>> => Orderly(tasks[p])'
    BY <1>2, OrderlyNext
  <2> QED
    BY <2>1, <2>2, <2>3, <2>4, <2>5
<1>3. CASE Hear \/ UNCHANGED vars
  BY <1>3 DEF Hear, vars, player, ButtonsInv, Orderly, Buttons, Done
<1>4. CASE Restarted
  BY <1>4 DEF Restarted, ButtonsInv
<1> QED
  BY <1>1, <1>2, <1>3, <1>4, NextIs DEF Typed

\* All that is known of a turn of a task that shows the player.
LEMMA ShowingTurn ==
  ASSUME Typed, OneInv, KinInv, ButtonsInv, ShowsInv, regime = {},
         NEW p \in DOMAIN tasks, NEW l, NEW steps, NEW m, NEW f, Turn(p, l, steps, m, f)
  PROVE  LET t == tasks[p]
             s == tasks[p].todo
         IN  /\ Kin(s)
             /\ l \in {"repost", "send", "render", "paint"} => t.seen = Face
             /\ l \in {"strip", "unbutton"} /\ s[2] = "send" => t.seen = Face
             /\ (\E i \in DOMAIN s : s[i] = "compose") => t.track = now
             /\ l = "adopt" => messages[t.held] = [face |-> Face, buttons |-> TRUE]
                               /\ t.held # t.clicked
             /\ l = "acknowledge" => Shown /\ t.clicked # ref
             /\ l = "blank" => ref = None
             /\ l \in {"render", "unbutton"} => t.held = ref
             /\ l = "paint" => t.clicked = ref
             /\ \A i \in DOMAIN s : s[i] \in OnClicked => t.clicked # None
             /\ t.clicked \in DOMAIN messages \cup {None} /\ ref \in DOMAIN messages \cup {None}
             /\ DOMAIN messages = 1 .. Len(messages) /\ Len(messages) \in Nat
<1> DEFINE t == tasks[p]
           s == tasks[p].todo
<1>1. /\ s # <<>> /\ s[1] = l /\ 1 \in DOMAIN s /\ Agrees(l, now) /\ Orderly(t)
  BY OrderlyTurn
<1>2. Kin(s)
  BY DEF KinInv
<1>3. Showing(t)
  BY <1>1 DEF ShowsInv
<1>4. /\ l \in {"render", "unbutton"} => t.held = ref
      /\ l = "paint" => t.clicked = ref
  BY <1>1 DEF Orderly, Agrees, WhilePlaying
<1>5. \A i \in DOMAIN s : s[i] \in OnClicked => t.clicked # None
  BY DEF Typed, PlanInv, TaskPlanned
<1>6. /\ t.clicked \in DOMAIN messages \cup {None} /\ ref \in DOMAIN messages \cup {None}
      /\ DOMAIN messages = 1 .. Len(messages) /\ Len(messages) \in Nat
  BY LenProperties DEF Typed, Types, TasksType, PanelType, Panels
<1> QED
  BY <1>1, <1>2, <1>3, <1>4, <1>5, <1>6 DEF Showing

\* A task that ends leaves a panel that shows the player.
LEMMA ShownAfter ==
  ASSUME Typed, OneInv, KinInv, ButtonsInv, ShowsInv, regime = {},
         NEW p \in DOMAIN tasks, NEW l, NEW steps, NEW m, NEW f, Turn(p, l, steps, m, f),
         tasks'[p].todo = <<>>
  PROVE  Shown'
<1> DEFINE t == tasks[p]
           s == tasks[p].todo
           r == tasks'[p].todo
           face == [face |-> Face, buttons |-> TRUE]
<1>1. "calls" \notin regime
  OBVIOUS
<1>2. s[1] = l /\ r = <<>> /\ steps = <<>> /\ Len(s) = 1
  BY OrderlyTurn
<1>3. s[Len(s)] \notin Open
  BY Ends
<1>4. l \notin Open /\ l \in Steps /\ Face' = Face
  BY <1>2, <1>3, TurnIs DEF Turn
<1>5. /\ l \notin {"fresh", "refresh", "find", "consider", "redraw", "send"}
      /\ l \in {"repost", "update"} => ref = None
  BY <1>1, <1>2, TurnHeads
<1>6. /\ l \in Edits => OneEdited(Target(t, l), Edited(t, l))
      /\ l \notin Edits /\ l # "send" => messages' = messages
      /\ l \notin {"forget", "adopt"} => ref' = ref
      /\ l = "forget" => ref' = None
      /\ l = "adopt" => ref' = t.held
  BY <1>1, TurnDoes
<1>7. /\ l \in {"render", "paint"} => t.seen = Face
      /\ l = "adopt" => messages[t.held] = face
      /\ l = "acknowledge" => Shown /\ t.clicked # ref
      /\ l = "blank" => ref = None
      /\ l = "render" => t.held = ref
      /\ l = "paint" => t.clicked = ref
      /\ ref \in DOMAIN messages \cup {None}
  BY ShowingTurn
<1>8. l \in {"repost", "update", "forget", "adopt", "render", "acknowledge", "blank", "paint"}
  BY <1>4, <1>5 DEF Steps, Open
<1>9. CASE l \in {"repost", "update", "forget", "blank"}
  BY <1>5, <1>6, <1>7, <1>9 DEF Shown
<1>10. CASE l = "adopt"
  <2>1. messages'[ref'] = face
    BY <1>6, <1>7, <1>10 DEF Edits
  <2> QED
    BY <1>4, <2>1 DEF Shown
<1>11. CASE l \in {"render", "paint"}
  <2>1. Target(t, l) = ref /\ ref' = ref
    BY <1>6, <1>7, <1>11 DEF Target, OnHeld
  <2>2. Edited(t, l) = face
    BY <1>7, <1>11 DEF Edited
  <2>3. messages'[ref'] = face
    BY <1>6, <1>11, <2>1, <2>2 DEF Edits, OneEdited
  <2> QED
    BY <1>4, <2>3 DEF Shown
<1>12. CASE l = "acknowledge"
  <2>1. Target(t, l) = t.clicked /\ ref' = ref /\ OneEdited(t.clicked, Edited(t, l))
    BY <1>6, <1>12 DEF Target, OnHeld, Edits
  <2>2. ref # None => messages'[ref] = messages[ref]
    BY <1>7, <1>12, <2>1 DEF OneEdited
  <2> QED
    BY <1>4, <1>7, <1>12, <2>1, <2>2 DEF Shown
<1> QED
  BY <1>8, <1>9, <1>10, <1>11, <1>12

\* A task shows the player after its turn, unless it is done.
LEMMA ShowingNext ==
  ASSUME Typed, OneInv, KinInv, ButtonsInv, ShowsInv, regime = {},
         NEW p \in DOMAIN tasks, NEW l, NEW steps, NEW m, NEW f, Turn(p, l, steps, m, f),
         tasks'[p].todo # <<>>
  PROVE  Showing(tasks[p])'
<1> DEFINE t == tasks[p]
           s == tasks[p].todo
           r == tasks'[p].todo
           face == [face |-> Face, buttons |-> TRUE]
<1>1. "calls" \notin regime
  OBVIOUS
<1>2. /\ s[1] = l
      /\ Len(s) > 1 => s[2] \in Next1(l) /\ 2 \in DOMAIN s
      /\ r = <<>> <=> (steps = <<>> /\ Len(s) = 1)
      /\ steps = <<>> => r[1] = s[2] /\ Len(s) > 1
      /\ tasks'[p].clicked = t.clicked /\ tasks'[p].track = t.track
      /\ tasks'[p].held = m /\ tasks'[p].seen = f
  BY OrderlyTurn
<1>3. /\ Replaced(s, steps, r) /\ now' = now /\ Face' = Face /\ l \in Steps
      /\ Looking(t, l, steps, m, f) \/ Changing(t, l, steps, m, f)
  BY TurnIs DEF Turn
<1>4. /\ l = "send" => OneMore([face |-> t.seen, buttons |-> TRUE]) /\ m = Len(messages) + 1
      /\ l \notin Edits /\ l # "send" => messages' = messages
      /\ l \notin {"forget", "adopt"} => ref' = ref
      /\ l = "forget" => ref' = None
      /\ l = "adopt" => ref' = t.held
  BY <1>1, TurnDoes
<1>5. /\ l \in {"fresh", "refresh"} => r[1] \in {"find", "repost", "update"} /\ steps # <<>>
      /\ l = "fresh" /\ r[1] = "repost" => f = Face
      /\ l = "refresh" => r[1] # "repost"
      /\ l = "find" => r[1] \in {"forget", "idle"} /\ steps # <<>>
      /\ l = "repost" => IF ref = None THEN steps = <<>>
                         ELSE r[1] = "strip" /\ f = t.seen /\ steps # <<>>
      /\ l = "update" => steps = <<>> \/ r[1] = "consider"
      /\ l = "consider" => f = Face /\ r[1] \in {"idle", "render"} /\ steps # <<>>
      /\ l = "strip" => f = t.seen /\ (steps = <<>> \/ r[1] = "unbutton")
      /\ l = "compose" => steps = <<>> /\ f = [Face EXCEPT !.now = t.track]
      /\ l = "redraw" => r[1] \in {"forget", "paint"} /\ steps # <<>>
      /\ l = "redraw" /\ r[1] = "paint" => f = Face
      /\ l \in {"forget", "adopt"} \cup Edits => steps = <<>> /\ f = t.seen
      /\ l = "send" => r[1] = "adopt" /\ steps # <<>>
  <2>1. l \in {"fresh", "refresh", "find", "consider", "redraw", "send"} => steps # <<>>
    <3>1. CASE Looking(t, l, steps, m, f)
      BY <3>1 DEF Looking
    <3>2. CASE Changing(t, l, steps, m, f)
      BY <1>1, <3>2 DEF Changing, Edits, Faulty
    <3> QED
      BY <1>3, <3>1, <3>2
  <2>2. l = "repost" /\ ref # None => steps # <<>>
    <3>1. CASE Looking(t, l, steps, m, f)
      BY <3>1 DEF Looking
    <3>2. CASE Changing(t, l, steps, m, f)
      BY <3>2 DEF Changing, Edits
    <3> QED
      BY <1>3, <3>1, <3>2
  <2>3. /\ l \in {"fresh", "refresh"} => r[1] \in {"find", "repost", "update"}
        /\ l = "fresh" /\ r[1] = "repost" => f = Face
        /\ l = "refresh" => r[1] # "repost"
        /\ l = "find" => r[1] \in {"forget", "idle"}
    <3>1. /\ l \in {"fresh", "refresh"} /\ now = 0 => r[1] = "find"
          /\ l = "fresh" /\ now # 0 => r[1] = "repost" /\ f = Face
          /\ l = "refresh" /\ now # 0 => r[1] = "update"
          /\ l = "find" => r[1] = IF ref = None THEN "forget" ELSE "idle"
      BY <1>1, TurnHeads
    <3> QED
      BY <3>1
  <2>4. /\ l = "repost" => IF ref = None THEN steps = <<>>
                           ELSE r[1] = "strip" /\ f = t.seen
        /\ l = "update" => steps = <<>> \/ r[1] = "consider"
        /\ l = "consider" => f = Face /\ r[1] \in {"idle", "render"}
        /\ l = "strip" => f = t.seen /\ (steps = <<>> \/ r[1] = "unbutton")
    BY <1>1, TurnHeads
  <2>5. /\ l = "compose" => steps = <<>> /\ f = [Face EXCEPT !.now = t.track]
        /\ l = "redraw" => r[1] \in {"forget", "paint"}
        /\ l = "redraw" /\ r[1] = "paint" => f = Face
        /\ l \in {"forget", "adopt"} \cup Edits => steps = <<>> /\ f = t.seen
        /\ l = "send" => r[1] = "adopt"
    BY <1>1, TurnHeads
  <2> QED
    BY <2>1, <2>2, <2>3, <2>4, <2>5
<1>6. /\ Kin(s)
      /\ l \in {"repost", "send", "render", "paint"} => t.seen = Face
      /\ l \in {"strip", "unbutton"} /\ s[2] = "send" => t.seen = Face
      /\ (\E i \in DOMAIN s : s[i] = "compose") => t.track = now
      /\ l = "adopt" => messages[t.held] = face /\ t.held # t.clicked
      /\ \A i \in DOMAIN s : s[i] \in OnClicked => t.clicked # None
      /\ t.clicked \in DOMAIN messages \cup {None}
      /\ DOMAIN messages = 1 .. Len(messages) /\ Len(messages) \in Nat
  BY ShowingTurn
<1>7. Len(s) = 1 \/ Len(s) > 1
  BY Ends
<1>8. s[Len(s)] \notin Open /\ (Len(steps) = 1 /\ Len(s) > 1 => r[2] = s[2])
  BY Ends
<1>9. \A j \in DOMAIN steps : steps[j] # "compose"
  <2>1. CASE Looking(t, l, steps, m, f)
    BY <2>1 DEF Looking
  <2>2. CASE Changing(t, l, steps, m, f)
    BY <2>2 DEF Changing
  <2> QED
    BY <1>3, <2>1, <2>2
<1> HIDE DEF s, r
<1>10. ASSUME r[1] \in {"repost", "send", "render", "paint"} PROVE f = Face
  <2>1. CASE steps = <<>>
    <3>1. r[1] = "send" /\ l \in {"strip", "unbutton", "compose"}
      BY <1>2, <1>10, <2>1 DEF Next1
    <3>2. CASE l = "compose"
      <4>1. t.track = now
        BY <1>2, <1>6, <1>7, <1>8, <3>2, OrderlyTurn DEF s
      <4>2. f = [Face EXCEPT !.now = now]
        BY <1>5, <3>2, <4>1
      <4> QED
        BY <4>2 DEF Face
    <3>3. CASE l \in {"strip", "unbutton"}
      BY <1>2, <1>5, <1>6, <2>1, <3>1, <3>3 DEF Edits
    <3> QED
      BY <3>1, <3>2, <3>3
  <2>2. CASE steps # <<>>
    BY <1>3, <1>5, <1>10, <2>2 DEF Steps, Edits
  <2> QED
    BY <2>1, <2>2
<1>11. ASSUME r[1] \in {"strip", "unbutton"}, r[2] = "send" PROVE f = Face
  <2>1. CASE steps = <<>>
    <3>1. s[2] = "strip" /\ 2 \in DOMAIN s
      BY <1>2, <1>11, <2>1 DEF Next1
    <3>2. 2 + 1 \in DOMAIN s /\ s[2 + 1] = "compose"
      BY <1>6, <3>1 DEF Kin
    <3>3. r[2] = s[2 + 1]
      <4>1. /\ Len(steps) = 0 /\ Len(r) = Len(steps) + Len(s) - 1 /\ Len(s) \in Nat
            /\ \A i \in Len(steps) + 1 .. Len(r) : r[i] = s[i - Len(steps) + 1]
            /\ DOMAIN s = 1 .. Len(s)
        BY <1>3, <2>1, Spliced
      <4>2. 2 \in Len(steps) + 1 .. Len(r) /\ 2 - Len(steps) + 1 = 2 + 1
        BY <3>2, <4>1
      <4> QED
        BY <4>1, <4>2
    <3> QED
      BY <1>11, <3>2, <3>3
  <2>2. CASE steps # <<>>
    <3>1. l \in {"repost", "strip"}
      BY <1>3, <1>5, <1>11, <2>2 DEF Steps, Edits
    <3>2. CASE l = "repost"
      BY <1>5, <1>6, <2>2, <3>2
    <3>3. CASE l = "strip"
      <4>1. Len(s) > 1
        BY <1>2, <1>7, <1>8, <3>3 DEF Open
      <4>2. steps = <<"unbutton">>
        BY <1>3, <2>2, <3>3 DEF Looking, Changing, Edits
      <4>3. Len(steps) = 1
        BY <4>2
      <4>4. s[2] = "send"
        BY <1>8, <1>11, <4>1, <4>3
      <4> QED
        BY <1>5, <1>6, <3>3, <4>4
    <3> QED
      BY <3>1, <3>2, <3>3
  <2> QED
    BY <2>1, <2>2
<1>12. ASSUME NEW i \in DOMAIN r, r[i] = "compose" PROVE tasks'[p].track = now'
  <2>1. \E j \in DOMAIN s : s[j] = "compose"
    BY <1>3, <1>9, <1>12, Occurring
  <2> QED
    BY <1>2, <1>3, <1>6, <2>1
<1>13. ASSUME r[1] = "adopt" PROVE messages'[m] = face /\ m # t.clicked
  <2>1. steps # <<>>
    BY <1>2, <1>13 DEF Next1
  <2>2. l = "send"
    BY <1>3, <1>5, <1>13, <2>1 DEF Steps, Edits
  <2>3. messages'[m] = [face |-> t.seen, buttons |-> TRUE] /\ m = Len(messages) + 1
    BY <1>4, <2>2 DEF OneMore
  <2>4. m # None
    BY <1>6, <2>3, NoneIsNoMessage
  <2>5. t.seen = Face
    BY <1>6, <2>2
  <2>6. m # t.clicked
    <3>1. t.clicked \in 1 .. Len(messages) \/ t.clicked = None
      BY <1>6
    <3> QED
      BY <1>6, <2>3, <2>4, <3>1
  <2> QED
    BY <2>3, <2>5, <2>6
<1>14. ASSUME r[1] = "acknowledge" PROVE Shown' /\ t.clicked # ref'
  <2>1. steps = <<>>
    BY <1>3, <1>5, <1>14 DEF Steps, Edits
  <2>2. s[2] = "acknowledge" /\ 2 \in DOMAIN s /\ s[2] \in Next1(l)
    BY <1>2, <1>14, <2>1
  <2>3. l \in Renewing
    BY <1>2, <1>6, <2>2, OrderlyTurn DEF Kin, s
  <2>4. t.clicked # None
    BY <1>6, <2>2 DEF OnClicked
  <2>5. l \in {"repost", "forget", "adopt"}
    BY <1>5, <2>1, <2>2, <2>3 DEF Renewing, Next1
  <2>6. CASE l = "adopt"
    <3>1. ref' = t.held /\ messages' = messages
      BY <1>4, <2>6 DEF Edits
    <3>2. messages'[ref'] = face
      BY <1>6, <2>6, <3>1
    <3> QED
      BY <1>3, <1>6, <2>6, <3>1, <3>2 DEF Shown
  <2>7. CASE l # "adopt"
    <3>1. ref' = None
      BY <1>4, <1>5, <2>1, <2>5, <2>7
    <3> QED
      BY <2>4, <3>1 DEF Shown
  <2> QED
    BY <2>6, <2>7
<1>15. ASSUME r[1] = "blank" PROVE ref' = None
  <2>1. steps = <<>>
    BY <1>3, <1>5, <1>15 DEF Steps, Edits
  <2>2. l = "forget"
    BY <1>2, <1>15, <2>1 DEF Next1
  <2> QED
    BY <1>4, <2>2
<1>16. /\ tasks'[p].clicked = t.clicked /\ tasks'[p].held = m /\ tasks'[p].seen = f /\ Face' = Face
  BY <1>2, <1>3
<1> QED
  BY <1>10, <1>11, <1>12, <1>13, <1>14, <1>15, <1>16 DEF Showing, r

LEMMA ShowsNext ==
  ASSUME Typed, OneInv, TellInv, KinInv, ButtonsInv, ShowsInv, [Next]_vars
  PROVE  ShowsInv'
<1>1. ASSUME NEW m, NEW todo, NEW track, Begun(m, todo, track) PROVE ShowsInv'
  <2> DEFINE n == Len(tasks) + 1
  <2>1. /\ DOMAIN tasks = 1 .. Len(tasks) /\ DOMAIN tasks' = 1 .. n /\ Len(tasks) \in Nat
        /\ \A q \in DOMAIN tasks : tasks'[q] = tasks[q]
        /\ tasks'[n].todo = todo /\ tasks'[n].track = track
    BY <1>1, Spawned DEF Typed
  <2> SUFFICES ASSUME regime = {}
               PROVE  /\ Done' => Shown'
                      /\ \A q \in DOMAIN tasks' : tasks'[q].todo # <<>> => Showing(tasks[q])'
    BY <1>1 DEF ShowsInv, Begun
  <2>2. Done /\ Shown
    BY <1>1 DEF Begun, Readied, Sequential, ShowsInv
  <2>3. ASSUME Done' PROVE Shown'
    <3>1. todo = <<>>
      BY <2>1, <2>3 DEF Done
    <3>2. UNCHANGED <<player, messages, ref>>
      BY <1>1, <3>1 DEF Begun
    <3> QED
      BY <2>2, <3>2 DEF Shown, Face, player
  <2>4. ASSUME NEW q \in DOMAIN tasks', tasks'[q].todo # <<>> PROVE Showing(tasks[q])'
    <3>1. q = n
      BY <2>1, <2>2, <2>4 DEF Done
    <3>2. todo # <<>> /\ todo \in PlainPlans \cup PublishPlans \cup PressPlans
      BY <1>1, <2>1, <2>4, <3>1 DEF Begun
    <3>3. todo[1] \in {"fresh", "refresh", "strip", "redraw"}
      BY <3>2, PlanHeads
    <3>4. todo[1] \in {"strip", "unbutton"} => todo[2] # "send"
      BY <3>2 DEF PlainPlans, PublishPlans, PressPlans
    <3>5. (\E i \in DOMAIN todo : todo[i] = "compose") => todo \in PublishPlans
      BY <3>2 DEF PlainPlans, PressPlans
    <3>6. todo \in PublishPlans => track = now'
      BY <1>1, NoneIsNone DEF Begun, PublishPlans, PlainPlans, PressPlans
    <3> QED
      BY <2>1, <3>1, <3>3, <3>4, <3>5, <3>6 DEF Showing
  <2> QED
    BY <2>3, <2>4
<1>2. ASSUME NEW p \in DOMAIN tasks, NEW l, NEW steps, NEW m, NEW f, Turn(p, l, steps, m, f)
      PROVE  ShowsInv'
  <2>1. /\ tasks[p].todo # <<>> /\ DOMAIN tasks' = DOMAIN tasks /\ regime' = regime
        /\ \A q \in DOMAIN tasks : q # p => tasks'[q] = tasks[q]
    BY <1>2, TurnIs
  <2> SUFFICES ASSUME regime = {}
               PROVE  /\ Done' => Shown'
                      /\ \A q \in DOMAIN tasks' : tasks'[q].todo # <<>> => Showing(tasks[q])'
    BY <2>1 DEF ShowsInv
  <2>2. \A q \in DOMAIN tasks : q # p => tasks'[q].todo = <<>>
    BY <2>1 DEF OneInv, Sequential
  <2>3. Done' => tasks'[p].todo = <<>>
    BY <2>1 DEF Done
  <2>4. tasks'[p].todo = <<>> => Shown'
    BY <1>2, ShownAfter
  <2>5. tasks'[p].todo # <<>> => Showing(tasks[p])'
    BY <1>2, ShowingNext
  <2> QED
    BY <2>1, <2>2, <2>3, <2>4, <2>5
<1>3. CASE Hear
  BY <1>3 DEF Hear, TellInv, ShowsInv
<1>4. CASE UNCHANGED vars
  BY <1>4 DEF vars, player, ShowsInv, Showing, Shown, Face, Done
<1>5. CASE Restarted
  BY <1>5 DEF Restarted, ShowsInv
<1> QED
  BY <1>1, <1>2, <1>3, <1>4, <1>5, NextIs DEF Typed

\* The inductive invariant at the start and at every step.
LEMMA OneFirst ==
  ASSUME Init
  PROVE  /\ OneInv /\ TellInv /\ ClearInv /\ KinInv /\ HonestInv
         /\ ButtonsInv /\ ShowsInv
<1>1. tasks = <<>> /\ ref = None /\ mirror = node /\ messages = <<>>
  BY DEF Init
<1>2. DOMAIN tasks = {} /\ DOMAIN messages = {}
  BY <1>1
<1>3. OneInv /\ KinInv
  BY <1>2 DEF OneInv, KinInv
<1>4. TellInv /\ ClearInv /\ HonestInv
  BY <1>1 DEF TellInv, ClearInv, HonestInv
<1>5. ButtonsInv /\ ShowsInv
  BY <1>1, <1>2 DEF ButtonsInv, ShowsInv, Buttons, Shown
<1> QED
  BY <1>3, <1>4, <1>5

PanelInv ==
  /\ Typed /\ OneInv /\ TellInv /\ ClearInv
  /\ KinInv /\ ButtonsInv /\ ShowsInv /\ HonestInv

LEMMA SafeAlways == Spec => []PanelInv
<1>1. Init => PanelInv
  BY TypedFirst, OneFirst DEF PanelInv
<1>2. PanelInv /\ [Next]_vars => PanelInv'
  <2> SUFFICES ASSUME PanelInv, [Next]_vars PROVE PanelInv'
    OBVIOUS
  <2>1. /\ Typed /\ OneInv /\ TellInv /\ ClearInv
        /\ KinInv /\ ButtonsInv /\ ShowsInv /\ HonestInv
    BY DEF PanelInv
  <2>2. Typed' /\ OneInv' /\ TellInv' /\ ClearInv'
    BY <2>1, TypedNext, OneNext, TellNext, ClearNext
  <2>3. KinInv' /\ ButtonsInv' /\ ShowsInv' /\ HonestInv'
    BY <2>1, KinNext, ButtonsNext, ShowsNext, HonestNext
  <2> QED
    BY <2>2, <2>3 DEF PanelInv
<1> QED
  BY <1>1, <1>2, PTL DEF Spec

\* A guild where nothing plays has no panel to update (onPlaybackEvent clears
\* it, whoever ended the last track): with tasks one after another and no
\* failed operation, there is always a task left that will forget the panel
\* of nothing, so when none is left there is no such panel.
THEOREM NoPanelWhenIdle == Spec => []NoPanelOfNothing
<1>1. PanelInv => NoPanelOfNothing
  <2> SUFFICES ASSUME PanelInv, regime \subseteq {"answers", "calls", "restarts"},
                      Done, ref # None, now = 0
               PROVE  FALSE
    BY DEF NoPanelOfNothing
  <2>1. PICK p \in DOMAIN tasks : Clears(p)
    BY DEF PanelInv, ClearInv
  <2>2. tasks[p].todo = <<>> /\ DOMAIN <<>> = {}
    BY DEF Done
  <2> QED
    BY <2>1, <2>2 DEF Clears
<1> QED
  BY <1>1, SafeAlways, PTL

\* A press that has the guild to itself leaves its message honest: the task
\* of a control button works on the message up to its last step
\* (acknowledgeControl, refreshPanel, renderIdle), and a vote on the guild's
\* panel is followed by an update or a replacement of it (UpdateGuildPanel,
\* publishFreshPanel); what is painted was seen after the operation.
THEOREM PressesAreHonest == Spec => []PressIsHonest
<1>1. PanelInv => PressIsHonest
  <2> SUFFICES ASSUME PanelInv,
                      regime \subseteq {"handlers", "operations", "restarts"}, Done, tasks # <<>>,
                      Last.clicked # None, Last.alone, Last.serves
               PROVE  Honest(Last.clicked)
    BY DEF PressIsHonest, Honest, Last
  <2>1. tasks \in Seq(Task)
    BY DEF PanelInv, Typed, Types, TasksType
  <2>2. Len(tasks) \in DOMAIN tasks
    BY <2>1, EmptySeq, LenProperties
  <2>3. Last.todo = <<>>
    BY <2>2 DEF Done, Last
  <2> QED
    BY <2>3 DEF PanelInv, HonestInv
<1> QED
  BY <1>1, SafeAlways, PTL

\* Only the guild's panel has buttons once all is done (UpdateGuildPanel,
\* publishPanel, acknowledgeControl, refreshPanel and the blanking after
\* Leave): with tasks one after another and no failed call, each step knows
\* the one message that may still have them.
THEOREM OnePanelOnly == Spec => []OnePanel
<1>1. PanelInv => OnePanel
  BY DEF PanelInv, ButtonsInv, Buttons, OnePanel
<1> QED
  BY <1>1, SafeAlways, PTL

\* The guild's panel shows the player as it is once all is done and nothing
\* went wrong: what is painted last was seen after the player's last change.
THEOREM PanelShowsPlayer == Spec => []PanelShows
<1>1. PanelInv => PanelShows
  BY DEF PanelInv, ShowsInv, Shown, PanelShows
<1> QED
  BY <1>1, SafeAlways, PTL
=============================================================================
