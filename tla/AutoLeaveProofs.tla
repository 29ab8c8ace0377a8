-------------------------- MODULE AutoLeaveProofs --------------------------
(***************************************************************************)
(* Safety of AutoLeave for any number of events, any members and any       *)
(* channels.                                                               *)
(***************************************************************************)
EXTENDS AutoLeave, TLAPS

\* Events are started in the order of their numbers.
InOrder ==
  \A e, f \in Events : f < e /\ pc[e] # "none" => pc[f] # "none"

\* As long as no callback is overtaken, the entry is also the timer whose
\* callback has to delete it.
PendingIsEntry ==
  "callbacks" \notin overlap =>
    \A e \in Events : pc[e] \in {"armed", "delete"} => entry = e

Newest(e) == \A f \in Handling : f <= e

\* When goroutines run in order, the newest one knows what the cache says.
NewestKnows ==
  "handlers" \notin overlap =>
    \A e \in Handling : Newest(e) =>
      /\ pc[e] \in {"count", "schedule"} => chan[e] = botChannel
      /\ pc[e] = "cancel" => ~Alone

\* Without overlaps, nothing changes from the moment a timer fires to the end
\* of its callback, and it fires for the channel the bot is in.
CallbackKnows ==
  overlap = {} =>
    /\ Handling = {} =>
         \A e \in Events : pc[e] \in {"armed"} \cup CallbackLabels => chan[e] = botChannel
    /\ Firing # {} => Handling = {}
    /\ \A e \in Events : pc[e] = "leave" => HumansIn(chan[e]) = {}

IInv ==
  /\ TypeOK /\ InOrder /\ EntryIsLive /\ PendingIsEntry
  /\ NewestKnows /\ AloneIsTimed /\ CallbackKnows

-----------------------------------------------------------------------------
(* What a step does to the labels.                                         *)

LEMMA EventsAreNumbers == Events \subseteq Nat
BY BoundsAssumption DEF Events

LEMMA SpawnFacts ==
  ASSUME TypeOK, InOrder, Spawn
  PROVE  \E e \in Events :
           /\ pc[e] = "none" /\ pc' = [pc EXCEPT ![e] = "look"]
           /\ \A f \in Events : f < e => pc[f] # "none"
           /\ \A f \in Events : e < f => pc[f] = "none"
<1>1. PICK e \in Events : /\ pc[e] = "none" /\ Goto(e, "look")
                          /\ \A f \in 1 .. e - 1 : pc[f] # "none"
  BY DEF Spawn
<1>2. \A f \in Events : f < e => pc[f] # "none"
  BY <1>1, BoundsAssumption DEF Events
<1>3. \A f \in Events : e < f => pc[f] = "none"
  BY <1>1 DEF InOrder
<1> QED
  BY <1>1, <1>2, <1>3 DEF Goto

LEMMA TypeStep ==
  ASSUME TypeOK, InOrder, Next
  PROVE  TypeOK'
<1> USE DEF TypeOK, Maybe
<1>1. CASE HumanMoves
  <2>1. place' \in [Humans -> Maybe] /\ botChannel' = botChannel
    BY <1>1 DEF HumanMoves
  <2>2. moves' \in 0 .. MaxMoves /\ UNCHANGED <<overlap, leaving, chan, entry, faults>>
    BY <1>1, BoundsAssumption DEF HumanMoves, Move
  <2>3. pc' \in [Events -> Labels] /\ \A e \in Located' : e \in Located
    BY <1>1, SpawnFacts DEF HumanMoves, Move, Labels, HandlerLabels, Located, CallbackLabels
  <2> QED
    BY <2>1, <2>2, <2>3
<1>2. CASE BotMoves
  <2>1. botChannel' \in Maybe /\ place' = place
    BY <1>2 DEF BotMoves
  <2>2. moves' \in 0 .. MaxMoves /\ UNCHANGED <<overlap, leaving, chan, entry, faults>>
    BY <1>2, BoundsAssumption DEF BotMoves, Move
  <2>3. pc' \in [Events -> Labels] /\ \A e \in Located' : e \in Located
    BY <1>2, SpawnFacts DEF BotMoves, Move, Labels, HandlerLabels, Located, CallbackLabels
  <2> QED
    BY <2>1, <2>2, <2>3
<1>3. CASE BotDeparts
  <2>1. pc' = pc \/ Spawn
    BY <1>3 DEF BotDeparts
  <2>2. pc' \in [Events -> Labels] /\ \A e \in Located' : e \in Located
    BY <2>1, SpawnFacts DEF Labels, HandlerLabels, Located, CallbackLabels
  <2> QED
    BY <1>3, <2>2 DEF BotDeparts
<1>4. ASSUME NEW e \in Events, Handler(e) PROVE TypeOK'
  <2> USE DEF Labels, HandlerLabels, CallbackLabels, Located
  <2>1. CASE Look(e)
    BY <2>1 DEF Look, Turn, Goto, world
  <2>2. CASE Count(e)
    BY <2>2 DEF Count, Turn, Goto, world
  <2>3. CASE CancelAutoLeave(e)
    BY <2>3 DEF CancelAutoLeave, StopAnd, Turn, world
  <2>4. CASE Schedule(e)
    BY <2>4 DEF Schedule, StopAnd, Turn, world
  <2> QED
    BY <1>4, <2>1, <2>2, <2>3, <2>4 DEF Handler
<1>5. ASSUME NEW e \in Events, Fire(e) \/ Callback(e) PROVE TypeOK'
  <2> USE DEF Labels, HandlerLabels, CallbackLabels, Located, Goto, world
  <2>1. CASE Fire(e)
    BY <2>1 DEF Fire
  <2>2. CASE DeleteEntry(e)
    BY <2>2 DEF DeleteEntry
  <2>3. CASE StillInVoice(e)
    BY <2>3 DEF StillInVoice
  <2>4. CASE StillAlone(e)
    BY <2>4 DEF StillAlone
  <2>5. CASE Leave(e)
    <3>1. leaving' \in BOOLEAN
      BY <2>5 DEF Leave
    <3>2. faults' \in 0 .. MaxFaults
      BY <2>5, BoundsAssumption DEF Leave
    <3>3. pc' = [pc EXCEPT ![e] = "done"]
           /\ UNCHANGED <<overlap, botChannel, place, moves, chan, entry>>
      BY <2>5 DEF Leave
    <3> HIDE <2>5
    <3> QED
      BY <3>1, <3>2, <3>3
  <2> QED
    BY <1>5, <2>1, <2>2, <2>3, <2>4, <2>5 DEF Callback
<1>6. CASE Rest
  BY <1>6 DEF Rest, vars, world, Located
<1> QED
  BY <1>1, <1>2, <1>3, <1>4, <1>5, <1>6 DEF Next

\* A step starts one event, or one event goes on and stops at most one timer.
LEMMA StepForms ==
  ASSUME TypeOK, InOrder, Next
  PROVE  \/ \E e \in Events :
              /\ pc[e] = "none" /\ pc' = [pc EXCEPT ![e] = "look"]
              /\ \A f \in Events : f < e => pc[f] # "none"
              /\ \A f \in Events : e < f => pc[f] = "none"
         \/ \E e \in Events :
              /\ pc[e] # "none" /\ pc'[e] # "none"
              /\ \A f \in Events \ {e} :
                   pc'[f] = pc[f] \/ (pc[f] = "armed" /\ pc'[f] = "stopped")
         \/ pc' = pc
<1>1. CASE HumanMoves
  BY <1>1, SpawnFacts DEF HumanMoves, Move
<1>2. CASE BotMoves
  BY <1>2, SpawnFacts DEF BotMoves, Move
<1>3. CASE BotDeparts
  BY <1>3, SpawnFacts DEF BotDeparts
<1>4. ASSUME NEW e \in Events, Handler(e)
      PROVE  /\ pc[e] # "none" /\ pc'[e] # "none"
             /\ \A f \in Events \ {e} :
                  pc'[f] = pc[f] \/ (pc[f] = "armed" /\ pc'[f] = "stopped")
  BY <1>4 DEF TypeOK, Handler, Look, Count, CancelAutoLeave, Schedule, Turn, StopAnd, Goto
<1>5. ASSUME NEW e \in Events, Fire(e) \/ Callback(e)
      PROVE  /\ pc[e] # "none" /\ pc'[e] # "none"
             /\ \A f \in Events \ {e} : pc'[f] = pc[f]
  BY <1>5 DEF TypeOK, Callback, Fire, DeleteEntry, StillInVoice, StillAlone, Leave, Goto
<1>6. CASE Rest
  BY <1>6 DEF Rest, vars
<1> QED
  BY <1>1, <1>2, <1>3, <1>4, <1>5, <1>6 DEF Next

LEMMA InOrderStep ==
  ASSUME TypeOK, InOrder, Next
  PROVE  InOrder'
<1>1. ASSUME NEW e \in Events, pc[e] = "none", pc' = [pc EXCEPT ![e] = "look"],
             \A f \in Events : f < e => pc[f] # "none",
             \A f \in Events : e < f => pc[f] = "none"
      PROVE  InOrder'
  BY <1>1, EventsAreNumbers DEF InOrder, TypeOK
<1>2. ASSUME NEW e \in Events, pc[e] # "none", pc'[e] # "none",
             \A f \in Events \ {e} :
               pc'[f] = pc[f] \/ (pc[f] = "armed" /\ pc'[f] = "stopped")
      PROVE  InOrder'
  BY <1>2 DEF InOrder
<1>3. CASE pc' = pc
  BY <1>3 DEF InOrder
<1> QED
  BY <1>1, <1>2, <1>3, StepForms

\* A timer is armed as the guild's entry, and the entry is taken down before
\* its callback does anything else.
LEMMA EntryStep ==
  ASSUME TypeOK, InOrder, EntryIsLive, PendingIsEntry, Next
  PROVE  EntryIsLive' /\ PendingIsEntry'
<1> USE NoneIsNoChannel DEF EntryIsLive, PendingIsEntry
<1>0. \A e \in Events : e # None
  BY EventsAreNumbers
<1>1. ASSUME UNCHANGED <<overlap, entry>>, pc' = pc
      PROVE  EntryIsLive' /\ PendingIsEntry'
  BY <1>1
<1>2. ASSUME UNCHANGED <<overlap, entry>>, Spawn
      PROVE  EntryIsLive' /\ PendingIsEntry'
  BY <1>2, SpawnFacts, <1>0 DEF TypeOK
<1>3. CASE HumanMoves \/ BotMoves \/ BotDeparts
  BY <1>1, <1>2, <1>3 DEF HumanMoves, BotMoves, BotDeparts, Move
<1>4. ASSUME NEW e \in Events, Look(e) \/ Count(e)
      PROVE  EntryIsLive' /\ PendingIsEntry'
  BY <1>4, <1>0 DEF Look, Count, Turn, Goto, world, TypeOK
<1>5. ASSUME NEW e \in Events, CancelAutoLeave(e) \/ Schedule(e)
      PROVE  EntryIsLive' /\ PendingIsEntry'
  <2>1. entry' = None \/ (entry' = e /\ pc'[e] = "armed")
    BY <1>5 DEF CancelAutoLeave, Schedule, StopAnd, TypeOK
  <2>2. /\ UNCHANGED overlap
        /\ pc'[e] \in {"armed", "done"}
        /\ pc'[e] = "armed" => entry' = e
    BY <1>5 DEF CancelAutoLeave, Schedule, StopAnd, Turn, world, TypeOK
  <2>3. ASSUME "callbacks" \notin overlap, NEW f \in Events \ {e}
        PROVE  pc'[f] \notin {"armed", "delete"}
    <3>1. pc[f] # "delete"
      BY <1>5, <2>3 DEF CancelAutoLeave, Schedule, Turn, Unimpeded, Firing, CallbackLabels
    <3>2. pc'[f] = IF f = entry /\ pc[f] = "armed" THEN "stopped" ELSE pc[f]
      BY <1>5 DEF CancelAutoLeave, Schedule, StopAnd
    <3> QED
      BY <2>3, <3>1, <3>2
  <2> QED
    BY <2>1, <2>2, <2>3
<1>6. ASSUME NEW e \in Events, DeleteEntry(e)
      PROVE  EntryIsLive' /\ PendingIsEntry'
  BY <1>6, <1>0 DEF DeleteEntry, Goto, world, TypeOK
<1>7. ASSUME NEW e \in Events, Fire(e)
      PROVE  EntryIsLive' /\ PendingIsEntry'
  BY <1>7, <1>0 DEF Fire, Goto, world, TypeOK
<1>8. ASSUME NEW e \in Events, StillInVoice(e) \/ StillAlone(e) \/ Leave(e)
      PROVE  EntryIsLive' /\ PendingIsEntry'
  <2>1. /\ UNCHANGED <<overlap, entry>>
        /\ pc[e] \in {"in_voice", "alone", "leave"}
        /\ pc'[e] \in {"done", "alone", "leave"}
        /\ \A f \in Events \ {e} : pc'[f] = pc[f]
    BY <1>8 DEF StillInVoice, StillAlone, Leave, Goto, world, TypeOK
  <2> QED
    BY <2>1, <1>0 DEF TypeOK
<1>9. CASE Rest
  BY <1>9, <1>1 DEF Rest, vars, world
<1> QED
  BY <1>3, <1>4, <1>5, <1>6, <1>7, <1>8, <1>9 DEF Next, Handler, Callback

\* A new event is the newest one, and has not looked at anything yet.
LEMMA SpawnIsNewest ==
  ASSUME TypeOK, InOrder, Spawn
  PROVE  /\ Handling' # {}
         /\ \A e \in Handling' : Newest(e)' => pc'[e] = "look"
<1>1. PICK e \in Events : /\ pc[e] = "none" /\ pc' = [pc EXCEPT ![e] = "look"]
                          /\ \A f \in Events : e < f => pc[f] = "none"
  BY SpawnFacts
<1>2. e \in Handling' /\ pc'[e] = "look"
  BY <1>1 DEF Handling, HandlerLabels, TypeOK
<1>3. \A f \in Handling' : f \in Events /\ f <= e
  BY <1>1, EventsAreNumbers DEF Handling, HandlerLabels, TypeOK
<1>4. \A f \in Handling' : Newest(f)' => f = e
  BY <1>2, <1>3, EventsAreNumbers DEF Newest
<1> QED
  BY <1>2, <1>4

\* A goroutine that leaves none behind was the newest one.
LEMMA LastIsNewest ==
  ASSUME NEW e \in Events, Handling' = {},
         \A f \in Events \ {e} : f \in Handling => f \in Handling'
  PROVE  Newest(e)
<1>1. \A f \in Handling : f = e
  BY DEF Handling
<1>2. e <= e
  BY EventsAreNumbers
<1> QED
  BY <1>1, <1>2 DEF Newest

LEMMA NewestStep ==
  ASSUME TypeOK, InOrder, NewestKnows, Next
  PROVE  NewestKnows'
<1> USE DEF NewestKnows
<1>1. CASE HumanMoves \/ BotMoves
  BY <1>1, SpawnIsNewest DEF HumanMoves, BotMoves, Move
<1>2. CASE BotDeparts
  <2>1. CASE Spawn
    BY <2>1, SpawnIsNewest
  <2>2. CASE UNCHANGED <<overlap, botChannel, place, pc, chan>>
    BY <2>2 DEF Handling, Newest, Alone, HumansIn
  <2> QED
    BY <1>2, <2>1, <2>2 DEF BotDeparts
\* Another goroutine or a timer goes on: nothing else changes for the newest.
<1>3. ASSUME UNCHANGED <<overlap, botChannel, place>>, NEW e \in Events,
             \A f \in Events \ {e} :
               /\ chan'[f] = chan[f]
               /\ pc'[f] = pc[f] \/ {pc[f], pc'[f]} \cap HandlerLabels = {},
             e \in Handling' => e \in Handling,
             e \in Handling' /\ Newest(e) /\ "handlers" \notin overlap =>
               /\ pc'[e] \in {"count", "schedule"} => chan'[e] = botChannel
               /\ pc'[e] = "cancel" => ~Alone,
             e \in Handling /\ e \notin Handling' /\ "handlers" \notin overlap =>
               \A f \in Handling : e <= f
      PROVE  NewestKnows'
  <2>0. \A f \in Events \ {e} : f \in Handling' <=> f \in Handling
    BY <1>3 DEF Handling
  <2>1. SUFFICES ASSUME "handlers" \notin overlap, NEW f \in Handling', Newest(f)'
                 PROVE  /\ pc'[f] \in {"count", "schedule"} => chan'[f] = botChannel
                        /\ pc'[f] = "cancel" => ~Alone
    BY <1>3 DEF Alone, HumansIn
  <2>2. f \in Handling
    BY <1>3, <2>0 DEF Handling
  <2>3. Newest(f)
    BY <1>3, <2>0, <2>1, <2>2, EventsAreNumbers DEF Newest, Handling
  <2> QED
    BY <1>3, <2>1, <2>2, <2>3 DEF Handling, HandlerLabels
<1>4. ASSUME NEW e \in Events, Look(e) PROVE NewestKnows'
  <2>1. e \in Handling /\ UNCHANGED <<overlap, botChannel, place>>
    BY <1>4 DEF Look, Turn, world, Handling, HandlerLabels
  <2>2. \A f \in Events \ {e} : chan'[f] = chan[f] /\ pc'[f] = pc[f]
    BY <1>4 DEF Look, Goto, TypeOK
  <2>3. \/ pc'[e] = "cancel" /\ botChannel = None
        \/ pc'[e] = "count" /\ chan'[e] = botChannel
    BY <1>4 DEF Look, Goto, TypeOK
  <2>4. e \in Handling'
    BY <2>3 DEF Handling, HandlerLabels
  <2> QED
    BY <1>3, <2>1, <2>2, <2>3, <2>4 DEF Alone
<1>5. ASSUME NEW e \in Events, Count(e) PROVE NewestKnows'
  <2>1. e \in Handling /\ pc[e] = "count" /\ UNCHANGED <<overlap, botChannel, place, chan>>
    BY <1>5 DEF Count, Turn, world, Handling, HandlerLabels
  <2>2. \A f \in Events \ {e} : chan'[f] = chan[f] /\ pc'[f] = pc[f]
    BY <1>5 DEF Count, Goto, TypeOK
  <2>3. \/ pc'[e] = "cancel" /\ HumansIn(chan[e]) # {}
        \/ pc'[e] = "schedule"
    BY <1>5 DEF Count, Goto, TypeOK
  <2>4. e \in Handling'
    BY <2>3 DEF Handling, HandlerLabels
  <2> QED
    BY <1>3, <2>1, <2>2, <2>3, <2>4 DEF Alone
<1>6. ASSUME NEW e \in Events, CancelAutoLeave(e) \/ Schedule(e) PROVE NewestKnows'
  <2>1. /\ UNCHANGED <<overlap, botChannel, place, chan>>
        /\ "handlers" \notin overlap => \A f \in Handling : e <= f
    BY <1>6 DEF CancelAutoLeave, Schedule, Turn, world
  <2>2. \A f \in Events \ {e} : pc'[f] = pc[f] \/ {pc[f], pc'[f]} \cap HandlerLabels = {}
    BY <1>6 DEF CancelAutoLeave, Schedule, StopAnd, HandlerLabels
  <2>3. e \notin Handling'
    BY <1>6 DEF CancelAutoLeave, Schedule, StopAnd, Handling, HandlerLabels
  <2> QED
    BY <1>3, <2>1, <2>2, <2>3
<1>7. ASSUME NEW e \in Events, Fire(e) \/ Callback(e) PROVE NewestKnows'
  <2>1. UNCHANGED <<overlap, botChannel, place, chan>>
    BY <1>7 DEF Fire, Callback, DeleteEntry, StillInVoice, StillAlone, Leave, world
  <2>2. \A f \in Events \ {e} : pc'[f] = pc[f]
    BY <1>7 DEF Fire, Callback, DeleteEntry, StillInVoice, StillAlone, Leave, Goto, TypeOK
  <2>3. e \notin Handling /\ e \notin Handling'
    BY <1>7 DEF Fire, Callback, DeleteEntry, StillInVoice, StillAlone, Leave, Goto, TypeOK,
                Handling, HandlerLabels
  <2> QED
    BY <1>3, <2>1, <2>2, <2>3
<1>8. CASE Rest
  BY <1>8 DEF Rest, vars, world, Handling, Newest, Alone, HumansIn
<1> QED
  BY <1>1, <1>2, <1>4, <1>5, <1>6, <1>7, <1>8 DEF Next, Handler

\* A bot that is alone keeps its timer: whoever takes it away is not the
\* newest, has armed another one, or is the callback that leaves.
LEMMA AloneStep ==
  ASSUME TypeOK, InOrder, NewestKnows, AloneIsTimed, Next
  PROVE  AloneIsTimed'
<1> DEFINE Timed(e) == pc[e] \in CallbackLabels \cup {"armed"} /\ chan[e] = botChannel
<1>0. SUFFICES ASSUME "handlers" \notin overlap', Alone', Handling' = {}, ~leaving', faults' = 0
               PROVE  \E e \in Events : Timed(e)'
  BY DEF AloneIsTimed
<1>1. ~Spawn
  BY <1>0, SpawnIsNewest
<1>2. ~HumanMoves /\ ~BotMoves
  BY <1>1 DEF HumanMoves, BotMoves, Move
<1>3. CASE BotDeparts
  BY <1>0, <1>1, <1>3 DEF BotDeparts, Alone
<1>4. ASSUME UNCHANGED <<overlap, botChannel, place>>
      PROVE  Alone /\ "handlers" \notin overlap
  BY <1>0, <1>4 DEF Alone, HumansIn
<1>5. ASSUME NEW e \in Events, Look(e) \/ Count(e) PROVE FALSE
  BY <1>0, <1>5 DEF Look, Count, Goto, TypeOK, Handling, HandlerLabels
<1>6. ASSUME NEW e \in Events, CancelAutoLeave(e) \/ Schedule(e)
      PROVE  \E f \in Events : Timed(f)'
  <2>1. UNCHANGED <<overlap, botChannel, place>>
    BY <1>6 DEF CancelAutoLeave, Schedule, Turn, world
  <2>2. \A f \in Events \ {e} : f \in Handling => f \in Handling'
    BY <1>6 DEF CancelAutoLeave, Schedule, StopAnd, Handling, HandlerLabels
  <2>3. Newest(e) /\ e \in Handling
    BY <1>0, <1>6, <2>2, LastIsNewest DEF CancelAutoLeave, Schedule, Turn, Handling, HandlerLabels
  <2>4. ~CancelAutoLeave(e)
    BY <1>4, <2>1, <2>3 DEF NewestKnows, CancelAutoLeave, Turn
  <2>5. Schedule(e) /\ chan[e] = botChannel
    BY <1>4, <1>6, <2>1, <2>3, <2>4 DEF NewestKnows, Schedule, Turn
  <2>6. pc'[e] = "armed" /\ chan' = chan /\ botChannel' = botChannel
    BY <2>1, <2>5 DEF Schedule, StopAnd
  <2> QED
    BY <2>5, <2>6
<1>7. ASSUME NEW e \in Events, Fire(e) \/ Callback(e)
      PROVE  \E f \in Events : Timed(f)'
  <2>1. UNCHANGED <<overlap, botChannel, place, chan>>
    BY <1>7 DEF Fire, Callback, DeleteEntry, StillInVoice, StillAlone, Leave, world
  <2>2. ~leaving /\ faults = 0
    BY <1>0, <1>7 DEF Fire, Callback, DeleteEntry, StillInVoice, StillAlone, Leave, world, TypeOK
  <2>3. \A f \in Events \ {e} : pc'[f] = pc[f]
    BY <1>7 DEF Fire, Callback, DeleteEntry, StillInVoice, StillAlone, Leave, Goto, TypeOK
  <2>4. Handling = {}
    <3>1. e \notin Handling
      BY <1>7 DEF Fire, Callback, DeleteEntry, StillInVoice, StillAlone, Leave,
                  Handling, HandlerLabels
    <3> QED
      BY <1>0, <2>3, <3>1 DEF Handling
  <2>5. PICK f \in Events : Timed(f)
    BY <1>4, <2>1, <2>2, <2>4 DEF AloneIsTimed
  <2>6. CASE f # e
    BY <2>1, <2>3, <2>5, <2>6
  <2>7. CASE f = e /\ (Fire(e) \/ DeleteEntry(e))
    BY <2>1, <2>5, <2>7 DEF Fire, DeleteEntry, Goto, CallbackLabels, TypeOK
  <2>8. CASE f = e /\ (StillInVoice(e) \/ StillAlone(e))
    BY <1>4, <2>1, <2>5, <2>8 DEF StillInVoice, StillAlone, Goto, CallbackLabels, TypeOK, Alone
  <2>9. ~Leave(e)
    <3>1. faults' # faults + 1
      BY <1>0, <2>2
    <3>2. Leave(e) => leaving' = (leaving \/ botChannel # None)
      BY <3>1 DEF Leave
    <3>3. botChannel # None
      BY <1>4, <2>1 DEF Alone
    <3> QED
      BY <1>0, <3>2, <3>3, Zenon
  <2> QED
    BY <1>7, <2>6, <2>7, <2>8, <2>9 DEF Callback
<1>8. CASE Rest
  BY <1>0, <1>8 DEF Rest, vars, world, AloneIsTimed, Alone, HumansIn, Handling
<1> QED
  BY <1>2, <1>3, <1>5, <1>6, <1>7, <1>8 DEF Next, Handler

\* Without overlaps a timer fires only when all goroutines are done, for the
\* channel the newest of them saw, and its callback is alone until it ends.
LEMMA CallbackStep ==
  ASSUME IInv, Next
  PROVE  CallbackKnows'
<1> USE DEF IInv
<1>0. SUFFICES ASSUME overlap' = {}, overlap = {} PROVE CallbackKnows'
  <2>1. overlap' = overlap
    BY DEF Next, HumanMoves, BotMoves, BotDeparts, Move, Handler, Callback, Look, Count,
           CancelAutoLeave, Schedule, Fire, DeleteEntry, StillInVoice, StillAlone, Leave,
           Turn, Rest, vars, world
  <2> QED
    BY <2>1 DEF CallbackKnows
<1>1. CallbackKnows!2
  BY <1>0 DEF CallbackKnows
\* While nothing fires, only Fire begins a callback.
<1>2. ASSUME Firing = {}, Spawn PROVE CallbackKnows'
  <2>1. Firing' = {}
    BY <1>2, SpawnFacts DEF Firing, CallbackLabels, TypeOK
  <2> QED
    BY <2>1, <1>2, SpawnIsNewest DEF CallbackKnows, Firing, CallbackLabels
<1>3. CASE HumanMoves \/ BotMoves
  BY <1>0, <1>2, <1>3 DEF HumanMoves, BotMoves, Move, Unimpeded
<1>4. CASE BotDeparts
  <2>1. CASE Spawn
    BY <1>0, <1>2, <1>4, <2>1 DEF BotDeparts, Unimpeded
  <2>2. CASE UNCHANGED <<botChannel, place, pc, chan>>
    BY <1>1, <2>2 DEF CallbackKnows, Handling, Firing, HumansIn
  <2> QED
    BY <1>4, <2>1, <2>2 DEF BotDeparts
<1>5. ASSUME NEW e \in Events, Look(e) \/ Count(e) PROVE CallbackKnows'
  <2>1. Firing = {} /\ e \in Handling'
    BY <1>0, <1>5 DEF Look, Count, Turn, Unimpeded, Goto, TypeOK, Handling, HandlerLabels
  <2>2. Firing' = {}
    BY <1>5, <2>1 DEF Look, Count, Goto, TypeOK, Firing, CallbackLabels
  <2> QED
    BY <2>1, <2>2 DEF CallbackKnows, Firing, CallbackLabels
<1>6. ASSUME NEW e \in Events, CancelAutoLeave(e) \/ Schedule(e) PROVE CallbackKnows'
  <2>1. Firing = {} /\ UNCHANGED <<botChannel, place, chan>>
    BY <1>0, <1>6 DEF CancelAutoLeave, Schedule, Turn, Unimpeded, world
  <2>2. Firing' = {}
    BY <1>6, <2>1 DEF CancelAutoLeave, Schedule, StopAnd, Firing, CallbackLabels
  <2>3. ASSUME NEW f \in Events, pc'[f] = "armed" PROVE f = e /\ Schedule(e)
    BY <1>0, <1>6, <2>3 DEF PendingIsEntry, CancelAutoLeave, Schedule, StopAnd
  <2>4. Handling' = {} /\ Schedule(e) => chan[e] = botChannel
    <3>1. \A f \in Events \ {e} : f \in Handling => f \in Handling'
      BY <1>6 DEF CancelAutoLeave, Schedule, StopAnd, Handling, HandlerLabels
    <3> QED
      BY <1>0, <3>1, LastIsNewest DEF NewestKnows, Schedule, Turn, Handling, HandlerLabels
  <2> QED
    BY <2>1, <2>2, <2>3, <2>4 DEF CallbackKnows, Firing, CallbackLabels
<1>7. ASSUME NEW e \in Events, Fire(e) \/ Callback(e) PROVE CallbackKnows'
  <2>1. UNCHANGED <<botChannel, place, chan>>
    BY <1>7 DEF Fire, Callback, DeleteEntry, StillInVoice, StillAlone, Leave, world
  <2>2. /\ pc[e] \in {"armed"} \cup CallbackLabels
        /\ \A f \in Events \ {e} : pc'[f] = pc[f]
        /\ pc'[e] \in CallbackLabels \cup {"done"}
    BY <1>7 DEF Fire, Callback, DeleteEntry, StillInVoice, StillAlone, Leave, Goto, TypeOK,
                CallbackLabels
  <2>3. Handling = {}
    BY <1>0, <1>1, <1>7, <2>2 DEF Fire, Callback, DeleteEntry, StillInVoice, StillAlone, Leave,
                                  Firing, CallbackLabels
  <2>4. Handling' = {}
    BY <2>2, <2>3 DEF Handling, HandlerLabels, CallbackLabels
  <2>5. pc'[e] = "leave" => HumansIn(chan[e]) = {}
    BY <1>7 DEF Fire, Callback, DeleteEntry, StillInVoice, StillAlone, Leave, Goto, TypeOK
  <2> QED
    BY <1>1, <2>1, <2>2, <2>3, <2>4, <2>5 DEF CallbackKnows, HumansIn, CallbackLabels
<1>8. CASE Rest
  BY <1>1, <1>8 DEF Rest, vars, world, CallbackKnows, Handling, Firing, HumansIn
<1> QED
  BY <1>3, <1>4, <1>5, <1>6, <1>7, <1>8 DEF Next, Handler

-----------------------------------------------------------------------------
(* The theorems.                                                           *)

LEMMA InitIInv == Init => IInv
<1> SUFFICES ASSUME Init PROVE IInv
  OBVIOUS
<1>1. TypeOK
  <2>1. overlap \subseteq Overlaps /\ 0 \in 0 .. MaxMoves /\ 0 \in 0 .. MaxFaults
    BY BoundsAssumption DEF Init
  <2>2. Located = {}
    BY DEF Init, Located, CallbackLabels
  <2>3. leaving \in BOOLEAN
    BY DEF Init
  <2>4. pc \in [Events -> Labels] /\ chan \in [Events -> Maybe]
    BY DEF Init, Labels, Maybe
  <2> QED
    BY <2>1, <2>2, <2>3, <2>4 DEF Init, TypeOK, Maybe
<1>2. InOrder /\ EntryIsLive /\ PendingIsEntry /\ Handling = {} /\ Firing = {}
  BY DEF Init, InOrder, EntryIsLive, PendingIsEntry, Handling, HandlerLabels,
         Firing, CallbackLabels
<1>3. NewestKnows /\ AloneIsTimed /\ CallbackKnows
  BY <1>2 DEF Init, NewestKnows, AloneIsTimed, Alone, CallbackKnows, CallbackLabels
<1> QED
  BY <1>1, <1>2, <1>3 DEF IInv

LEMMA StepIInv == IInv /\ [Next]_vars => IInv'
<1> SUFFICES ASSUME IInv, [Next]_vars PROVE IInv'
  OBVIOUS
<1>1. CASE Next
  BY <1>1, TypeStep, InOrderStep, EntryStep, NewestStep, AloneStep, CallbackStep DEF IInv
<1>2. CASE UNCHANGED vars
  BY <1>2 DEF vars, world, IInv, TypeOK, Located, InOrder, EntryIsLive, PendingIsEntry,
              NewestKnows, Newest, Handling, Firing, Alone, HumansIn, AloneIsTimed, CallbackKnows
<1> QED
  BY <1>1, <1>2

LEMMA Invariant == Spec => []IInv
BY InitIInv, StepIInv, PTL DEF Spec

\* Every variable keeps its type, and whoever goes on past the first look has
\* a channel to look at.
THEOREM TypeCorrect == Spec => []TypeOK
<1>1. IInv => TypeOK
  BY DEF IInv
<1> QED
  BY <1>1, Invariant, PTL

\* leaveTimers never keeps a timer that was stopped or whose callback is past
\* the deletion of the entry.
THEOREM EntryLive == Spec => []EntryIsLive
<1>1. IInv => EntryIsLive
  BY DEF IInv
<1> QED
  BY <1>1, Invariant, PTL

\* Where no callback is overtaken, cancelAutoLeave finds every armed timer.
THEOREM ArmedFound == Spec => []ArmedIsEntry
<1>1. IInv => ArmedIsEntry
  BY DEF IInv, PendingIsEntry, ArmedIsEntry
<1> QED
  BY <1>1, Invariant, PTL

\* Where goroutines run in order, a bot that is alone is timed, whatever
\* callbacks are overtaken.
THEOREM AloneTimed == Spec => []AloneIsTimed
<1>1. IInv => AloneIsTimed
  BY DEF IInv
<1> QED
  BY <1>1, Invariant, PTL

\* Without overlaps, the callback that leaves has looked at the right channel.
THEOREM NobodyLeft == Spec => LeavesNobodyBehind
<1>1. ASSUME IInv, Next, overlap = {}, leaving', ~leaving
      PROVE  HumansIn(botChannel) = {}
  <2>1. PICK e \in Events : Leave(e)
    BY <1>1 DEF Next, HumanMoves, BotMoves, BotDeparts, Move, Handler, Callback, Look, Count,
                CancelAutoLeave, Schedule, Fire, DeleteEntry, StillInVoice, StillAlone,
                Turn, Rest, vars, world
  <2>2. e \in Firing /\ pc[e] = "leave"
    BY <2>1 DEF Leave, Firing, CallbackLabels
  <2>3. chan[e] = botChannel /\ HumansIn(chan[e]) = {}
    BY <1>1, <2>2 DEF IInv, CallbackKnows, CallbackLabels
  <2> QED
    BY <2>3
<1>2. IInv /\ [Next]_vars =>
        [overlap = {} /\ leaving' /\ ~leaving => HumansIn(botChannel) = {}]_vars
  BY <1>1
<1> QED
  BY <1>2, Invariant, PTL DEF Spec, LeavesNobodyBehind

=============================================================================
