------------------------ MODULE PlaybackOrderProofs ------------------------
(***************************************************************************)
(* RequestOrder for any constants: unless users reorder it, the queue      *)
(* keeps the tracks of one request in the order of the request.            *)
(*                                                                         *)
(* RequestOrder alone is not inductive, for it says nothing of the tracks  *)
(* that handlers still carry.  OrderInv adds them: what a handler carries  *)
(* is in order, belongs to one request that no other handler carries, and  *)
(* comes after whatever of that request is queued.                         *)
(***************************************************************************)
EXTENDS PlaybackProofs

\* Labels at which nothing of the request in hand has been queued yet.
Fresh == {"play", "stale_playing", "stale_paused", "stale_clear", "stale_clock",
          "resolve", "enq_playing", "enq_paused", "enq_active", "set_active", "set_now"}

\* Labels at which a handler has tracks left to queue.
Pending == Fresh \cup {"append", "start", "tail"}

\* The code of loop modes and reordering edits.
Reordering == {"boost", "shuffle", "loop", "end_now", "end_finished", "requeue"}

Queued(q) == {q.items[i] : i \in 1 .. Len(q.items)} \cup ({q.now} \ {None})

\* Track t belongs to one of the first k requests.
Minted(t, k) == t.req \in 1 .. k /\ t.pos \in Nat

QueueOrder(q, k) ==
  /\ q.loop = "off"
  /\ \A t \in Queued(q) : Minted(t, k)
  /\ \A i, j \in 1 .. Len(q.items) : i < j => InOrder(q.items[i], q.items[j])
  /\ q.now # None => \A i \in 1 .. Len(q.items) : InOrder(q.now, q.items[i])

\* At "start" the first track in hand is already the current one.
First(l) == IF l = "start" THEN 2 ELSE 1

LineOK(l, s, Q, k) ==
  l \in Pending =>
    /\ \A i \in 1 .. Len(s) : Minted(s[i], k)
    /\ \A i, j \in 1 .. Len(s) :
         s[i].req = s[j].req /\ (i < j => s[i].pos < s[j].pos)
    /\ \A t \in Q : \A j \in First(l) .. Len(s) :
         /\ InOrder(t, s[j])
         /\ l \in Fresh => t.req # s[j].req

Apart(l1, s1, l2, s2) ==
  l1 \in Pending /\ l2 \in Pending =>
    \A i \in 1 .. Len(s1) : \A j \in 1 .. Len(s2) : s1[i].req # s2[j].req

OrderInv ==
  /\ QueueOrder(queue, requests)
  /\ \A h \in Handlers : LineOK(pc[h], arg[h], Queued(queue), requests)
  /\ \A g, h \in Handlers : g # h => Apart(pc[g], arg[g], pc[h], arg[h])
  /\ \A p \in Processes : pc[p] \notin Reordering

-----------------------------------------------------------------------------
(* The queue operations.                                                   *)

LEMMA ClearOrder ==
  ASSUME NEW q \in Queue, NEW k, QueueOrder(q, k)
  PROVE  QueueOrder(Clear(q), k) /\ Queued(Clear(q)) = {}
<1>1. /\ Clear(q).items = <<>> /\ Clear(q).now = None
      /\ Clear(q).loop = q.loop /\ Len(<<>>) = 0
  BY DEF Clear, Queue
<1> QED
  BY <1>1 DEF QueueOrder, Queued

LEMMA SetActiveOrder ==
  ASSUME NEW q \in Queue, NEW k, NEW a, QueueOrder(q, k)
  PROVE  QueueOrder(SetActive(q, a), k) /\ Queued(SetActive(q, a)) = Queued(q)
<1>1. /\ SetActive(q, a).items = q.items /\ SetActive(q, a).now = q.now
      /\ SetActive(q, a).loop = q.loop
  BY DEF SetActive, Queue
<1> QED
  BY <1>1 DEF QueueOrder, Queued

\* The popped track came before all that stay.
LEMMA AdvanceOrder ==
  ASSUME NEW q \in Queue, NEW k, QueueOrder(q, k)
  PROVE  QueueOrder(Advance(q), k) /\ Queued(Advance(q)) \subseteq Queued(q)
<1> DEFINE r == Advance(q)
<1>1. CASE q.items = <<>>
  <2>1. r.items = <<>> /\ r.now = None /\ r.loop = q.loop /\ Len(<<>>) = 0
    BY <1>1 DEF Advance, Queue
  <2> QED
    BY <2>1 DEF QueueOrder, Queued
<1>2. CASE q.items # <<>>
  <2>1. q.items \in Seq(Track) /\ Len(q.items) \in Nat \ {0}
    BY <1>2, EmptySeq DEF Queue
  <2>2. r.items = Tail(q.items) /\ r.now = q.items[1] /\ r.loop = q.loop
    BY <1>2, <2>1 DEF Advance, Queue
  <2>3. /\ Len(r.items) = Len(q.items) - 1
        /\ \A i \in 1 .. Len(r.items) : r.items[i] = q.items[i + 1]
    BY <1>2, <2>1, <2>2, HeadTailProperties
  <2> HIDE DEF r
  <2>4. Queued(r) \subseteq Queued(q)
    BY <2>1, <2>2, <2>3 DEF Queued
  <2>5. \A i, j \in 1 .. Len(r.items) : i < j => InOrder(r.items[i], r.items[j])
    BY <2>1, <2>3 DEF QueueOrder
  <2>6. \A i \in 1 .. Len(r.items) : InOrder(r.now, r.items[i])
    BY <2>1, <2>2, <2>3 DEF QueueOrder
  <2> QED
    BY <2>2, <2>4, <2>5, <2>6 DEF QueueOrder, r
<1> QED
  BY <1>1, <1>2

LEMMA RemoveOrder ==
  ASSUME NEW q \in Queue, NEW k, NEW i \in Nat, QueueOrder(q, k)
  PROVE  /\ QueueOrder(RemoveUpcoming(q, i), k)
         /\ Queued(RemoveUpcoming(q, i)) \subseteq Queued(q)
<1> DEFINE r == RemoveUpcoming(q, i)
<1>1. CASE ~ValidIndex(q, i)
  BY <1>1 DEF RemoveUpcoming
<1>2. CASE ValidIndex(q, i)
  <2>1. q.items \in Seq(Track) /\ i \in 1 .. Len(q.items) /\ Len(q.items) \in Nat
    BY <1>2, LenProperties DEF Queue, ValidIndex
  <2>2. r.items = RemoveAt(q.items, i) /\ r.now = q.now /\ r.loop = q.loop
    BY <1>2 DEF RemoveUpcoming, Queue
  <2>3. /\ Len(r.items) = Len(q.items) - 1
        /\ \A j \in 1 .. Len(r.items) :
             r.items[j] = q.items[IF j < i THEN j ELSE j + 1]
    BY <2>1, <2>2, RemoveAtProperties
  <2> HIDE DEF r
  <2>4. Queued(r) \subseteq Queued(q)
    BY <2>1, <2>2, <2>3 DEF Queued
  <2>5. \A j, m \in 1 .. Len(r.items) : j < m => InOrder(r.items[j], r.items[m])
    <3> SUFFICES ASSUME NEW j \in 1 .. Len(r.items), NEW m \in 1 .. Len(r.items), j < m
                 PROVE  InOrder(r.items[j], r.items[m])
      OBVIOUS
    <3> DEFINE from(n) == IF n < i THEN n ELSE n + 1
    <3>1. /\ from(j) \in 1 .. Len(q.items) /\ from(m) \in 1 .. Len(q.items)
          /\ from(j) < from(m)
      BY <2>1, <2>3
    <3>2. r.items[j] = q.items[from(j)] /\ r.items[m] = q.items[from(m)]
      BY <2>3
    <3> HIDE DEF from
    <3> QED
      BY <3>1, <3>2 DEF QueueOrder
  <2>6. r.now # None => \A j \in 1 .. Len(r.items) : InOrder(r.now, r.items[j])
    BY <2>1, <2>2, <2>3 DEF QueueOrder
  <2> QED
    BY <2>2, <2>4, <2>5, <2>6 DEF QueueOrder, r
<1> QED
  BY <1>1, <1>2

\* A track that comes after everything of its request can be appended.
LEMMA EnqueueOrder ==
  ASSUME NEW q \in Queue, NEW t \in Track, NEW k, QueueOrder(q, k), Minted(t, k),
         \A u \in Queued(q) : InOrder(u, t)
  PROVE  /\ QueueOrder(Enqueue(q, t), k)
         /\ Queued(Enqueue(q, t)) \subseteq Queued(q) \cup {t}
<1> DEFINE r == Enqueue(q, t)
<1>1. q.items \in Seq(Track) /\ Len(q.items) \in Nat
  BY LenProperties DEF Queue
<1>2. r.items = Append(q.items, t) /\ r.now = q.now /\ r.loop = q.loop
  BY DEF Enqueue, Queue
<1>3. /\ Len(r.items) = Len(q.items) + 1
      /\ \A i \in 1 .. Len(q.items) : r.items[i] = q.items[i]
      /\ r.items[Len(q.items) + 1] = t
  BY <1>1, <1>2, AppendProperties
<1> HIDE DEF r
<1>4. Queued(r) \subseteq Queued(q) \cup {t}
  BY <1>1, <1>2, <1>3 DEF Queued
<1>5. \A i, j \in 1 .. Len(r.items) : i < j => InOrder(r.items[i], r.items[j])
  <2> SUFFICES ASSUME NEW i \in 1 .. Len(r.items), NEW j \in 1 .. Len(r.items), i < j
               PROVE  InOrder(r.items[i], r.items[j])
    OBVIOUS
  <2>1. i \in 1 .. Len(q.items) /\ r.items[i] = q.items[i] /\ q.items[i] \in Queued(q)
    BY <1>1, <1>3 DEF Queued
  <2>2. CASE j \in 1 .. Len(q.items)
    BY <1>3, <2>1, <2>2 DEF QueueOrder
  <2>3. CASE j = Len(q.items) + 1
    BY <1>3, <2>1, <2>3
  <2> QED
    BY <1>1, <1>3, <2>2, <2>3
<1>6. r.now # None => \A i \in 1 .. Len(r.items) : InOrder(r.now, r.items[i])
  <2> SUFFICES ASSUME q.now # None, NEW i \in 1 .. Len(r.items)
               PROVE  InOrder(q.now, r.items[i])
    BY <1>2
  <2>1. CASE i \in 1 .. Len(q.items)
    BY <1>3, <2>1 DEF QueueOrder
  <2>2. CASE i = Len(q.items) + 1
    BY <1>3, <2>2 DEF Queued
  <2> QED
    BY <1>1, <1>3, <2>1, <2>2
<1> QED
  BY <1>2, <1>4, <1>5, <1>6 DEF QueueOrder, r

\* A track of a request that has nothing queued can become the current one.
LEMMA SetNowOrder ==
  ASSUME NEW q \in Queue, NEW t \in Track, NEW k, QueueOrder(q, k), Minted(t, k),
         \A u \in Queued(q) : u.req # t.req
  PROVE  /\ QueueOrder(SetNowPlaying(q, t), k)
         /\ Queued(SetNowPlaying(q, t)) \subseteq Queued(q) \cup {t}
<1> DEFINE r == SetNowPlaying(q, t)
<1>1. r.items = q.items /\ r.now = t /\ r.loop = q.loop
  BY DEF SetNowPlaying, Queue
<1> HIDE DEF r
<1>2. Queued(r) \subseteq Queued(q) \cup {t}
  BY <1>1 DEF Queued
<1>3. \A i \in 1 .. Len(r.items) : InOrder(r.now, r.items[i])
  BY <1>1 DEF Queued, InOrder
<1> QED
  BY <1>1, <1>2, <1>3 DEF QueueOrder, r

-----------------------------------------------------------------------------
(* Steps.                                                                  *)

\* p goes on at label l with the tracks s in hand.
GoesOn(p, l, s) ==
  /\ pc' = [pc EXCEPT ![p] = l]
  /\ arg' = [arg EXCEPT ![p] = s]
  /\ requests' = requests

InHand(p, t) ==
  p \in Handlers /\ pc[p] \in Pending /\ \E j \in 1 .. Len(arg[p]) : t = arg[p][j]

\* A process that queues nothing but its own tracks, and takes no new ones,
\* cannot disturb what the others carry.
LEMMA StepOrder ==
  ASSUME TypeOK, OrderInv, NEW p \in Processes, NEW l, NEW s, GoesOn(p, l, s),
         l \notin Reordering, QueueOrder(queue', requests),
         \A t \in Queued(queue') : t \in Queued(queue) \/ InHand(p, t),
         p \in Handlers => LineOK(l, s, Queued(queue'), requests),
         p \in Handlers /\ l \in Pending => \A i \in 1 .. Len(s) : InHand(p, s[i])
  PROVE  OrderInv'
<1>1. /\ \A q \in Processes : q # p => pc'[q] = pc[q] /\ arg'[q] = arg[q]
      /\ pc'[p] = l /\ arg'[p] = s /\ requests' = requests
  BY DEF GoesOn, TypeOK, ControlOK
<1>2. Handlers \subseteq Processes
  BY DEF Processes
<1>3. QueueOrder(queue, requests)'
  BY <1>1 DEF QueueOrder, Queued, Minted, InOrder
<1>4. ASSUME NEW h \in Handlers
      PROVE  LineOK(pc'[h], arg'[h], Queued(queue'), requests')
  <2>1. CASE h = p
    BY <1>1, <2>1
  <2>2. CASE h # p
    <3> SUFFICES ASSUME pc[h] \in Pending
                 PROVE  LineOK(pc[h], arg[h], Queued(queue'), requests)
      BY <1>1, <1>2, <2>2 DEF LineOK
    <3>1. LineOK(pc[h], arg[h], Queued(queue), requests)
      BY DEF OrderInv
    <3>2. ASSUME NEW t \in Queued(queue'), NEW j \in First(pc[h]) .. Len(arg[h])
          PROVE  /\ InOrder(t, arg[h][j])
                 /\ pc[h] \in Fresh => t.req # arg[h][j].req
      <4>1. CASE t \in Queued(queue)
        BY <3>1, <4>1 DEF LineOK
      <4>2. CASE InHand(p, t)
        <5>1. Apart(pc[p], arg[p], pc[h], arg[h])
          BY <2>2, <4>2 DEF InHand, OrderInv
        <5>2. arg[h] \in Seq(Track) /\ Len(arg[h]) \in Nat
          BY <1>2, LenProperties DEF TypeOK, ControlOK
        <5>3. j \in 1 .. Len(arg[h])
          BY <5>2 DEF First
        <5>4. t.req # arg[h][j].req
          BY <4>2, <5>1, <5>3 DEF InHand, Apart
        <5> QED
          BY <5>4 DEF InOrder
      <4> QED
        BY <4>1, <4>2
    <3> QED
      BY <3>1, <3>2 DEF LineOK
  <2> QED
    BY <2>1, <2>2
<1>5. ASSUME NEW g \in Handlers, NEW h \in Handlers, g # h
      PROVE  Apart(pc'[g], arg'[g], pc'[h], arg'[h])
  <2>1. /\ g # p => pc'[g] = pc[g] /\ arg'[g] = arg[g]
        /\ h # p => pc'[h] = pc[h] /\ arg'[h] = arg[h]
    BY <1>1, <1>2
  <2>2. Apart(pc[g], arg[g], pc[h], arg[h])
    BY <1>5 DEF OrderInv
  <2>3. CASE g = p
    BY <1>1, <1>5, <2>1, <2>2, <2>3 DEF Apart, InHand
  <2>4. CASE h = p
    BY <1>1, <1>5, <2>1, <2>2, <2>4 DEF Apart, InHand
  <2>5. CASE g # p /\ h # p
    BY <2>1, <2>2, <2>5
  <2> QED
    BY <2>3, <2>4, <2>5
<1>6. \A q \in Processes : pc'[q] \notin Reordering
  BY <1>1 DEF OrderInv
<1> QED
  BY <1>3, <1>4, <1>5, <1>6 DEF OrderInv, LineOK, Apart, Queued, First, Minted, InOrder

\* Steps to a label without tracks left to queue.
LEMMA DoneOrder ==
  ASSUME TypeOK, OrderInv, NEW p \in Processes, NEW l, NEW s, GoesOn(p, l, s),
         l \notin Reordering, l \notin Pending,
         QueueOrder(queue', requests), Queued(queue') \subseteq Queued(queue)
  PROVE  OrderInv'
<1>1. LineOK(l, s, Queued(queue'), requests)
  BY DEF LineOK
<1> QED
  BY <1>1, StepOrder

\* Steps of a request that has queued nothing and goes on with all of it.
LEMMA FreshOrder ==
  ASSUME TypeOK, OrderInv, NEW h \in Handlers, NEW l \in Fresh \cup {"append"},
         pc[h] \in Fresh, GoesOn(h, l, arg[h]),
         QueueOrder(queue', requests), Queued(queue') \subseteq Queued(queue)
  PROVE  OrderInv'
<1>1. First(l) = 1 /\ First(pc[h]) = 1 /\ pc[h] \in Pending /\ l \notin Reordering
  BY DEF First, Fresh, Pending, Reordering
<1>2. LineOK(l, arg[h], Queued(queue'), requests)
  BY <1>1 DEF OrderInv, LineOK
<1>3. \A i \in 1 .. Len(arg[h]) : InHand(h, arg[h][i])
  BY <1>1 DEF InHand
<1>4. h \in Processes
  BY DEF Processes
<1> QED
  BY <1>1, <1>2, <1>3, <1>4, StepOrder

\* The tail of the tracks in hand, with nothing but the first one queued on
\* top of what was.
LEMMA TailOrder ==
  ASSUME TypeOK, OrderInv, NEW h \in Handlers, pc[h] \in {"append", "start", "tail"},
         arg[h] # <<>>, NEW Q, \A t \in Q : t \in Queued(queue) \/ t = Head(arg[h]),
         NEW l \in {"append", "tail"}
  PROVE  /\ LineOK(l, Tail(arg[h]), Q, requests)
         /\ \A i \in 1 .. Len(Tail(arg[h])) : InHand(h, Tail(arg[h])[i])
<1> DEFINE s == arg[h]
           u == Tail(s)
<1>1. s \in Seq(Track) /\ s # <<>>
  BY DEF TypeOK, ControlOK, Processes
<1>2. /\ Len(s) \in Nat \ {0} /\ Head(s) = s[1] /\ Len(u) = Len(s) - 1
      /\ \A i \in 1 .. Len(u) : u[i] = s[i + 1]
  BY <1>1, EmptySeq, HeadTailProperties
<1>3. LineOK(pc[h], s, Queued(queue), requests) /\ pc[h] \in Pending
  BY DEF OrderInv, Pending
<1>4. First(l) = 1 /\ l \notin Fresh /\ First(pc[h]) \in {1, 2}
  BY DEF First, Fresh
<1> HIDE DEF s, u
<1>5. \A i \in 1 .. Len(u) : Minted(u[i], requests)
  BY <1>2, <1>3 DEF LineOK
<1>6. \A i, j \in 1 .. Len(u) : u[i].req = u[j].req /\ (i < j => u[i].pos < u[j].pos)
  BY <1>2, <1>3 DEF LineOK
<1>7. ASSUME NEW t \in Q, NEW j \in 1 .. Len(u)
      PROVE  InOrder(t, u[j])
  <2>1. j + 1 \in 2 .. Len(s) /\ u[j] = s[j + 1]
    BY <1>2
  <2>2. CASE t \in Queued(queue)
    <3>1. j + 1 \in First(pc[h]) .. Len(s)
      BY <1>2, <1>4, <2>1
    <3> QED
      BY <1>3, <2>1, <2>2, <3>1 DEF LineOK
  <2>3. CASE t = s[1]
    BY <1>2, <1>3, <2>1, <2>3 DEF LineOK, InOrder
  <2> QED
    BY <1>2, <2>2, <2>3 DEF s
<1>8. \A i \in 1 .. Len(u) : InHand(h, u[i])
  <2> SUFFICES ASSUME NEW i \in 1 .. Len(u) PROVE InHand(h, u[i])
    OBVIOUS
  <2>1. i + 1 \in 1 .. Len(s) /\ u[i] = s[i + 1]
    BY <1>2
  <2> QED
    BY <1>3, <2>1 DEF InHand, s
<1>9. LineOK(l, u, Q, requests)
  BY <1>4, <1>5, <1>6, <1>7 DEF LineOK
<1> QED
  BY <1>8, <1>9 DEF s, u

\* The first track in hand while nothing or only its predecessors are queued.
LEMMA HeadInHand ==
  ASSUME TypeOK, OrderInv, NEW h \in Handlers, pc[h] \in Pending, arg[h] # <<>>
  PROVE  /\ Head(arg[h]) \in Track /\ Minted(Head(arg[h]), requests)
         /\ InHand(h, Head(arg[h]))
         /\ pc[h] # "start" => \A u \in Queued(queue) : InOrder(u, Head(arg[h]))
         /\ pc[h] \in Fresh => \A u \in Queued(queue) : u.req # Head(arg[h]).req
<1>1. /\ arg[h] \in Seq(Track)
  BY DEF TypeOK, ControlOK, Processes
<1>2. Len(arg[h]) \in Nat \ {0} /\ Head(arg[h]) = arg[h][1] /\ Head(arg[h]) \in Track
  BY <1>1, EmptySeq, HeadTailProperties
<1>3. 1 \in 1 .. Len(arg[h]) /\ (pc[h] # "start" => First(pc[h]) = 1)
  BY <1>2 DEF First
<1>4. pc[h] \in Fresh => pc[h] # "start"
  BY DEF Fresh
<1>5. LineOK(pc[h], arg[h], Queued(queue), requests)
  BY DEF OrderInv
<1> QED
  BY <1>2, <1>3, <1>4, <1>5 DEF LineOK, InHand

-----------------------------------------------------------------------------
(* The methods.                                                            *)

LEMMA MoveGoesOn ==
  ASSUME NEW p, NEW l, NEW s, Move(p, l, s), requests' = requests
  PROVE  GoesOn(p, l, s)
BY DEF Move, GoesOn

LEMMA SameQueueOrder ==
  ASSUME OrderInv, queue' = queue
  PROVE  QueueOrder(queue', requests) /\ Queued(queue') \subseteq Queued(queue)
BY DEF OrderInv

LEMMA BranchDone ==
  ASSUME TypeOK, OrderInv, NEW p \in Processes, NEW from, NEW cond, NEW yes, NEW no,
         {yes, no} \cap (Reordering \cup Pending) = {}, Branch(p, from, cond, yes, no)
  PROVE  OrderInv'
<1> DEFINE l == IF cond THEN yes ELSE no
<1>1. PICK s : Move(p, l, s)
  BY DEF Branch, Finish, Goto
<1>2. GoesOn(p, l, s)
  BY <1>1, MoveGoesOn DEF Branch, bounds
<1>3. l \notin Reordering /\ l \notin Pending
  OBVIOUS
<1>4. queue' = queue
  BY DEF Branch
<1> HIDE DEF l
<1> QED
  BY <1>2, <1>3, <1>4, DoneOrder, SameQueueOrder

LEMMA BranchFresh ==
  ASSUME TypeOK, OrderInv, NEW h \in Handlers, NEW from \in Fresh, NEW cond,
         NEW yes \in Fresh \cup {"append"}, NEW no \in Fresh \cup {"append"},
         Branch(h, from, cond, yes, no)
  PROVE  OrderInv'
<1> DEFINE l == IF cond THEN yes ELSE no
<1>1. l \in Fresh \cup {"append"} /\ l # "idle"
  BY DEF Fresh
<1>2. Move(h, l, arg[h]) /\ queue' = queue /\ requests' = requests /\ pc[h] \in Fresh
  BY <1>1 DEF Branch, Goto, bounds
<1> HIDE DEF l
<1> QED
  BY <1>1, <1>2, MoveGoesOn, FreshOrder, SameQueueOrder

LEMMA ResetStaleQueueOrder ==
  ASSUME TypeOK, OrderInv, NEW h \in Handlers, ResetStaleQueue(h)
  PROVE  OrderInv'
<1>1. {"play", "stale_playing", "stale_paused", "stale_clear", "stale_clock", "resolve"}
        \subseteq Fresh
  BY DEF Fresh
<1>2. CASE QueueStep(h, "stale_clear", Clear(queue), "stale_clock")
  <2>1. QueueOrder(queue', requests) /\ Queued(queue') \subseteq Queued(queue)
    BY <1>2, ClearOrder DEF QueueStep, OrderInv, TypeOK, DataOK
  <2>2. GoesOn(h, "stale_clock", arg[h]) /\ pc[h] \in Fresh
    BY <1>1, <1>2, MoveGoesOn DEF QueueStep, Goto, bounds
  <2> QED
    BY <1>1, <2>1, <2>2, FreshOrder
<1>3. CASE ClearClock(h, "stale_clock", "resolve")
  <2>1. GoesOn(h, "resolve", arg[h]) /\ pc[h] \in Fresh /\ queue' = queue
    BY <1>1, <1>3, MoveGoesOn DEF ClearClock, Goto, bounds
  <2> QED
    BY <1>1, <2>1, FreshOrder, SameQueueOrder
<1> QED
  BY <1>1, <1>2, <1>3, BranchFresh DEF ResetStaleQueue

LEMMA ResolveOrder ==
  ASSUME TypeOK, OrderInv, NEW h \in Handlers, Resolve(h)
  PROVE  OrderInv'
<1>1. queue' = queue /\ requests' = requests /\ pc[h] = "resolve" /\ h \in Processes
  BY DEF Resolve, Processes
<1>2. CASE Goto(h, "enq_playing")
  <2>1. GoesOn(h, "enq_playing", arg[h]) /\ pc[h] \in Fresh /\ "enq_playing" \in Fresh
    BY <1>1, <1>2, MoveGoesOn DEF Goto, Fresh
  <2> QED
    BY <1>1, <2>1, FreshOrder, SameQueueOrder
<1>3. CASE Finish(h)
  <2>1. "idle" \notin Reordering /\ "idle" \notin Pending
    BY DEF Reordering, Pending, Fresh
  <2> QED
    BY <1>1, <1>3, <2>1, MoveGoesOn, DoneOrder, SameQueueOrder DEF Finish
<1> QED
  BY <1>2, <1>3 DEF Resolve

\* One append of the loop: the track goes behind all of its fellows.
LEMMA AppendItemOrder ==
  ASSUME TypeOK, OrderInv, NEW h \in Handlers, NEW from \in {"append", "tail"},
         NEW l \in {"idle", "mark"}, AppendItem(h, from, l)
  PROVE  OrderInv'
<1>1. /\ pc[h] = from /\ arg[h] # <<>> /\ h \in Processes
      /\ pc[h] \in Pending /\ pc[h] # "start"
  BY DEF AppendItem, TypeOK, ControlOK, Carrying, Processes, Pending
<1>2. queue' = Enqueue(queue, Head(arg[h])) /\ requests' = requests
  BY DEF AppendItem, bounds
<1>3. /\ QueueOrder(queue', requests)
      /\ \A t \in Queued(queue') : t \in Queued(queue) \/ t = Head(arg[h])
  BY <1>1, <1>2, HeadInHand, EnqueueOrder DEF OrderInv, TypeOK, DataOK
<1>4. \A t \in Queued(queue') : t \in Queued(queue) \/ InHand(h, t)
  BY <1>1, <1>3, HeadInHand
<1>5. CASE Move(h, from, Tail(arg[h]))
  <2>1. /\ LineOK(from, Tail(arg[h]), Queued(queue'), requests)
        /\ \A i \in 1 .. Len(Tail(arg[h])) : InHand(h, Tail(arg[h])[i])
    BY <1>1, <1>3, TailOrder
  <2>2. from \notin Reordering
    BY DEF Reordering
  <2> QED
    BY <1>1, <1>2, <1>3, <1>4, <1>5, <2>1, <2>2, MoveGoesOn, StepOrder
<1>6. CASE Move(h, l, Tail(arg[h]))
  <2>1. l \notin Reordering /\ l \notin Pending
    BY DEF Reordering, Pending, Fresh
  <2>2. LineOK(l, Tail(arg[h]), Queued(queue'), requests)
    BY <2>1 DEF LineOK
  <2> QED
    BY <1>1, <1>2, <1>3, <1>4, <1>6, <2>1, <2>2, MoveGoesOn, StepOrder
<1> QED
  BY <1>5, <1>6 DEF AppendItem

\* The first track of a request becomes the current one before any other of
\* them is queued.
LEMMA SetNowStepOrder ==
  ASSUME TypeOK, OrderInv, NEW h \in Handlers,
         QueueStep(h, "set_now", SetNowPlaying(queue, Head(arg[h])), "start")
  PROVE  OrderInv'
<1> DEFINE t == Head(arg[h])
<1>1. /\ pc[h] = "set_now" /\ arg[h] # <<>> /\ h \in Processes
      /\ pc[h] \in Fresh /\ pc[h] \in Pending
  BY DEF QueueStep, TypeOK, ControlOK, Carrying, Processes, Pending, Fresh
<1>2. /\ QueueOrder(queue', requests)
      /\ \A u \in Queued(queue') : u \in Queued(queue) \/ u = t
  BY <1>1, HeadInHand, SetNowOrder DEF QueueStep, OrderInv, TypeOK, DataOK
<1>3. \A u \in Queued(queue') : u \in Queued(queue) \/ InHand(h, u)
  BY <1>1, <1>2, HeadInHand
<1>4. GoesOn(h, "start", arg[h])
  BY MoveGoesOn DEF QueueStep, Goto, bounds
<1>5. arg[h] \in Seq(Track) /\ Len(arg[h]) \in Nat \ {0} /\ t = arg[h][1]
  BY <1>1, EmptySeq DEF TypeOK, ControlOK
<1>6. LineOK("start", arg[h], Queued(queue'), requests)
  <2>1. LineOK(pc[h], arg[h], Queued(queue), requests) /\ First(pc[h]) = 1
    BY <1>1 DEF OrderInv, First
  <2>2. "start" \notin Fresh /\ First("start") = 2
    BY DEF Fresh, First
  <2>3. ASSUME NEW u \in Queued(queue'), NEW j \in 2 .. Len(arg[h])
        PROVE  InOrder(u, arg[h][j])
    <3>1. j \in 1 .. Len(arg[h]) /\ 1 < j /\ 1 \in 1 .. Len(arg[h])
      BY <1>5
    <3>2. CASE u \in Queued(queue)
      BY <1>1, <2>1, <3>1, <3>2 DEF LineOK
    <3>3. CASE u = arg[h][1]
      BY <1>1, <2>1, <3>1, <3>3 DEF LineOK, InOrder
    <3> QED
      BY <1>2, <1>5, <3>2, <3>3
  <2> QED
    BY <1>1, <2>1, <2>2, <2>3 DEF LineOK
<1>7. \A i \in 1 .. Len(arg[h]) : InHand(h, arg[h][i])
  BY <1>1 DEF InHand
<1>8. "start" \notin Reordering
  BY DEF Reordering
<1> QED
  BY <1>1, <1>2, <1>3, <1>4, <1>6, <1>7, <1>8, StepOrder

LEMMA EnqueueItemsOrder ==
  ASSUME TypeOK, OrderInv, NEW h \in Handlers, EnqueueItems(h)
  PROVE  OrderInv'
<1>1. {"enq_playing", "enq_paused", "enq_active", "set_active", "set_now"} \subseteq Fresh
  BY DEF Fresh
<1>2. CASE QueueStep(h, "set_active", SetActive(queue, TRUE), "set_now")
  <2>1. QueueOrder(queue', requests) /\ Queued(queue') \subseteq Queued(queue)
    BY <1>2, SetActiveOrder DEF QueueStep, OrderInv, TypeOK, DataOK
  <2>2. GoesOn(h, "set_now", arg[h]) /\ pc[h] \in Fresh
    BY <1>1, <1>2, MoveGoesOn DEF QueueStep, Goto, bounds
  <2> QED
    BY <1>1, <2>1, <2>2, FreshOrder
<1> QED
  BY <1>1, <1>2, BranchFresh, AppendItemOrder, SetNowStepOrder DEF EnqueueItems

\* A started request goes on to append its tail.
LEMMA PlayCallOrder ==
  ASSUME TypeOK, OrderInv, NEW p \in Processes, PlayCall(p)
  PROVE  OrderInv'
<1>1. queue' = queue /\ requests' = requests
  BY DEF PlayCall
<1>2. /\ QueueOrder(queue', requests) /\ Queued(queue') \subseteq Queued(queue)
  BY <1>1, SameQueueOrder
<1>3. CASE pc[p] = "start" /\ Move(p, "tail", Tail(arg[p]))
  <2>1. p \in Handlers /\ arg[p] # <<>>
    BY <1>3 DEF TypeOK, ControlOK, LabelsOf, ReaderLabels, Carrying, Processes
  <2>2. /\ LineOK("tail", Tail(arg[p]), Queued(queue'), requests)
        /\ \A i \in 1 .. Len(Tail(arg[p])) : InHand(p, Tail(arg[p])[i])
    BY <1>2, <1>3, <2>1, TailOrder
  <2>3. "tail" \notin Reordering
    BY DEF Reordering
  <2> QED
    BY <1>1, <1>2, <1>3, <2>2, <2>3, MoveGoesOn, StepOrder
<1>4. ASSUME NEW l \in {"mark", "idle", "drop"}, NEW s, Move(p, l, s)
      PROVE  OrderInv'
  <2>1. l \notin Reordering /\ l \notin Pending
    BY DEF Reordering, Pending, Fresh
  <2> QED
    BY <1>1, <1>2, <1>4, <2>1, MoveGoesOn, DoneOrder
<1> QED
  BY <1>3, <1>4 DEF PlayCall, Finish

LEMMA SharedStepOrder ==
  ASSUME TypeOK, OrderInv, NEW p \in Processes, SharedStep(p)
  PROVE  OrderInv'
<1>1. {"idle", "drop_clock"} \cap (Reordering \cup Pending) = {}
  BY DEF Reordering, Pending, Fresh
<1>2. CASE MarkStart(p)
  BY <1>1, <1>2, MoveGoesOn, DoneOrder, SameQueueOrder DEF MarkStart, Finish, bounds
<1>3. CASE Drop(p)
  <2>1. QueueOrder(queue', requests) /\ Queued(queue') \subseteq Queued(queue)
    BY <1>3, ClearOrder DEF Drop, QueueStep, OrderInv, TypeOK, DataOK
  <2>2. GoesOn(p, "drop_clock", arg[p])
    BY <1>3, MoveGoesOn DEF Drop, QueueStep, Goto, bounds
  <2> QED
    BY <1>1, <2>1, <2>2, DoneOrder
<1>4. CASE ClearClock(p, "drop_clock", "idle")
  BY <1>1, <1>4, MoveGoesOn, DoneOrder, SameQueueOrder DEF ClearClock, Finish, bounds
<1> QED
  BY <1>2, <1>3, <1>4, PlayCallOrder DEF SharedStep

\* Skip and the track-end hook pop the queue.
LEMMA PopOrder ==
  ASSUME TypeOK, OrderInv, NEW p \in Processes, NEW l, NEW s, Move(p, l, s),
         l \notin Reordering, l \notin Pending, requests' = requests,
         queue' = Advance(queue)
  PROVE  OrderInv'
<1>1. QueueOrder(queue', requests) /\ Queued(queue') \subseteq Queued(queue)
  BY AdvanceOrder DEF OrderInv, TypeOK, DataOK
<1> QED
  BY <1>1, MoveGoesOn, DoneOrder

\* Steps of a handler that queue nothing.
LEMMA PlainOrder ==
  ASSUME TypeOK, OrderInv, NEW h \in Handlers, queue' = queue, requests' = requests,
         NEW l \in {"idle", "vote_clear", "skip", "drop", "freeze", "thaw", "clear_votes",
                    "clear_playing"},
         NEW s, Move(h, l, s)
  PROVE  OrderInv'
<1>1. l \notin Reordering /\ l \notin Pending /\ h \in Processes
  BY DEF Reordering, Pending, Fresh, Processes
<1> QED
  BY <1>1, MoveGoesOn, DoneOrder, SameQueueOrder

LEMMA ControlOrder ==
  ASSUME TypeOK, OrderInv, NEW h \in Handlers,
         SkipTrack(h) \/ PauseResume(h) \/ ClearAll(h)
  PROVE  OrderInv'
<1>1. h \in Processes
  BY DEF Processes
<1>2. {"skip_stop", "skip_play", "clear_clock", "clear_playing", "clear_paused",
       "clear_stop", "idle"} \cap (Reordering \cup Pending) = {}
  BY DEF Reordering, Pending, Fresh
<1>3. ASSUME NEW from, NEW l \in {"drop", "idle"}, StopCall(h, from, l)
      PROVE  OrderInv'
  BY <1>3, PlainOrder DEF StopCall, Goto, Finish
<1>4. CASE SkipTrack(h)
  <2>1. CASE CastVote(h)
    BY <2>1, PlainOrder DEF CastVote, Goto, Finish, bounds
  <2>2. CASE ClearVotes(h, "vote_clear", "skip")
    BY <2>2, PlainOrder DEF ClearVotes, Goto, bounds
  <2>3. CASE SkipPop(h)
    BY <1>1, <1>2, <2>3, PopOrder DEF SkipPop, Skip, Goto, bounds
  <2> QED
    BY <1>3, <1>4, <2>1, <2>2, <2>3 DEF SkipTrack
<1>5. CASE PauseResume(h)
  BY <1>5, PlainOrder DEF PauseResume, PauseCall, MarkPaused, Goto, Finish, bounds
<1>6. CASE ClearAll(h)
  <2>1. CASE QueueStep(h, "clear", Clear(queue), "clear_clock")
    <3>1. QueueOrder(queue', requests) /\ Queued(queue') \subseteq Queued(queue)
      BY <2>1, ClearOrder DEF QueueStep, OrderInv, TypeOK, DataOK
    <3>2. GoesOn(h, "clear_clock", arg[h])
      BY <2>1, MoveGoesOn DEF QueueStep, Goto, bounds
    <3> QED
      BY <1>1, <1>2, <3>1, <3>2, DoneOrder
  <2>2. CASE ClearClock(h, "clear_clock", "clear_votes")
    BY <2>2, PlainOrder DEF ClearClock, Goto, Finish, bounds
  <2>3. CASE ClearVotes(h, "clear_votes", "clear_playing")
    BY <2>3, PlainOrder DEF ClearVotes, Goto, bounds
  <2> QED
    BY <1>1, <1>2, <1>3, <1>6, <2>1, <2>2, <2>3, BranchDone DEF ClearAll
<1> QED
  BY <1>4, <1>5, <1>6

\* Of the edits only a removal is left when users do not reorder.
LEMMA EditQueueOrder ==
  ASSUME TypeOK, OrderInv, NEW h \in Handlers, EditQueue(h)
  PROVE  OrderInv'
<1>1. h \in Processes /\ pc[h] \notin {"boost", "shuffle", "loop"}
  BY DEF OrderInv, Processes, Reordering
<1>2. PICK i \in 1 .. Len(queue.items) + 1 :
        QueueEdit(h, "remove", RemoveUpcoming(queue, i))
  BY <1>1 DEF EditQueue, QueueEdit
<1>3. i \in Nat
  BY LenProperties DEF TypeOK, DataOK, Queue
<1>4. QueueOrder(queue', requests) /\ Queued(queue') \subseteq Queued(queue)
  BY <1>2, <1>3, RemoveOrder DEF QueueEdit, OrderInv, TypeOK, DataOK
<1>5. GoesOn(h, "idle", <<>>)
  BY <1>2, MoveGoesOn DEF QueueEdit, Finish, bounds
<1>6. "idle" \notin Reordering /\ "idle" \notin Pending
  BY DEF Reordering, Pending, Fresh
<1> QED
  BY <1>1, <1>4, <1>5, <1>6, DoneOrder

\* The hook only pops: loop modes are off.
LEMMA ReaderOrder ==
  ASSUME TypeOK, OrderInv, Receive \/ OnTrackEnd
  PROVE  OrderInv'
<1>1. Reader \in Processes /\ pc[Reader] \notin Reordering /\ queue.loop = "off"
  BY DEF Processes, OrderInv, QueueOrder
<1>2. {"end_active", "end_track", "end_queue", "advance", "idle", "drop_clock",
       "next_play"} \cap (Reordering \cup Pending) = {}
  BY DEF Reordering, Pending, Fresh
<1>3. CASE Receive
  <2>1. PICK l \in {"idle", "end_active"} : pc' = [pc EXCEPT ![Reader] = l]
    <3>1. pc' = pc => pc' = [pc EXCEPT ![Reader] = "idle"]
      BY <1>1, <1>3 DEF Receive, TypeOK, ControlOK
    <3> QED
      BY <1>3, <3>1 DEF Receive
  <2>2. GoesOn(Reader, l, arg[Reader])
    BY <1>1, <1>3, <2>1 DEF Receive, GoesOn, bounds, TypeOK, ControlOK
  <2> QED
    BY <1>1, <1>2, <1>3, <2>2, DoneOrder, SameQueueOrder DEF Receive
<1>4. CASE Branch(Reader, "end_active", queue.active, "end_track", "idle")
  BY <1>1, <1>2, <1>4, BranchDone
<1>5. CASE Branch(Reader, "end_track", queue.loop = "track", "end_now", "end_queue")
  <2>1. Move(Reader, "end_queue", arg[Reader]) /\ queue' = queue /\ requests' = requests
    BY <1>1, <1>5 DEF Branch, Goto, bounds
  <2> QED
    BY <1>1, <1>2, <2>1, MoveGoesOn, DoneOrder, SameQueueOrder
<1>6. CASE Branch(Reader, "end_queue", queue.loop = "queue", "end_finished", "advance")
  <2>1. Move(Reader, "advance", arg[Reader]) /\ queue' = queue /\ requests' = requests
    BY <1>1, <1>6 DEF Branch, Goto, bounds
  <2> QED
    BY <1>1, <1>2, <2>1, MoveGoesOn, DoneOrder, SameQueueOrder
<1>7. CASE AdvanceQueue
  BY <1>1, <1>2, <1>7, PopOrder DEF AdvanceQueue, Goto, bounds
<1> QED
  BY <1>1, <1>3, <1>4, <1>5, <1>6, <1>7
  DEF OnTrackEnd, CopyNow, AppendItem, Reordering

\* A new request has a number of its own.
LEMMA BeginOrder ==
  ASSUME NoReordering, TypeOK, OrderInv, NEW h \in Handlers, Begin(h)
  PROVE  OrderInv'
<1>1. h \in Processes /\ queue' = queue
  BY DEF Begin, Processes
<1>2. ASSUME NEW c \in Commands \ {"play"}, Goto(h, c), requests' = requests
      PROVE  OrderInv'
  <2>1. c \notin Reordering /\ c \notin Pending
    BY <1>2, CommandsAssumption
    DEF NoReordering, AllCommands, Reordering, Pending, Fresh
  <2> QED
    BY <1>1, <1>2, <2>1, MoveGoesOn, DoneOrder, SameQueueOrder DEF Goto
<1>3. ASSUME NEW n \in RequestSizes, requests' = requests + 1,
             Move(h, "play", [i \in 1 .. n |-> [req |-> requests + 1, pos |-> i]])
      PROVE  OrderInv'
  <2> DEFINE k == requests
             s == [i \in 1 .. n |-> [req |-> k + 1, pos |-> i]]
  <2>1. k \in Nat /\ n \in Nat /\ Len(s) = n
    BY SizesAssumption, BoundsAssumption DEF TypeOK, DataOK
  <2>2. \A i \in 1 .. Len(s) : s[i].req = k + 1 /\ s[i].pos = i
    BY <2>1
  <2>3. /\ pc'[h] = "play" /\ arg'[h] = s
        /\ \A q \in Processes : q # h => pc'[q] = pc[q] /\ arg'[q] = arg[q]
    BY <1>1, <1>3 DEF Move, TypeOK, ControlOK
  <2>4. \A t : Minted(t, k) => Minted(t, k + 1) /\ t.req # k + 1
    BY <2>1 DEF Minted
  <2> HIDE DEF s
  <2>5. QueueOrder(queue, k + 1) /\ \A t \in Queued(queue) : t.req # k + 1
    BY <2>4 DEF OrderInv, QueueOrder
  <2>6. LineOK("play", s, Queued(queue), k + 1)
    <3>1. First("play") = 1 /\ \A i \in 1 .. Len(s) : Minted(s[i], k + 1)
      BY <2>1, <2>2 DEF First, Minted
    <3>2. \A i, j \in 1 .. Len(s) :
            s[i].req = s[j].req /\ (i < j => s[i].pos < s[j].pos)
      BY <2>2
    <3>3. \A t \in Queued(queue) : \A j \in 1 .. Len(s) : t.req # s[j].req
      BY <2>2, <2>5
    <3> QED
      BY <3>1, <3>2, <3>3 DEF LineOK, InOrder
  <2>7. ASSUME NEW g \in Handlers, g # h
        PROVE  /\ LineOK(pc[g], arg[g], Queued(queue), k + 1)
               /\ Apart("play", s, pc[g], arg[g]) /\ Apart(pc[g], arg[g], "play", s)
    <3>1. LineOK(pc[g], arg[g], Queued(queue), k)
      BY DEF OrderInv
    <3>2. LineOK(pc[g], arg[g], Queued(queue), k + 1)
      BY <2>4, <3>1 DEF LineOK
    <3>3. pc[g] \in Pending => \A j \in 1 .. Len(arg[g]) : arg[g][j].req # k + 1
      BY <2>4, <3>1 DEF LineOK
    <3> QED
      BY <2>2, <3>2, <3>3 DEF Apart
  <2>8. "play" \notin Reordering /\ Handlers \subseteq Processes
    BY DEF Reordering, Processes
  <2>9. \A g \in Handlers : LineOK(pc'[g], arg'[g], Queued(queue'), requests')
    BY <1>1, <1>3, <2>3, <2>6, <2>7, <2>8
  <2>10. \A f, g \in Handlers : f # g => Apart(pc'[f], arg'[f], pc'[g], arg'[g])
    BY <2>3, <2>7, <2>8 DEF OrderInv
  <2>11. \A p \in Processes : pc'[p] \notin Reordering
    BY <2>3, <2>8 DEF OrderInv
  <2>12. QueueOrder(queue', requests')
    BY <1>1, <1>3, <2>5
  <2> QED
    BY <2>9, <2>10, <2>11, <2>12
    DEF OrderInv, QueueOrder, LineOK, Apart, Queued, First, Minted, InOrder
<1> QED
  BY <1>2, <1>3 DEF Begin

\* The strengthening holds in every reachable state.
LEMMA OrderInvariant == Spec => [](NoReordering => OrderInv)
<1> DEFINE Inv == NoReordering => OrderInv
<1>1. Init => Inv
  <2> SUFFICES ASSUME Init PROVE OrderInv
    OBVIOUS
  <2>1. /\ queue.items = <<>> /\ queue.now = None /\ queue.loop = "off"
        /\ Len(<<>>) = 0
    BY DEF Init, NewQueue
  <2>2. QueueOrder(queue, requests)
    BY <2>1 DEF QueueOrder, Queued
  <2>3. \A p \in Processes : pc[p] \notin Pending /\ pc[p] \notin Reordering
    BY DEF Init, Pending, Fresh, Reordering
  <2>4. Handlers \subseteq Processes
    BY DEF Processes
  <2> QED
    BY <2>2, <2>3, <2>4 DEF OrderInv, LineOK, Apart
<1>2. TypeOK /\ Inv /\ [Next]_vars => Inv'
  <2> SUFFICES ASSUME TypeOK, OrderInv, NoReordering, [Next]_vars PROVE OrderInv'
    OBVIOUS
  <2>1. ASSUME NEW h \in Handlers, Begin(h) PROVE OrderInv'
    BY <2>1, BeginOrder
  <2>2. ASSUME NEW h \in Handlers, HandlerStep(h) PROVE OrderInv'
    <3>1. h \in Processes
      BY DEF Processes
    <3> QED
      BY <2>2, <3>1, ResetStaleQueueOrder, ResolveOrder, EnqueueItemsOrder, ControlOrder,
         EditQueueOrder, SharedStepOrder DEF HandlerStep
  <2>3. CASE ReaderStep
    BY <2>3, LabelFacts, ReaderOrder, SharedStepOrder DEF ReaderStep
  <2>4. CASE NodeFinish \/ UNCHANGED vars
    <3>1. queue' = queue /\ pc' = pc /\ arg' = arg /\ requests' = requests
      BY <2>4 DEF NodeFinish, vars, control, bounds
    <3> QED
      BY <3>1 DEF OrderInv, QueueOrder, LineOK, Apart, Queued, First, Minted, InOrder
  <2> QED
    BY <2>1, <2>2, <2>3, <2>4 DEF Next, Rest
<1> QED
  BY <1>1, <1>2, TypeCorrect, PTL DEF Spec

\* Whatever handlers, skips, removals, clears, failed calls and track ends
\* come between the appends of a playlist, its tracks stay in order, behind
\* the current one.
THEOREM RequestsStayInOrder == Spec => []RequestOrder
<1>1. (NoReordering => OrderInv) => RequestOrder
  BY DEF OrderInv, QueueOrder, RequestOrder
<1> QED
  BY <1>1, OrderInvariant, PTL

-----------------------------------------------------------------------------
(***************************************************************************)
(* Playback implements Jukebox for any constants, as long as users do not  *)
(* reorder the queue.  Every step of the code is a step of the abstract    *)
(* queue or changes nothing of it; OrderInv gives the one fact that is not *)
(* local: what a handler is about to queue is in nobody else's hands, so   *)
(* it leaves the fresh tracks when it is queued.                           *)
(***************************************************************************)

JukeboxStep == [Jukebox!Next]_<<Unqueued, queue.items, queue.now>>

LEMMA HandLabels ==
  Carrying \ {"skip_play", "next_play", "requeue"} = Pending
BY DEF Carrying, Pending, Fresh

\* What is unqueued after a step of process p.
LEMMA UnqueuedAfter ==
  ASSUME TypeOK, NEW p \in Processes, NEW l, NEW s, GoesOn(p, l, s)
  PROVE  Unqueued' = ToCome
           \cup (UNION {InHandAt(pc[h], arg[h]) : h \in Handlers \ {p}})
           \cup (IF p \in Handlers THEN InHandAt(l, s) ELSE {})
<1>1. /\ \A h \in Handlers \ {p} : pc'[h] = pc[h] /\ arg'[h] = arg[h]
      /\ pc'[p] = l /\ arg'[p] = s /\ requests' = requests
  BY DEF GoesOn, TypeOK, ControlOK, Processes
<1>2. ToCome' = ToCome
  BY <1>1 DEF ToCome
<1>3. \A h \in Handlers : InHandAt(pc[h], arg[h])' = InHandAt(pc'[h], arg'[h])
  BY DEF InHandAt
<1>4. \A h \in Handlers \ {p} : InHandAt(pc'[h], arg'[h]) = InHandAt(pc[h], arg[h])
  BY <1>1
<1>5. InHandAt(pc'[p], arg'[p]) = InHandAt(l, s)
  BY <1>1
<1>6. (UNION {InHandAt(pc[h], arg[h]) : h \in Handlers})'
        = (UNION {InHandAt(pc[h], arg[h]) : h \in Handlers \ {p}})
            \cup (IF p \in Handlers THEN InHandAt(l, s) ELSE {})
  BY <1>3, <1>4, <1>5
<1> QED
  BY <1>2, <1>6 DEF Unqueued

LEMMA UnqueuedBefore ==
  ASSUME NEW p \in Processes
  PROVE  Unqueued = ToCome
           \cup (UNION {InHandAt(pc[h], arg[h]) : h \in Handlers \ {p}})
           \cup (IF p \in Handlers THEN InHandAt(pc[p], arg[p]) ELSE {})
BY DEF Unqueued

\* A step after which the process has the same left to queue.
LEMMA KeepsHand ==
  ASSUME TypeOK, NEW p \in Processes, NEW l, NEW s, GoesOn(p, l, s),
         p \in Handlers => InHandAt(l, s) = InHandAt(pc[p], arg[p])
  PROVE  Unqueued' = Unqueued
BY UnqueuedAfter, UnqueuedBefore

\* A step after which the process has no more left to queue than before.
LEMMA ShrinksHand ==
  ASSUME TypeOK, NEW p \in Processes, NEW l, NEW s, GoesOn(p, l, s),
         p \in Handlers => InHandAt(l, s) \subseteq InHandAt(pc[p], arg[p])
  PROVE  Unqueued' \subseteq Unqueued
BY UnqueuedAfter, UnqueuedBefore

\* Labels without tracks in hand.
LEMMA NoHand ==
  ASSUME NEW l, NEW s, l \notin Pending
  PROVE  InHandAt(l, s) = {}
BY HandLabels DEF InHandAt

\* Labels that differ only in where the request stands.
LEMMA SameHand ==
  ASSUME NEW l \in Fresh \cup {"append"}, NEW m \in Fresh \cup {"append"}, NEW s
  PROVE  InHandAt(l, s) = InHandAt(m, s)
<1>1. l \in Pending /\ m \in Pending /\ l # "start" /\ m # "start"
  BY DEF Fresh, Pending
<1> QED
  BY <1>1, HandLabels DEF InHandAt

\* A step that takes the first track in hand away takes it from the unqueued.
LEMMA TakesFromHand ==
  ASSUME TypeOK, OrderInv, NEW p \in Handlers, NEW l, NEW s, GoesOn(p, l, s),
         pc[p] \in Pending \ {"start"}, arg[p] # <<>>,
         InHandAt(l, s) = InHandAt(pc[p], arg[p]) \ {Head(arg[p])}
  PROVE  /\ Head(arg[p]) \in Unqueued
         /\ Unqueued' = Unqueued \ {Head(arg[p])}
<1> DEFINE t == Head(arg[p])
<1>1. p \in Processes /\ arg[p] \in Seq(Track)
  BY DEF TypeOK, ControlOK, Processes
<1>2. t = arg[p][1] /\ Len(arg[p]) \in Nat \ {0}
  BY <1>1, EmptySeq, HeadTailProperties
<1>3. t \in InHandAt(pc[p], arg[p])
  BY <1>2, HandLabels DEF InHandAt
<1>4. \A u \in ToCome : u # t
  <2>1. t.req \in 1 .. requests /\ requests \in Nat
    BY HeadInHand DEF Minted, TypeOK, DataOK
  <2>2. \A u \in ToCome : u.req \in requests + 1 .. MaxRequests
    BY DEF ToCome
  <2> QED
    BY <2>1, <2>2, BoundsAssumption
<1>5. ASSUME NEW h \in Handlers \ {p}
      PROVE  t \notin InHandAt(pc[h], arg[h])
  <2> SUFFICES ASSUME NEW j \in 1 .. Len(arg[h]), pc[h] \in Pending
               PROVE  arg[h][j] # t
    BY HandLabels DEF InHandAt
  <2>1. Apart(pc[p], arg[p], pc[h], arg[h])
    BY DEF OrderInv
  <2> QED
    BY <1>2, <2>1 DEF Apart
<1> HIDE DEF t
<1>6. /\ Unqueued = ToCome
           \cup (UNION {InHandAt(pc[h], arg[h]) : h \in Handlers \ {p}})
           \cup InHandAt(pc[p], arg[p])
      /\ Unqueued' = ToCome
           \cup (UNION {InHandAt(pc[h], arg[h]) : h \in Handlers \ {p}})
           \cup (InHandAt(pc[p], arg[p]) \ {t})
  BY <1>1, UnqueuedBefore, UnqueuedAfter DEF t
<1> QED
  BY <1>3, <1>4, <1>5, <1>6 DEF t

\* The tracks behind the first one: no track is twice in one hand.
LEMMA TailHand ==
  ASSUME TypeOK, OrderInv, NEW h \in Handlers, pc[h] \in Pending, arg[h] # <<>>
  PROVE  LET s == arg[h]
         IN  /\ {Tail(s)[i] : i \in 1 .. Len(Tail(s))} = {s[i] : i \in 2 .. Len(s)}
             /\ {s[i] : i \in 2 .. Len(s)} = {s[i] : i \in 1 .. Len(s)} \ {Head(s)}
<1> DEFINE s == arg[h]
<1>1. s \in Seq(Track) /\ s # <<>>
  BY DEF TypeOK, ControlOK, Processes
<1>2. /\ Len(s) \in Nat \ {0} /\ Head(s) = s[1] /\ Len(Tail(s)) = Len(s) - 1
      /\ \A i \in 1 .. Len(Tail(s)) : Tail(s)[i] = s[i + 1]
  BY <1>1, EmptySeq, HeadTailProperties
<1>3. \A j \in 2 .. Len(s) : s[j] # s[1]
  <2>1. LineOK(pc[h], s, Queued(queue), requests)
    BY DEF OrderInv
  <2>2. \A i \in 1 .. Len(s) : s[i].pos \in Nat
    BY <2>1 DEF LineOK, Minted
  <2>3. \A j \in 2 .. Len(s) : s[1].pos < s[j].pos
    BY <1>2, <2>1 DEF LineOK
  <2> QED
    BY <1>2, <2>2, <2>3
<1> HIDE DEF s
<1>4. {s[i] : i \in 2 .. Len(s)} = {s[i] : i \in 1 .. Len(s)} \ {s[1]}
  BY <1>2, <1>3
<1>5. {Tail(s)[i] : i \in 1 .. Len(Tail(s))} = {s[i] : i \in 2 .. Len(s)}
  <2> DEFINE u == Tail(s)
  <2>1. /\ Len(s) \in Nat \ {0} /\ Len(u) = Len(s) - 1
        /\ \A i \in 1 .. Len(u) : u[i] = s[i + 1]
    BY <1>2
  <2> HIDE DEF u
  <2>2. ASSUME NEW i \in 1 .. Len(u)
        PROVE  \E j \in 2 .. Len(s) : u[i] = s[j]
    <3>1. i + 1 \in 2 .. Len(s) /\ u[i] = s[i + 1]
      BY <2>1
    <3> QED
      BY <3>1
  <2>3. ASSUME NEW j \in 2 .. Len(s)
        PROVE  \E i \in 1 .. Len(u) : s[j] = u[i]
    <3>1. j - 1 \in 1 .. Len(u) /\ (j - 1) + 1 = j
      BY <2>1
    <3>2. u[j - 1] = s[(j - 1) + 1]
      BY <2>1, <3>1
    <3> QED
      BY <3>1, <3>2
  <2>4. {u[i] : i \in 1 .. Len(u)} = {s[j] : j \in 2 .. Len(s)}
    BY <2>2, <2>3
  <2> QED
    BY <2>4 DEF u
<1> QED
  BY <1>2, <1>4, <1>5 DEF s

-----------------------------------------------------------------------------
(* Abstract steps.                                                         *)

\* The queue stays and nothing becomes fresh again.
LEMMA DiscardStep ==
  ASSUME queue' = queue, Unqueued' \subseteq Unqueued
  PROVE  JukeboxStep
BY DEF JukeboxStep, Jukebox!Next, Jukebox!Discard

LEMMA AdvanceStep ==
  ASSUME queue \in Queue, queue' = Advance(queue), Unqueued' = Unqueued
  PROVE  JukeboxStep
<1>1. Jukebox!Advance
  BY DEF Jukebox!Advance, Advance, Queue
<1> QED
  BY <1>1 DEF JukeboxStep, Jukebox!Next

LEMMA EmptyStep ==
  ASSUME queue \in Queue, queue' = Clear(queue), Unqueued' = Unqueued
  PROVE  JukeboxStep
<1>1. Jukebox!Empty
  BY DEF Jukebox!Empty, Clear, Queue
<1> QED
  BY <1>1 DEF JukeboxStep, Jukebox!Next

LEMMA JoinStep ==
  ASSUME queue \in Queue, NEW t \in Unqueued, queue' = Enqueue(queue, t),
         Unqueued' = Unqueued \ {t}
  PROVE  JukeboxStep
<1>1. queue'.items = Append(queue.items, t) /\ queue'.now = queue.now
  BY DEF Enqueue, Queue
<1>2. Jukebox!Join
  BY <1>1 DEF Jukebox!Join
<1> QED
  BY <1>2 DEF JukeboxStep, Jukebox!Next

LEMMA StartStep ==
  ASSUME queue \in Queue, NEW t \in Unqueued, queue' = SetNowPlaying(queue, t),
         Unqueued' = Unqueued \ {t}
  PROVE  JukeboxStep
<1>1. queue'.items = queue.items /\ queue'.now = t
  BY DEF SetNowPlaying, Queue
<1>2. Jukebox!Start
  BY <1>1 DEF Jukebox!Start
<1> QED
  BY <1>2 DEF JukeboxStep, Jukebox!Next

-----------------------------------------------------------------------------
(* The methods.                                                            *)

\* Steps that leave the queue alone and take nothing new into hand.
LEMMA PlainStep ==
  ASSUME TypeOK, NEW p \in Processes, NEW l, NEW s, Move(p, l, s),
         queue' = queue, requests' = requests,
         p \in Handlers => InHandAt(l, s) \subseteq InHandAt(pc[p], arg[p])
  PROVE  JukeboxStep
BY MoveGoesOn, ShrinksHand, DiscardStep

LEMMA DoneStep ==
  ASSUME TypeOK, NEW p \in Processes, NEW l, NEW s, Move(p, l, s),
         queue' = queue, requests' = requests, l \notin Pending
  PROVE  JukeboxStep
BY PlainStep, NoHand

LEMMA BranchStep ==
  ASSUME TypeOK, NEW p \in Processes, NEW from, NEW cond, NEW yes, NEW no,
         \/ {yes, no} \cap Pending = {}
         \/ {from, yes, no} \subseteq Fresh \cup {"append"},
         Branch(p, from, cond, yes, no)
  PROVE  JukeboxStep
<1> DEFINE l == IF cond THEN yes ELSE no
<1>1. PICK s \in {arg[p], <<>>} : Move(p, l, s) /\ (l # "idle" => s = arg[p])
  BY DEF Branch, Finish, Goto
<1>2. queue' = queue /\ requests' = requests /\ pc[p] = from
  BY DEF Branch, bounds
<1>3. l \in {yes, no}
  OBVIOUS
<1> HIDE DEF l
<1>4. CASE {yes, no} \cap Pending = {}
  BY <1>1, <1>2, <1>3, <1>4, DoneStep
<1>5. CASE {from, yes, no} \subseteq Fresh \cup {"append"}
  <2>1. l \in Fresh \cup {"append"} /\ "idle" \notin Fresh
    BY <1>3, <1>5 DEF Fresh
  <2>2. InHandAt(l, s) = InHandAt(pc[p], arg[p])
    BY <1>1, <1>2, <1>5, <2>1, SameHand
  <2> QED
    BY <1>1, <1>2, <2>2, PlainStep
<1> QED
  BY <1>4, <1>5

LEMMA FreshLabels ==
  {"play", "stale_playing", "stale_paused", "stale_clear", "stale_clock", "resolve",
   "enq_playing", "enq_paused", "enq_active", "set_active", "set_now"} = Fresh
BY DEF Fresh

LEMMA ResetStaleQueueStep ==
  ASSUME TypeOK, NEW h \in Handlers, ResetStaleQueue(h)
  PROVE  JukeboxStep
<1>1. h \in Processes /\ queue \in Queue
  BY DEF Processes, TypeOK, DataOK
<1>2. CASE QueueStep(h, "stale_clear", Clear(queue), "stale_clock")
  <2>1. GoesOn(h, "stale_clock", arg[h]) /\ pc[h] = "stale_clear"
    BY <1>2, MoveGoesOn DEF QueueStep, Goto, bounds
  <2>2. Unqueued' = Unqueued
    BY <1>1, <2>1, FreshLabels, SameHand, KeepsHand
  <2> QED
    BY <1>1, <1>2, <2>2, EmptyStep DEF QueueStep
<1>3. CASE ClearClock(h, "stale_clock", "resolve")
  <2>1. /\ Move(h, "resolve", arg[h]) /\ pc[h] = "stale_clock"
        /\ queue' = queue /\ requests' = requests
    BY <1>3 DEF ClearClock, Goto, bounds
  <2>2. InHandAt("resolve", arg[h]) = InHandAt(pc[h], arg[h])
    BY <2>1, FreshLabels, SameHand
  <2> QED
    BY <1>1, <2>1, <2>2, PlainStep
<1>4. ASSUME NEW from \in Fresh, NEW cond, NEW yes \in Fresh, NEW no \in Fresh,
             Branch(h, from, cond, yes, no)
      PROVE  JukeboxStep
  BY <1>1, <1>4, BranchStep
<1> QED
  BY <1>2, <1>3, <1>4, FreshLabels DEF ResetStaleQueue

LEMMA ResolveStep ==
  ASSUME TypeOK, NEW h \in Handlers, Resolve(h)
  PROVE  JukeboxStep
<1>1. /\ h \in Processes /\ pc[h] = "resolve"
      /\ queue' = queue /\ requests' = requests
  BY DEF Processes, Resolve
<1>2. CASE Goto(h, "enq_playing")
  <2>1. InHandAt("enq_playing", arg[h]) = InHandAt(pc[h], arg[h])
    BY <1>1, FreshLabels, SameHand
  <2> QED
    BY <1>1, <1>2, <2>1, PlainStep DEF Goto
<1>3. CASE Finish(h)
  BY <1>1, <1>3, DoneStep DEF Finish, Pending, Fresh
<1> QED
  BY <1>2, <1>3 DEF Resolve

LEMMA AppendItemStep ==
  ASSUME TypeOK, OrderInv, NEW h \in Handlers, NEW from \in {"append", "tail"},
         NEW l \in {"idle", "mark"}, AppendItem(h, from, l)
  PROVE  JukeboxStep
<1> DEFINE s == arg[h]
<1>1. /\ pc[h] = from /\ s # <<>> /\ h \in Processes /\ queue \in Queue
      /\ pc[h] \in Pending \ {"start"} /\ s \in Seq(Track)
  BY DEF AppendItem, TypeOK, ControlOK, DataOK, Carrying, Processes, Pending
<1>2. queue' = Enqueue(queue, Head(s)) /\ requests' = requests
  BY DEF AppendItem, bounds
<1>3. InHandAt(from, s) = {s[i] : i \in 1 .. Len(s)}
  BY <1>1, HandLabels DEF InHandAt
<1>4. ASSUME NEW m, Move(h, m, Tail(s)),
             InHandAt(m, Tail(s)) = InHandAt(from, s) \ {Head(s)}
      PROVE  JukeboxStep
  <2>1. GoesOn(h, m, Tail(s))
    BY <1>2, <1>4, MoveGoesOn
  <2>2. /\ Head(s) \in Unqueued
        /\ Unqueued' = Unqueued \ {Head(s)}
    BY <1>1, <1>4, <2>1, TakesFromHand
  <2> QED
    BY <1>1, <1>2, <2>2, JoinStep
<1>5. CASE Len(s) > 1 /\ Move(h, from, Tail(s))
  <2>1. InHandAt(from, Tail(s)) = {Tail(s)[i] : i \in 1 .. Len(Tail(s))}
    BY <1>1, HandLabels DEF InHandAt
  <2>2. InHandAt(from, Tail(s)) = InHandAt(from, s) \ {Head(s)}
    BY <1>1, <1>3, <2>1, TailHand
  <2> QED
    BY <1>4, <1>5, <2>2
<1>6. CASE ~(Len(s) > 1) /\ Move(h, l, Tail(s))
  <2>1. l \notin Pending
    BY DEF Pending, Fresh
  <2>2. Len(s) = 1 /\ Head(s) = s[1]
    <3> HIDE DEF s
    <3>1. Len(s) \in Nat \ {0}
      BY <1>1, EmptySeq, LenProperties
    <3>2. ~(Len(s) > 1)
      BY <1>6
    <3>3. Len(s) = 1
      <4> DEFINE n == Len(s)
      <4>1. n \in Nat \ {0} /\ ~(n > 1)
        BY <3>1, <3>2
      <4> HIDE DEF n
      <4>2. n = 1
        BY <4>1
      <4> QED
        BY <4>2 DEF n
    <3>4. Head(s) = s[1]
      BY <1>1
    <3> QED
      BY <3>3, <3>4
  <2>3. InHandAt(from, s) = {Head(s)}
    BY <1>3, <2>2
  <2> QED
    BY <1>4, <1>6, <2>1, <2>3, NoHand
<1> QED
  BY <1>5, <1>6 DEF AppendItem

LEMMA SetNowStep ==
  ASSUME TypeOK, OrderInv, NEW h \in Handlers,
         QueueStep(h, "set_now", SetNowPlaying(queue, Head(arg[h])), "start")
  PROVE  JukeboxStep
<1> DEFINE s == arg[h]
<1>1. /\ pc[h] = "set_now" /\ s # <<>> /\ h \in Processes /\ queue \in Queue
      /\ pc[h] \in Pending \ {"start"} /\ s \in Seq(Track) /\ Len(s) \in Nat
  BY LenProperties
  DEF QueueStep, TypeOK, ControlOK, DataOK, Carrying, Processes, Pending, Fresh
<1>2. InHandAt(pc[h], s) = {s[i] : i \in 1 .. Len(s)}
  BY <1>1, HandLabels DEF InHandAt
<1>3. InHandAt("start", s) = {s[i] : i \in 2 .. Len(s)}
  <2>1. {j \in 1 .. Len(s) : j > 1} = 2 .. Len(s)
    BY <1>1
  <2>2. "start" \in Pending
    BY DEF Pending
  <2> QED
    BY <2>1, <2>2, HandLabels DEF InHandAt
<1>4. InHandAt("start", s) = InHandAt(pc[h], s) \ {Head(s)}
  BY <1>1, <1>2, <1>3, TailHand
<1>5. GoesOn(h, "start", s)
  BY MoveGoesOn DEF QueueStep, Goto, bounds
<1>6. /\ Head(s) \in Unqueued
      /\ Unqueued' = Unqueued \ {Head(s)}
  BY <1>1, <1>4, <1>5, TakesFromHand
<1> QED
  BY <1>1, <1>6, StartStep DEF QueueStep

LEMMA EnqueueItemsStep ==
  ASSUME TypeOK, OrderInv, NEW h \in Handlers, EnqueueItems(h)
  PROVE  JukeboxStep
<1>1. h \in Processes
  BY DEF Processes
<1>2. CASE QueueStep(h, "set_active", SetActive(queue, TRUE), "set_now")
  <2>1. GoesOn(h, "set_now", arg[h]) /\ pc[h] = "set_active"
    BY <1>2, MoveGoesOn DEF QueueStep, Goto, bounds
  <2>2. Unqueued' = Unqueued
    BY <1>1, <2>1, FreshLabels, SameHand, KeepsHand
  <2>3. queue'.items = queue.items /\ queue'.now = queue.now
    BY <1>2 DEF QueueStep, SetActive, TypeOK, DataOK, Queue
  <2> QED
    BY <2>2, <2>3 DEF JukeboxStep
<1>3. ASSUME NEW from \in Fresh, NEW cond, NEW yes \in Fresh \cup {"append"},
             NEW no \in Fresh, Branch(h, from, cond, yes, no)
      PROVE  JukeboxStep
  BY <1>1, <1>3, BranchStep
<1> QED
  BY <1>2, <1>3, FreshLabels, AppendItemStep, SetNowStep DEF EnqueueItems

\* A started request keeps its tail in hand, which it still has to append.
LEMMA PlayCallStep ==
  ASSUME TypeOK, OrderInv, NEW p \in Processes, PlayCall(p)
  PROVE  JukeboxStep
<1>1. queue' = queue /\ requests' = requests
  BY DEF PlayCall
<1>2. CASE pc[p] = "start" /\ Move(p, "tail", Tail(arg[p]))
  <2> DEFINE s == arg[p]
  <2>1. p \in Handlers /\ s # <<>> /\ s \in Seq(Track) /\ pc[p] \in Pending
    BY <1>2
    DEF TypeOK, ControlOK, LabelsOf, ReaderLabels, Carrying, Processes, Pending
  <2>2. Len(s) \in Nat
    BY <2>1, LenProperties
  <2>3. InHandAt("start", s) = {s[i] : i \in 2 .. Len(s)}
    <3>1. {j \in 1 .. Len(s) : j > 1} = 2 .. Len(s)
      BY <2>2
    <3> QED
      BY <1>2, <2>1, <3>1, HandLabels DEF InHandAt
  <2>4. InHandAt("tail", Tail(s)) = {Tail(s)[i] : i \in 1 .. Len(Tail(s))}
    <3>1. "tail" \in Pending
      BY DEF Pending
    <3> QED
      BY <3>1, HandLabels DEF InHandAt
  <2>5. InHandAt("tail", Tail(s)) = InHandAt(pc[p], s)
    BY <1>2, <2>1, <2>3, <2>4, TailHand
  <2> QED
    BY <1>1, <1>2, <2>5, PlainStep
<1>3. ASSUME NEW l \in {"mark", "idle", "drop"}, NEW s, Move(p, l, s)
      PROVE  JukeboxStep
  BY <1>1, <1>3, DoneStep DEF Pending, Fresh
<1> QED
  BY <1>2, <1>3 DEF PlayCall, Finish

LEMMA ClearStep ==
  ASSUME TypeOK, NEW p \in Processes, NEW from, NEW l,
         {from, l} \cap Pending = {}, QueueStep(p, from, Clear(queue), l)
  PROVE  JukeboxStep
<1>1. GoesOn(p, l, arg[p]) /\ pc[p] = from /\ queue \in Queue
  BY MoveGoesOn DEF QueueStep, Goto, bounds, TypeOK, DataOK
<1>2. Unqueued' = Unqueued
  BY <1>1, NoHand, KeepsHand
<1> QED
  BY <1>1, <1>2, EmptyStep DEF QueueStep

LEMMA SharedStepStep ==
  ASSUME TypeOK, OrderInv, NEW p \in Processes, SharedStep(p)
  PROVE  JukeboxStep
<1>1. {"idle", "drop", "drop_clock"} \cap Pending = {}
  BY DEF Pending, Fresh
<1>2. CASE MarkStart(p)
  BY <1>1, <1>2, DoneStep DEF MarkStart, Finish, bounds
<1>3. CASE Drop(p)
  BY <1>1, <1>3, ClearStep DEF Drop
<1>4. CASE ClearClock(p, "drop_clock", "idle")
  BY <1>1, <1>4, DoneStep DEF ClearClock, Finish, bounds
<1> QED
  BY <1>2, <1>3, <1>4, PlayCallStep DEF SharedStep

LEMMA PopStep ==
  ASSUME TypeOK, NEW p \in Processes, NEW l, NEW s, Move(p, l, s),
         pc[p] \notin Pending, l \notin Pending, requests' = requests,
         queue' = Advance(queue)
  PROVE  JukeboxStep
<1>1. Unqueued' = Unqueued
  BY MoveGoesOn, NoHand, KeepsHand
<1> QED
  BY <1>1, AdvanceStep DEF TypeOK, DataOK

LEMMA ControlStep ==
  ASSUME TypeOK, NEW h \in Handlers, SkipTrack(h) \/ PauseResume(h) \/ ClearAll(h)
  PROVE  JukeboxStep
<1>1. h \in Processes
  BY DEF Processes
<1>2. {"skip", "skip_stop", "skip_play", "drop", "idle", "vote_clear", "freeze", "thaw",
       "clear", "clear_clock", "clear_votes", "clear_playing", "clear_paused",
       "clear_stop"} \cap Pending = {}
  BY DEF Pending, Fresh
<1>3. ASSUME NEW from, NEW l \in {"drop", "idle"}, StopCall(h, from, l)
      PROVE  JukeboxStep
  BY <1>1, <1>2, <1>3, DoneStep DEF StopCall, Goto, Finish
<1>4. CASE SkipTrack(h)
  <2>1. CASE CastVote(h)
    BY <1>1, <1>2, <2>1, DoneStep DEF CastVote, Goto, Finish, bounds
  <2>2. CASE ClearVotes(h, "vote_clear", "skip")
    BY <1>1, <1>2, <2>2, DoneStep DEF ClearVotes, Goto, bounds
  <2>3. CASE SkipPop(h)
    BY <1>1, <1>2, <2>3, PopStep DEF SkipPop, Skip, Goto, bounds
  <2> QED
    BY <1>3, <1>4, <2>1, <2>2, <2>3 DEF SkipTrack
<1>5. CASE PauseResume(h)
  BY <1>1, <1>2, <1>5, DoneStep
  DEF PauseResume, PauseCall, MarkPaused, Goto, Finish, bounds
<1>6. CASE ClearAll(h)
  <2>1. CASE QueueStep(h, "clear", Clear(queue), "clear_clock")
    BY <1>1, <1>2, <2>1, ClearStep
  <2>2. CASE ClearClock(h, "clear_clock", "clear_votes")
    BY <1>1, <1>2, <2>2, DoneStep DEF ClearClock, Goto, Finish, bounds
  <2>3. CASE ClearVotes(h, "clear_votes", "clear_playing")
    BY <1>1, <1>2, <2>3, DoneStep DEF ClearVotes, Goto, bounds
  <2> QED
    BY <1>1, <1>2, <1>3, <1>6, <2>1, <2>2, <2>3, BranchStep DEF ClearAll
<1> QED
  BY <1>4, <1>5, <1>6

\* A removal takes one track out of the line.
LEMMA EditQueueStep ==
  ASSUME TypeOK, OrderInv, NEW h \in Handlers, EditQueue(h)
  PROVE  JukeboxStep
<1>1. h \in Processes /\ pc[h] \notin {"boost", "shuffle", "loop"}
  BY DEF OrderInv, Processes, Reordering
<1>2. PICK i \in 1 .. Len(queue.items) + 1 :
        QueueEdit(h, "remove", RemoveUpcoming(queue, i))
  BY <1>1 DEF EditQueue, QueueEdit
<1>3. /\ GoesOn(h, "idle", <<>>) /\ pc[h] = "remove"
      /\ queue \in Queue /\ queue.items \in Seq(Track)
  BY <1>2, MoveGoesOn DEF QueueEdit, Finish, bounds, TypeOK, DataOK, Queue
<1>4. Unqueued' = Unqueued
  BY <1>1, <1>3, NoHand, KeepsHand DEF Pending, Fresh
<1>5. CASE ~ValidIndex(queue, i)
  BY <1>2, <1>4, <1>5, DiscardStep DEF QueueEdit, RemoveUpcoming
<1>6. CASE ValidIndex(queue, i)
  <2>1. i \in 1 .. Len(queue.items)
    BY <1>6 DEF ValidIndex
  <2>2. queue'.items = RemoveAt(queue.items, i) /\ queue'.now = queue.now
    BY <1>2, <1>3, <1>6 DEF QueueEdit, RemoveUpcoming, Queue
  <2>3. RemoveAt(queue.items, i)
          = [j \in 1 .. Len(queue.items) - 1 |->
               queue.items[IF j < i THEN j ELSE j + 1]]
    <3> DEFINE r == RemoveAt(queue.items, i)
    <3>1. /\ r \in Seq(Track) /\ Len(r) = Len(queue.items) - 1
          /\ \A j \in 1 .. Len(r) : r[j] = queue.items[IF j < i THEN j ELSE j + 1]
      BY <1>3, <2>1, RemoveAtProperties
    <3> HIDE DEF r
    <3>2. r = [j \in 1 .. Len(r) |-> r[j]]
      BY <3>1
    <3> QED
      BY <3>1, <3>2 DEF r
  <2>4. Jukebox!Leave
    BY <1>4, <2>1, <2>2, <2>3 DEF Jukebox!Leave
  <2> QED
    BY <2>4 DEF JukeboxStep, Jukebox!Next
<1> QED
  BY <1>5, <1>6

LEMMA ReaderStepStep ==
  ASSUME TypeOK, OrderInv, Receive \/ OnTrackEnd
  PROVE  JukeboxStep
<1>1. /\ Reader \in Processes /\ Reader \notin Handlers
      /\ pc[Reader] \notin Reordering /\ queue.loop = "off"
  BY ReaderIsNoHandler DEF Processes, OrderInv, QueueOrder
<1>2. {"end_active", "end_track", "end_queue", "advance", "idle", "drop_clock",
       "next_play"} \cap Pending = {}
  BY DEF Pending, Fresh
<1>3. CASE Receive
  <2>1. /\ queue' = queue /\ requests' = requests /\ arg' = arg
        /\ \A h \in Handlers : pc'[h] = pc[h]
    <3>1. queue' = queue /\ requests' = requests /\ arg' = arg
      BY <1>3 DEF Receive, bounds
    <3>2. pc' = pc \/ pc' = [pc EXCEPT ![Reader] = "end_active"]
      BY <1>3 DEF Receive
    <3>3. \A h \in Handlers : h # Reader /\ h \in Processes
      BY <1>1 DEF Processes
    <3>4. pc \in [Processes -> HandlerLabels \cup ReaderLabels]
      BY DEF TypeOK, ControlOK
    <3> QED
      BY <3>1, <3>2, <3>3, <3>4
  <2>2. Unqueued' = Unqueued
    BY <2>1 DEF Unqueued, ToCome, InHandAt
  <2> QED
    BY <2>1, <2>2, DiscardStep
<1>4. ASSUME NEW from, NEW cond, NEW yes, NEW no, {yes, no} \cap Pending = {},
             Branch(Reader, from, cond, yes, no)
      PROVE  JukeboxStep
  BY <1>1, <1>4, BranchStep
<1>5. CASE Branch(Reader, "end_track", queue.loop = "track", "end_now", "end_queue")
  <2>1. Move(Reader, "end_queue", arg[Reader]) /\ queue' = queue /\ requests' = requests
    BY <1>1, <1>5 DEF Branch, Goto, bounds
  <2> QED
    BY <1>1, <1>2, <2>1, DoneStep
<1>6. CASE Branch(Reader, "end_queue", queue.loop = "queue", "end_finished", "advance")
  <2>1. Move(Reader, "advance", arg[Reader]) /\ queue' = queue /\ requests' = requests
    BY <1>1, <1>6 DEF Branch, Goto, bounds
  <2> QED
    BY <1>1, <1>2, <2>1, DoneStep
<1>7. CASE AdvanceQueue
  <2>1. pc[Reader] \notin Pending
    BY <1>2, <1>7 DEF AdvanceQueue
  <2> QED
    BY <1>1, <1>2, <1>7, <2>1, PopStep DEF AdvanceQueue, Goto, bounds
<1> QED
  BY <1>1, <1>2, <1>3, <1>4, <1>5, <1>6, <1>7
  DEF OnTrackEnd, CopyNow, AppendItem, Reordering

\* The tracks of a new request were to come.
LEMMA BeginStep ==
  ASSUME NoReordering, TypeOK, NEW h \in Handlers, Begin(h)
  PROVE  JukeboxStep
<1>1. h \in Processes /\ queue' = queue /\ requests \in Nat
  BY DEF Begin, Processes, TypeOK, DataOK
<1>2. ASSUME NEW c \in Commands \ {"play"}, Goto(h, c), requests' = requests
      PROVE  JukeboxStep
  <2>1. c \notin Pending
    BY <1>2, CommandsAssumption DEF AllCommands, Pending, Fresh
  <2> QED
    BY <1>1, <1>2, <2>1, DoneStep DEF Goto
<1>3. ASSUME NEW n \in RequestSizes, requests < MaxRequests, requests' = requests + 1,
             Move(h, "play", [i \in 1 .. n |-> [req |-> requests + 1, pos |-> i]])
      PROVE  JukeboxStep
  <2> DEFINE s == [i \in 1 .. n |-> [req |-> requests + 1, pos |-> i]]
  <2>1. /\ pc'[h] = "play" /\ arg'[h] = s
        /\ \A g \in Handlers \ {h} : pc'[g] = pc[g] /\ arg'[g] = arg[g]
    BY <1>1, <1>3 DEF Move, TypeOK, ControlOK, Processes
  <2>2. n \in Nat /\ Len(s) = n
    BY SizesAssumption
  <2>3. InHandAt("play", s) \subseteq ToCome
    <3> SUFFICES ASSUME NEW i \in 1 .. n PROVE s[i] \in ToCome
      BY <2>2 DEF InHandAt
    <3>1. s[i] = [req |-> requests + 1, pos |-> i]
      OBVIOUS
    <3>2. requests + 1 \in requests + 1 .. MaxRequests
      BY <1>1, <1>3, BoundsAssumption
    <3>3. i \in UNION {1 .. m : m \in RequestSizes}
      OBVIOUS
    <3> QED
      BY <3>1, <3>2, <3>3 DEF ToCome
  <2>4. ToCome' \subseteq ToCome
    BY <1>1, <1>3, BoundsAssumption DEF ToCome
  <2> HIDE DEF s
  <2>5. \A g \in Handlers : InHandAt(pc[g], arg[g])' \subseteq Unqueued
    <3> SUFFICES ASSUME NEW g \in Handlers
                 PROVE  InHandAt(pc'[g], arg'[g]) \subseteq Unqueued
      BY DEF InHandAt
    <3>1. CASE g = h
      BY <2>1, <2>3, <3>1 DEF Unqueued
    <3>2. CASE g # h
      BY <2>1, <3>2 DEF Unqueued
    <3> QED
      BY <3>1, <3>2
  <2>6. ToCome \subseteq Unqueued
    BY DEF Unqueued
  <2>7. Unqueued' \subseteq Unqueued
    BY <2>4, <2>5, <2>6 DEF Unqueued
  <2> QED
    BY <1>1, <2>7, DiscardStep
<1> QED
  BY <1>2, <1>3 DEF Begin

\* Every step of handlers, read loop and node is a step of the abstract queue
\* or none at all.
THEOREM PlaybackImplementsJukebox == NoReordering => (Spec => QueueIsJukebox)
<1>1. Init => Jukebox!Init
  <2> SUFFICES ASSUME Init PROVE Jukebox!Init
    OBVIOUS
  <2>1. queue.items = <<>> /\ queue.now = None
    BY DEF Init, NewQueue
  <2>2. \A h \in Handlers : InHandAt(pc[h], arg[h]) = {}
    BY NoHand DEF Init, Processes, Pending, Fresh
  <2>3. ToCome \subseteq Track
    BY TrackAssumption, BoundsAssumption DEF Init, ToCome
  <2> QED
    BY <2>1, <2>2, <2>3 DEF Jukebox!Init, Unqueued
<1>2. NoReordering /\ TypeOK /\ OrderInv /\ [Next]_vars => JukeboxStep
  <2> SUFFICES ASSUME NoReordering, TypeOK, OrderInv, [Next]_vars PROVE JukeboxStep
    OBVIOUS
  <2>1. ASSUME NEW h \in Handlers, HandlerStep(h) PROVE JukeboxStep
    <3>1. h \in Processes
      BY DEF Processes
    <3> QED
      BY <2>1, <3>1, ResetStaleQueueStep, ResolveStep, EnqueueItemsStep, ControlStep,
         EditQueueStep, SharedStepStep DEF HandlerStep
  <2>2. CASE ReaderStep
    BY <2>2, LabelFacts, ReaderStepStep, SharedStepStep DEF ReaderStep
  <2>3. CASE NodeFinish \/ UNCHANGED vars
    <3>1. queue' = queue /\ pc' = pc /\ arg' = arg /\ requests' = requests
      BY <2>3 DEF NodeFinish, vars, control, bounds
    <3>2. Unqueued' = Unqueued
      BY <3>1 DEF Unqueued, ToCome, InHandAt
    <3> QED
      BY <3>1, <3>2, DiscardStep
  <2> QED
    BY <2>1, <2>2, <2>3, BeginStep DEF Next, Rest
<1>3. NoReordering /\ [Next]_vars => NoReordering'
  BY DEF NoReordering
<1> QED
  BY <1>1, <1>2, <1>3, TypeCorrect, OrderInvariant, PTL DEF Spec, QueueIsJukebox, Jukebox!Spec, JukeboxStep

=============================================================================
