------------------------- MODULE TrackStreamProofs -------------------------
(***************************************************************************)
(* Safety of TrackStream for any number of clients and variants, tracks    *)
(* and pipes of any length, and any failures.                              *)
(***************************************************************************)
EXTENDS TrackStream, TLAPS

\* The lookup: who copies, what they may still find, and that a command which
\* runs is one of the clients'.
LookupInv ==
  /\ lookup.todo = "start" => lookup.run \in {"none", "reaped"} /\ copiers = {}
  /\ lookup.todo = "await" => lookup.run \in {"up", "over"} /\ lookup.client <= Clients
  /\ lookup.todo \in {"found", "failed"} => lookup.run \in {"none", "reaped"} /\ copiers = {}
  /\ "out" \notin copiers => lookup.out = 0 /\ lookup.run # "up"
  /\ "err" \notin copiers => lookup.err = 0 /\ lookup.run # "up"
  /\ lookup.read + lookup.out + lookup.outLeft <= Chunks

\* The handler's place in its code tells which processes exist.
ProcessInv ==
  /\ stream.todo \in {"none", "open", "peek", "encode"} =>
       encoder = [run |-> "none", feeder |-> "none", inbox |-> 0, outbox |-> 0]
  /\ stream.todo \in {"none", "open"} =>
       source.run \in {"none", "reaped"} /\ source.pipe = 0
  /\ stream.todo \in {"peek", "encode", "copy", "wait", "close"} =>
       source.run \in {"up", "over"} /\ stream.variant <= Variants
  /\ stream.todo \in {"copy", "wait"} =>
       encoder.run \in {"up", "over"} /\ encoder.feeder # "none"
  /\ stream.todo = "close" =>
       encoder.run \in {"none", "reaped"} /\ encoder.feeder \in {"none", "done"}

\* The chunks of the current variant that are on their way, and those that
\* were heard.
OnTheWay == source.left + source.pipe + (IF encoder.feeder = "writing" THEN 1 ELSE 0)
              + encoder.inbox + encoder.outbox
NothingAdded ==
  /\ OnTheWay + stream.sent <= Chunks
  /\ stream.todo \in {"none", "open", "peek", "encode"} => stream.sent = 0

\* Nothing has gone wrong: no process has failed, and the node listens.
Fine == faults = 0 /\ node \in {"off", "on"}

SilentBefore(n) == \A v \in 1 .. Variants : v < n => offers[v] = 0

\* Then nothing is lost on the way, and nothing ends before what feeds it.
NothingLost ==
  Fine /\ Alive /\ stream.todo # "done" =>
    /\ SilentBefore(stream.variant)
    /\ stream.todo \in {"peek", "encode", "copy", "wait"} =>
         /\ OnTheWay + stream.sent = offers[stream.variant]
         /\ source.run = "over" => source.left = 0
    /\ stream.todo = "encode" => source.pipe > 0
    /\ stream.todo \in {"copy", "wait"} =>
         /\ offers[stream.variant] > 0
         /\ encoder.feeder = "done" => source.run = "over" /\ source.pipe = 0
         /\ encoder.run = "over" => encoder.feeder = "done" /\ encoder.inbox = 0
    /\ stream.todo = "wait" => encoder.outbox = 0 /\ encoder.run = "over"
    /\ stream.todo = "close" =>
         offers[stream.variant] > 0 /\ stream.sent = offers[stream.variant]

IInv ==
  /\ TypeOK /\ LookupInv /\ ProcessInv /\ NothingAdded
  /\ node = "off" <=> stream.todo = "none"
  /\ NothingLost /\ WholeTrack /\ NothingLeftBehind

-----------------------------------------------------------------------------
(* The invariant falls into a part for the lookup and one for the stream.  *)

LookupType ==
  /\ lookup \in [todo : {"start", "await", "found", "failed"}, client : 1 .. Clients + 1,
                 run : Runs, out : 0 .. Capacity, err : 0 .. Capacity,
                 outLeft : 0 .. Chunks, errLeft : 0 .. Chunks, read : 0 .. Chunks,
                 expired : BOOLEAN]
  /\ copiers \subseteq {"out", "err"}
  /\ lookup.run = "reaped" => copiers = {}

StreamType ==
  /\ stream \in [todo : Todos, variant : 1 .. Variants + 1,
                 status : {"none", "no audio", "no encoder", "ended"}, sent : 0 .. Chunks]
  /\ node \in {"off", "on", "gone", "cancelled"}
  /\ source \in [run : Runs, left : 0 .. Chunks, pipe : 0 .. Capacity]
  /\ encoder \in [run : Runs, feeder : Feeders, inbox : 0 .. Capacity, outbox : 0 .. Capacity]
  /\ source.run = "reaped" => encoder.feeder \in {"none", "done"}
  /\ offers \in [1 .. Variants -> 0 .. Chunks]

OthersType == bot \in {"up", "closing", "gone"} /\ faults \in 0 .. MaxFaults

StreamInv ==
  /\ StreamType /\ ProcessInv /\ NothingAdded
  /\ node = "off" <=> stream.todo = "none"
  /\ NothingLost /\ WholeTrack /\ NothingLeftBehind

LEMMA InvParts == IInv <=> LookupType /\ LookupInv /\ StreamInv /\ OthersType
BY DEF IInv, TypeOK, LookupType, StreamType, StreamInv, OthersType

LEMMA InvPartsNext ==
  ASSUME LookupType', LookupInv', StreamInv', OthersType'
  PROVE  IInv'
BY DEF IInv, TypeOK, LookupType, StreamType, StreamInv, OthersType

LEMMA Numbers ==
  /\ Clients \in Nat /\ Variants \in Nat /\ Chunks \in Nat /\ MaxFaults \in Nat
  /\ Capacity \in Nat \ {0}
BY NumbersAssumption

LEMMA StreamFields ==
  ASSUME StreamType
  PROVE  /\ stream.variant \in Nat /\ stream.variant >= 1 /\ stream.variant <= Variants + 1
         /\ stream.sent \in 0 .. Chunks
         /\ source.left \in 0 .. Chunks /\ source.pipe \in 0 .. Capacity
         /\ encoder.inbox \in 0 .. Capacity /\ encoder.outbox \in 0 .. Capacity
         /\ \A v \in 1 .. Variants : offers[v] \in 0 .. Chunks
<1>1. stream.variant \in 1 .. Variants + 1 /\ stream.sent \in 0 .. Chunks
  BY DEF StreamType
<1>2. source.left \in 0 .. Chunks /\ source.pipe \in 0 .. Capacity
  BY DEF StreamType
<1>3. encoder.inbox \in 0 .. Capacity /\ encoder.outbox \in 0 .. Capacity
  BY DEF StreamType
<1>4. \A v \in 1 .. Variants : offers[v] \in 0 .. Chunks
  BY DEF StreamType
<1> QED
  BY <1>1, <1>2, <1>3, <1>4, Numbers

LEMMA FaultFacts ==
  ASSUME OthersType, Fault
  PROVE  faults' \in 0 .. MaxFaults /\ faults' # 0
BY NumbersAssumption DEF OthersType, Fault

-----------------------------------------------------------------------------
(* The lookup.                                                             *)

LEMMA LookupStep ==
  ASSUME LookupType, LookupInv, OthersType, Lookup \/ LookupWrites \/ LookupExpires
  PROVE  LookupType' /\ LookupInv'
<1> USE NumbersAssumption DEF LookupType, LookupInv, Runs
<1>1. CASE StartLookup
  <2>1. ASSUME NEW o \in 0 .. Chunks, NEW e \in 0 .. Chunks, lookup.client <= Clients,
               lookup.todo = "start",
               lookup' = [lookup EXCEPT !.todo = "await", !.run = "up", !.read = 0,
                                        !.outLeft = o, !.errLeft = e],
               copiers' = {"out", "err"}
        PROVE  LookupType' /\ LookupInv'
    <3>1. copiers = {} /\ lookup.out = 0 /\ lookup.err = 0 /\ 0 \in 0 .. Chunks
      BY <2>1
    <3>2. LookupType'
      BY <2>1, <3>1
    <3>3. lookup'.read + lookup'.out + lookup'.outLeft <= Chunks
      BY <2>1, <3>1
    <3> QED
      BY <2>1, <3>1, <3>2, <3>3
  <2>2. ASSUME lookup.todo = "start", lookup.client <= Clients,
               lookup' = [lookup EXCEPT !.client = @ + 1], copiers' = copiers
        PROVE  LookupType' /\ LookupInv'
    BY <2>2
  <2> QED
    BY <1>1, <2>1, <2>2 DEF StartLookup
<1>2. CASE LookupFails
  BY <1>2 DEF LookupFails
<1>3. CASE CopyErr
  BY <1>3 DEF CopyErr
<1>4. CASE CopyOut
  <2>1. CASE lookup.out > 0
    <3>1. /\ lookup' = [lookup EXCEPT !.out = @ - 1, !.read = @ + 1]
          /\ copiers' = copiers /\ "out" \in copiers
      BY <1>4, <2>1 DEF CopyOut
    <3>2. lookup.out - 1 \in 0 .. Capacity /\ lookup.read + 1 \in 0 .. Chunks
      BY <2>1
    <3>3. LookupType'
      BY <3>1, <3>2
    <3> QED
      BY <2>1, <3>1, <3>2, <3>3
  <2>2. CASE lookup.out = 0
    BY <1>4, <2>2 DEF CopyOut
  <2> QED
    BY <2>1, <2>2
<1>5. CASE EndLookup
  <2>1. /\ copiers' = copiers /\ copiers = {} /\ lookup.todo = "await"
        /\ \/ lookup' = [lookup EXCEPT !.todo = "found", !.run = "reaped"]
           \/ lookup' = [lookup EXCEPT !.todo = "start", !.client = @ + 1, !.run = "reaped"]
    BY <1>5 DEF EndLookup
  <2>2. lookup.client + 1 \in 1 .. Clients + 1
    BY <2>1
  <2>3. LookupType'
    <3>1. CASE lookup' = [lookup EXCEPT !.todo = "found", !.run = "reaped"]
      BY <2>1, <3>1
    <3>2. CASE lookup' = [lookup EXCEPT !.todo = "start", !.client = @ + 1, !.run = "reaped"]
      BY <2>1, <2>2, <3>2
    <3> QED
      BY <2>1, <3>1, <3>2
  <2> QED
    BY <2>1, <2>3
<1>6. CASE LookupWrites
  <2>1. CASE lookup' = [lookup EXCEPT !.outLeft = @ - 1, !.out = @ + 1]
             /\ lookup.outLeft > 0 /\ lookup.out < Capacity
    <3>1. lookup.outLeft - 1 \in 0 .. Chunks /\ lookup.out + 1 \in 0 .. Capacity
      BY <2>1
    <3>2. copiers' = copiers /\ lookup.run = "up"
      BY <1>6 DEF LookupWrites
    <3>3. LookupType'
      BY <2>1, <3>1, <3>2
    <3> QED
      BY <2>1, <3>1, <3>2, <3>3
  <2>2. CASE lookup' = [lookup EXCEPT !.errLeft = @ - 1, !.err = @ + 1]
             /\ lookup.errLeft > 0 /\ lookup.err < Capacity
    <3>1. lookup.errLeft - 1 \in 0 .. Chunks /\ lookup.err + 1 \in 0 .. Capacity
      BY <2>2
    <3>2. copiers' = copiers /\ lookup.run = "up"
      BY <1>6 DEF LookupWrites
    <3>3. LookupType'
      BY <2>2, <3>1, <3>2
    <3> QED
      BY <2>2, <3>1, <3>2, <3>3
  <2>3. CASE lookup' = [lookup EXCEPT !.run = "over"]
    BY <1>6, <2>3 DEF LookupWrites
  <2> QED
    BY <1>6, <2>1, <2>2, <2>3 DEF LookupWrites
<1>7. CASE LookupExpires
  BY <1>7 DEF LookupExpires
<1> QED
  BY <1>1, <1>2, <1>3, <1>4, <1>5, <1>6, <1>7 DEF Lookup

-----------------------------------------------------------------------------
(* The handler's steps.                                                    *)

LEMMA AskStep ==
  ASSUME StreamInv, OthersType, Ask
  PROVE  StreamInv'
<1> USE Numbers DEF StreamInv
<1>1. /\ stream.todo = "none" /\ stream' = [stream EXCEPT !.todo = "open"]
      /\ node' = "on" /\ UNCHANGED <<source, encoder, offers, bot, faults>>
  BY DEF Ask, Goto, Streaming
<1>2. StreamType' /\ stream'.todo = "open" /\ stream'.variant = stream.variant
      /\ stream'.sent = stream.sent
  BY <1>1 DEF StreamType, Todos
<1>3. ProcessInv' /\ NothingAdded'
  BY <1>1, <1>2 DEF ProcessInv, NothingAdded, OnTheWay
<1>4. NothingLost'
  BY <1>1, <1>2 DEF NothingLost, Fine, Alive, SilentBefore
<1> QED
  BY <1>1, <1>2, <1>3, <1>4 DEF WholeTrack, NothingLeftBehind

LEMMA StartSourceStep ==
  ASSUME StreamInv, OthersType, StartSource
  PROVE  StreamInv'
<1> USE Numbers DEF StreamInv
<1>f. StreamType /\ stream.todo = "open" /\ stream.variant <= Variants
  BY DEF StartSource, At
<1>0. /\ stream.todo = "open" /\ stream.variant \in 1 .. Variants
      /\ UNCHANGED <<node, encoder, offers, bot>>
  BY <1>f, StreamFields DEF StartSource, Streaming
<1>1. ASSUME source' = [source EXCEPT !.run = "up", !.left = offers[stream.variant]],
             stream' = [stream EXCEPT !.todo = "peek"], faults' = faults
      PROVE  StreamInv'
  <2>0. offers[stream.variant] \in 0 .. Chunks
    BY <1>0 DEF StreamType
  <2>1. /\ stream'.todo = "peek" /\ stream'.variant = stream.variant
        /\ stream'.sent = 0 /\ source'.run = "up" /\ source'.pipe = 0
        /\ source'.left = offers[stream.variant]
    BY <1>0, <1>1 DEF StreamType, ProcessInv, NothingAdded
  <2>2. StreamType'
    BY <1>0, <1>1, <2>0 DEF StreamType, Todos, Runs
  <2>3. ProcessInv'
    BY <1>0, <2>1 DEF ProcessInv
  <2>4. OnTheWay' = offers[stream.variant]
    BY <1>0, <2>0, <2>1 DEF ProcessInv, OnTheWay
  <2>5. NothingAdded'
    BY <2>0, <2>1, <2>4 DEF NothingAdded
  <2>6. NothingLost'
    BY <1>0, <1>1, <2>0, <2>1, <2>4 DEF NothingLost, Fine, Alive, SilentBefore
  <2> QED
    BY <1>0, <2>1, <2>2, <2>3, <2>5, <2>6 DEF WholeTrack, NothingLeftBehind
<1>2. ASSUME stream' = [stream EXCEPT !.variant = @ + 1], source' = source, ~Fine'
      PROVE  StreamInv'
  <2>0. stream.variant + 1 \in 1 .. Variants + 1
    BY <1>0
  <2>1. /\ stream'.todo = "open" /\ stream'.sent = stream.sent
        /\ stream'.variant = stream.variant + 1
    BY <1>f, <1>2 DEF StreamType
  <2>2. StreamType'
    BY <1>0, <1>2, <2>0 DEF StreamType
  <2>3. ProcessInv' /\ NothingAdded'
    BY <1>0, <1>2, <2>1 DEF ProcessInv, NothingAdded, OnTheWay
  <2> QED
    BY <1>0, <1>2, <2>1, <2>2, <2>3 DEF NothingLost, WholeTrack, NothingLeftBehind
<1> QED
  BY <1>0, <1>1, <1>2, FaultFacts DEF StartSource, Goto, Fine, Cancelled

LEMMA NoAudioStep ==
  ASSUME StreamInv, OthersType, NoAudio
  PROVE  StreamInv'
<1> USE Numbers DEF StreamInv
<1>1. /\ stream.todo = "open" /\ stream.variant = Variants + 1 /\ Alive
      /\ stream' = [stream EXCEPT !.todo = "done", !.status = "no audio"]
      /\ UNCHANGED <<node, source, encoder, offers, bot, faults>>
  <2>1. stream.variant = Variants + 1
    BY StreamFields DEF NoAudio
  <2> QED
    BY <2>1 DEF NoAudio, At, Streaming
<1>2. /\ StreamType' /\ stream'.todo = "done" /\ stream'.sent = 0
      /\ stream'.variant = stream.variant
  BY <1>1 DEF StreamType, Todos, NothingAdded
<1>3. ProcessInv' /\ NothingAdded' /\ NothingLeftBehind'
  BY <1>1, <1>2 DEF ProcessInv, NothingAdded, OnTheWay, NothingLeftBehind
<1>4. WholeTrack'
  <2>1. Fine => Audible = {}
    <3>1. Fine => SilentBefore(Variants + 1)
      BY <1>1 DEF NothingLost
    <3>2. \A v \in 1 .. Variants : v < Variants + 1
      OBVIOUS
    <3> QED
      BY <3>1, <3>2 DEF SilentBefore, Audible
  <2> QED
    BY <1>1, <1>2, <2>1 DEF WholeTrack, Fine, Audible
<1> QED
  BY <1>1, <1>2, <1>3, <1>4 DEF NothingLost

LEMMA HasAudioStep ==
  ASSUME StreamInv, OthersType, HasAudio
  PROVE  StreamInv'
<1> USE Numbers DEF StreamInv
<1>1. /\ stream.todo = "peek" /\ source.pipe > 0
      /\ stream' = [stream EXCEPT !.todo = "encode"]
      /\ UNCHANGED <<node, source, encoder, offers, bot, faults>>
  BY DEF HasAudio, At, Goto, Streaming
<1>2. /\ StreamType' /\ stream'.todo = "encode" /\ stream'.sent = stream.sent
      /\ stream'.variant = stream.variant
  BY <1>1 DEF StreamType, Todos
<1>3. ProcessInv' /\ NothingAdded'
  BY <1>1, <1>2 DEF ProcessInv, NothingAdded, OnTheWay
<1>4. NothingLost'
  BY <1>1, <1>2 DEF NothingLost, Fine, Alive, SilentBefore, OnTheWay
<1> QED
  BY <1>1, <1>2, <1>3, <1>4 DEF WholeTrack, NothingLeftBehind

\* A variant without a chunk is silent: nothing was left, and nothing is in
\* the pipe.
LEMMA DiscardStep ==
  ASSUME StreamInv, OthersType, Discard
  PROVE  StreamInv'
<1> USE Numbers DEF StreamInv
<1>1. /\ stream.todo = "peek" /\ source.pipe = 0 /\ source.run = "over" /\ Alive
      /\ stream' = [stream EXCEPT !.todo = "open", !.variant = @ + 1]
      /\ source' = [source EXCEPT !.run = "reaped"]
      /\ UNCHANGED <<node, encoder, offers, bot, faults>>
  BY DEF Discard, At, Streaming
<1>2. /\ stream.variant \in 1 .. Variants /\ encoder.feeder = "none"
      /\ encoder.inbox = 0 /\ encoder.outbox = 0 /\ stream.sent = 0
      /\ source.left \in 0 .. Chunks
  <2>1. stream.variant <= Variants
    BY <1>1 DEF ProcessInv
  <2>2. encoder.feeder = "none" /\ encoder.inbox = 0 /\ encoder.outbox = 0 /\ stream.sent = 0
    BY <1>1 DEF ProcessInv, NothingAdded
  <2> QED
    BY <2>1, <2>2, StreamFields
<1>3. /\ stream'.todo = "open" /\ stream'.sent = 0 /\ stream'.variant = stream.variant + 1
      /\ source'.run = "reaped" /\ source'.pipe = 0 /\ source'.left = source.left
  BY <1>1, <1>2 DEF StreamType
<1>4. StreamType'
  <2>1. stream.variant + 1 \in 1 .. Variants + 1
    BY <1>2
  <2> QED
    BY <1>1, <1>2, <2>1 DEF StreamType, Todos, Runs
<1>5. ProcessInv' /\ NothingAdded'
  BY <1>1, <1>2, <1>3 DEF ProcessInv, NothingAdded, OnTheWay
<1>6. NothingLost'
  <2>1. SUFFICES ASSUME Fine PROVE SilentBefore(stream.variant + 1)
    BY <1>1, <1>3 DEF NothingLost, Fine, SilentBefore
  <2>2. OnTheWay = source.left
    BY <1>1, <1>2 DEF OnTheWay
  <2>3. SilentBefore(stream.variant) /\ offers[stream.variant] = 0
    BY <1>1, <1>2, <2>1, <2>2 DEF NothingLost
  <2> QED
    BY <1>2, <2>3 DEF SilentBefore
<1> QED
  BY <1>1, <1>3, <1>4, <1>5, <1>6 DEF WholeTrack, NothingLeftBehind

LEMMA StartEncoderStep ==
  ASSUME StreamInv, OthersType, StartEncoder
  PROVE  StreamInv'
<1> USE Numbers DEF StreamInv
<1>0. /\ stream.todo = "encode" /\ UNCHANGED <<node, source, offers, bot>>
      /\ encoder = [run |-> "none", feeder |-> "none", inbox |-> 0, outbox |-> 0]
      /\ source.run \in {"up", "over"} /\ stream.variant \in 1 .. Variants
  <2>1. stream.todo = "encode" /\ UNCHANGED <<node, source, offers, bot>>
    BY DEF StartEncoder, At, Streaming
  <2>2. /\ encoder = [run |-> "none", feeder |-> "none", inbox |-> 0, outbox |-> 0]
        /\ source.run \in {"up", "over"} /\ stream.variant <= Variants
    BY <2>1 DEF ProcessInv
  <2> QED
    BY <2>1, <2>2, StreamFields
<1>1. ASSUME encoder' = [encoder EXCEPT !.run = "up", !.feeder = "reading"],
             stream' = [stream EXCEPT !.todo = "copy"], faults' = faults
      PROVE  StreamInv'
  <2>1. /\ stream'.todo = "copy" /\ stream'.variant = stream.variant
        /\ stream'.sent = stream.sent
        /\ encoder' = [run |-> "up", feeder |-> "reading", inbox |-> 0, outbox |-> 0]
    BY <1>0, <1>1 DEF StreamType
  <2>2. StreamType'
    BY <1>0, <1>1, <2>1 DEF StreamType, Todos, Runs, Feeders
  <2>3. ProcessInv' /\ OnTheWay' = OnTheWay
    BY <1>0, <2>1 DEF ProcessInv, OnTheWay
  <2>4. NothingAdded'
    BY <2>1, <2>3 DEF NothingAdded
  <2>5. NothingLost'
    <3>1. SUFFICES ASSUME Fine, Alive PROVE NothingLost'
      BY <1>0, <1>1 DEF NothingLost, Fine, Alive
    <3>2. /\ SilentBefore(stream.variant) /\ source.pipe > 0
          /\ OnTheWay + stream.sent = offers[stream.variant]
          /\ source.run = "over" => source.left = 0
      BY <1>0, <3>1 DEF NothingLost
    <3>3. offers[stream.variant] > 0
      BY <1>0, <3>2, StreamFields DEF OnTheWay, NothingAdded
    <3> QED
      BY <1>0, <2>1, <2>3, <3>2, <3>3 DEF NothingLost, SilentBefore
  <2> QED
    BY <1>0, <2>1, <2>2, <2>3, <2>4, <2>5 DEF WholeTrack, NothingLeftBehind
<1>2. ASSUME stream' = [stream EXCEPT !.todo = "close", !.status = "no encoder"],
             encoder' = encoder, ~Fine'
      PROVE  StreamInv'
  <2>1. StreamType' /\ stream'.todo = "close" /\ stream'.sent = stream.sent
        /\ stream'.variant = stream.variant
    BY <1>0, <1>2 DEF StreamType, Todos
  <2>2. ProcessInv' /\ NothingAdded'
    BY <1>0, <1>2, <2>1 DEF ProcessInv, NothingAdded, OnTheWay
  <2> QED
    BY <1>0, <1>2, <2>1, <2>2 DEF NothingLost, WholeTrack, NothingLeftBehind
<1> QED
  BY <1>0, <1>1, <1>2, FaultFacts DEF StartEncoder, Goto, Fine, Cancelled

LEMMA CopyStep ==
  ASSUME StreamInv, OthersType, Copy
  PROVE  StreamInv'
<1> USE Numbers DEF StreamInv
<1>0. /\ stream.todo = "copy" /\ Alive /\ UNCHANGED <<node, source, offers, bot, faults>>
      /\ source.run \in {"up", "over"} /\ encoder.run \in {"up", "over"}
      /\ encoder.feeder # "none"
  BY DEF Copy, At, Streaming, ProcessInv
<1>1. ASSUME encoder.outbox > 0, encoder' = [encoder EXCEPT !.outbox = @ - 1],
             stream' = [stream EXCEPT !.sent = @ + 1]
      PROVE  StreamInv'
  <2>1. encoder.outbox - 1 \in 0 .. Capacity /\ stream.sent + 1 \in 0 .. Chunks
    BY <1>1, StreamFields DEF NothingAdded, OnTheWay
  <2>2. StreamType'
    BY <1>0, <1>1, <2>1 DEF StreamType, Todos, Runs, Feeders
  <2>3. stream'.todo = "copy" /\ stream'.variant = stream.variant
        /\ stream'.sent = stream.sent + 1
    BY <1>0, <1>1 DEF StreamType
  <2>4. /\ encoder'.run = encoder.run /\ encoder'.feeder = encoder.feeder
        /\ encoder'.inbox = encoder.inbox /\ encoder'.outbox = encoder.outbox - 1
    BY <1>1 DEF StreamType
  <2>5. ProcessInv'
    BY <1>0, <2>3, <2>4 DEF ProcessInv
  <2>6. (OnTheWay + stream.sent)' = OnTheWay + stream.sent
    BY <1>0, <2>3, <2>4, StreamFields DEF OnTheWay
  <2>7. NothingAdded'
    BY <2>3, <2>6 DEF NothingAdded
  <2>8. NothingLost'
    BY <1>0, <2>3, <2>4, <2>6 DEF NothingLost, Fine, Alive, SilentBefore
  <2> QED
    BY <1>0, <2>2, <2>3, <2>5, <2>7, <2>8 DEF WholeTrack, NothingLeftBehind
<1>2. ASSUME stream' = [stream EXCEPT !.todo = "wait"], encoder' = encoder,
             Fine => encoder.outbox = 0 /\ encoder.run = "over"
      PROVE  StreamInv'
  <2>1. StreamType'
    BY <1>0, <1>2 DEF StreamType, Todos
  <2>2. stream'.todo = "wait" /\ stream'.variant = stream.variant /\ stream'.sent = stream.sent
    BY <1>2 DEF StreamType
  <2>3. ProcessInv' /\ NothingAdded'
    BY <1>0, <1>2, <2>2 DEF ProcessInv, NothingAdded, OnTheWay
  <2>4. NothingLost'
    BY <1>0, <1>2, <2>2 DEF NothingLost, Fine, Alive, SilentBefore, OnTheWay
  <2> QED
    BY <1>0, <2>1, <2>2, <2>3, <2>4 DEF WholeTrack, NothingLeftBehind
<1>3. node = "off" <=> FALSE
  BY <1>0
<1> QED
  BY <1>0, <1>1, <1>2, <1>3 DEF Copy, Goto, Fine

\* Everything before ffmpeg has ended by now, in turn.
LEMMA WaitEncoderStep ==
  ASSUME StreamInv, OthersType, WaitEncoder
  PROVE  StreamInv'
<1> USE Numbers DEF StreamInv
<1>0. /\ stream.todo = "wait" /\ Alive /\ UNCHANGED <<node, source, offers, bot, faults>>
      /\ encoder.run = "over" /\ encoder.feeder = "done"
      /\ encoder' = [encoder EXCEPT !.run = "reaped", !.outbox = 0]
      /\ stream' = [stream EXCEPT !.todo = "close", !.status = "ended"]
  BY DEF WaitEncoder, At, Streaming
<1>1. StreamType'
  <2>1. 0 \in 0 .. Capacity
    OBVIOUS
  <2> QED
    BY <1>0, <2>1 DEF StreamType, Todos, Runs
<1>2. stream'.todo = "close" /\ stream'.variant = stream.variant /\ stream'.sent = stream.sent
  BY <1>0 DEF StreamType
<1>3. /\ encoder'.run = "reaped" /\ encoder'.feeder = "done"
      /\ encoder'.inbox = encoder.inbox /\ encoder'.outbox = 0
  BY <1>0 DEF StreamType
<1>4. ProcessInv'
  BY <1>0, <1>2, <1>3 DEF ProcessInv
<1>5. NothingAdded'
  BY <1>0, <1>2, <1>3, StreamFields DEF NothingAdded, OnTheWay
<1>6. NothingLost'
  <2>1. SUFFICES ASSUME Fine PROVE NothingLost'
    BY <1>0 DEF NothingLost, Fine
  <2>2. /\ OnTheWay = 0
        /\ OnTheWay + stream.sent = offers[stream.variant]
        /\ offers[stream.variant] > 0 /\ SilentBefore(stream.variant)
    <3>1. /\ source.run = "over" /\ source.left = 0 /\ source.pipe = 0
          /\ encoder.inbox = 0 /\ encoder.outbox = 0
      BY <1>0, <2>1 DEF NothingLost
    <3>2. OnTheWay = 0
      BY <1>0, <3>1 DEF OnTheWay
    <3> QED
      BY <1>0, <2>1, <3>2 DEF NothingLost
  <2>3. stream.sent = offers[stream.variant]
    BY <2>2, StreamFields
  <2> QED
    BY <1>0, <1>2, <2>2, <2>3 DEF NothingLost, SilentBefore
<1> QED
  BY <1>0, <1>1, <1>2, <1>4, <1>5, <1>6 DEF WholeTrack, NothingLeftBehind

\* The variant that was heard is the first one with audio.
LEMMA CloseSourceStep ==
  ASSUME StreamInv, OthersType, CloseSource
  PROVE  StreamInv'
<1> USE Numbers DEF StreamInv
<1>0. /\ stream.todo = "close" /\ Alive /\ UNCHANGED <<node, encoder, offers, bot, faults>>
      /\ source' = [source EXCEPT !.run = "reaped", !.pipe = 0]
      /\ stream' = [stream EXCEPT !.todo = "done"]
      /\ encoder.run \in {"none", "reaped"} /\ encoder.feeder \in {"none", "done"}
      /\ stream.variant <= Variants
  BY DEF CloseSource, At, Goto, Streaming, ProcessInv
<1>1. StreamType'
  <2>1. 0 \in 0 .. Capacity
    OBVIOUS
  <2> QED
    BY <1>0, <2>1 DEF StreamType, Todos, Runs
<1>2. stream'.todo = "done" /\ stream'.sent = stream.sent
  BY <1>0 DEF StreamType
<1>3. source'.run = "reaped" /\ source'.left = source.left /\ source'.pipe = 0
  BY <1>0 DEF StreamType
<1>4. ProcessInv' /\ NothingLeftBehind'
  BY <1>0, <1>2, <1>3 DEF ProcessInv, NothingLeftBehind
<1>5. NothingAdded'
  BY <1>0, <1>2, <1>3, StreamFields DEF NothingAdded, OnTheWay
<1>6. WholeTrack'
  <2>1. SUFFICES ASSUME Fine
                 PROVE  Audible # {} /\ stream.sent = offers[First]
    BY <1>0, <1>2 DEF WholeTrack, Fine, Audible, First
  <2>2. /\ SilentBefore(stream.variant) /\ offers[stream.variant] > 0
        /\ stream.sent = offers[stream.variant]
    BY <1>0, <2>1 DEF NothingLost
  <2>3. stream.variant \in Audible
    BY <1>0, <2>2, StreamFields DEF Audible
  <2>4. \A w \in Audible : stream.variant <= w
    BY <2>2, StreamFields DEF SilentBefore, Audible
  <2>5. First \in Audible /\ \A w \in Audible : First <= w
    BY <2>3, <2>4 DEF First
  <2>6. First = stream.variant
    BY <2>3, <2>4, <2>5, StreamFields DEF Audible
  <2> QED
    BY <2>2, <2>3, <2>6
<1> QED
  BY <1>0, <1>1, <1>2, <1>4, <1>5, <1>6 DEF NothingLost

-----------------------------------------------------------------------------
(* Around the handler.                                                     *)

\* A step that leaves the handler where it is and moves chunks or ends a
\* process keeps the invariant, if ends only follow ends.
LEMMA FlowStep ==
  ASSUME StreamInv, UNCHANGED <<stream, node, offers, bot>>, StreamType',
         stream.todo \in {"peek", "encode", "copy", "wait", "close"},
         \* what may start or end
         source'.run = source.run \/ (source.run = "up" /\ source'.run = "over"),
         encoder'.run = encoder.run \/ (encoder.run = "up" /\ encoder'.run = "over"),
         encoder'.feeder = encoder.feeder
           \/ (encoder.feeder \in {"reading", "writing"} /\ encoder'.feeder # "none"),
         stream.todo \in {"peek", "encode"} => encoder' = encoder,
         \* what is on its way
         OnTheWay' <= OnTheWay,
         Fine' /\ Alive =>
           /\ Fine
           /\ OnTheWay' = OnTheWay
           /\ source'.run = "over" => source'.left = 0
           /\ stream.todo = "encode" => source'.pipe > 0
           /\ encoder'.feeder = "done" /\ stream.todo \in {"copy", "wait"} =>
                source'.run = "over" /\ source'.pipe = 0
           /\ encoder'.run = "over" /\ stream.todo \in {"copy", "wait"} =>
                encoder'.feeder = "done" /\ encoder'.inbox = 0
           /\ stream.todo = "wait" => encoder'.outbox = 0
  PROVE  StreamInv'
<1> USE Numbers DEF StreamInv
<1>1. ProcessInv'
  <2>1. CASE stream.todo \in {"peek", "encode"}
    BY <2>1 DEF ProcessInv
  <2>2. CASE stream.todo \in {"copy", "wait"}
    BY <2>2 DEF ProcessInv
  <2>3. CASE stream.todo = "close"
    BY <2>3 DEF ProcessInv
  <2> QED
    BY <2>1, <2>2, <2>3
<1>2. OnTheWay \in Nat /\ OnTheWay' \in Nat /\ stream.sent \in Nat
  <2>1. StreamType
    OBVIOUS
  <2>2. OnTheWay \in Nat /\ stream.sent \in Nat
    BY <2>1, StreamFields DEF OnTheWay
  <2>3. /\ source'.left \in 0 .. Chunks /\ source'.pipe \in 0 .. Capacity
        /\ encoder'.inbox \in 0 .. Capacity /\ encoder'.outbox \in 0 .. Capacity
    BY DEF StreamType
  <2>4. OnTheWay' \in Nat
    BY <2>3 DEF OnTheWay
  <2> QED
    BY <2>2, <2>4
<1>3. NothingAdded'
  BY <1>2 DEF NothingAdded
<1>4. NothingLost'
  <2>1. SUFFICES ASSUME Fine', Alive PROVE NothingLost'
    BY DEF NothingLost, Alive
  <2>2. CASE stream.todo = "peek"
    BY <2>1, <2>2 DEF NothingLost, SilentBefore
  <2>3. CASE stream.todo = "encode"
    BY <2>1, <2>3 DEF NothingLost, SilentBefore
  <2>4. CASE stream.todo \in {"copy", "wait"}
    BY <2>1, <2>4 DEF NothingLost, SilentBefore
  <2>5. CASE stream.todo = "close"
    BY <2>1, <2>5 DEF NothingLost, SilentBefore
  <2> QED
    BY <2>2, <2>3, <2>4, <2>5
<1> QED
  BY <1>1, <1>3, <1>4 DEF WholeTrack, NothingLeftBehind

LEMMA FeedStep ==
  ASSUME StreamInv, Feed
  PROVE  StreamInv'
<1> USE Numbers
<1>0. /\ StreamType /\ stream.todo \in {"copy", "wait"} /\ Alive
      /\ UNCHANGED <<stream, node, offers, bot, faults>>
      /\ source.run \in {"up", "over"}
      /\ Fine => /\ encoder.feeder = "done" => source.run = "over" /\ source.pipe = 0
                 /\ encoder.run = "over" => encoder.feeder = "done" /\ encoder.inbox = 0
                 /\ source.run = "over" => source.left = 0
                 /\ stream.todo = "wait" => encoder.outbox = 0 /\ encoder.run = "over"
  <2>1. encoder.feeder \in {"reading", "writing"} /\ Alive
    BY DEF Feed
  <2>2. stream.todo \in {"copy", "wait"} /\ StreamType
    <3>1. StreamType /\ ProcessInv /\ NothingLeftBehind
      BY DEF StreamInv
    <3>2. stream.todo \in Todos
      BY <3>1 DEF StreamType
    <3>3. stream.todo \notin {"none", "open", "peek", "encode"}
      BY <2>1, <3>1 DEF ProcessInv
    <3>4. stream.todo \notin {"close", "done"}
      BY <2>1, <3>1 DEF ProcessInv, NothingLeftBehind
    <3> QED
      BY <3>1, <3>2, <3>3, <3>4 DEF Todos
  <2>3. UNCHANGED <<stream, node, offers, bot, faults>> /\ source.run \in {"up", "over"}
    BY <2>2 DEF Feed, Streaming, StreamInv, ProcessInv
  <2> QED
    BY <2>1, <2>2, <2>3 DEF StreamInv, NothingLost
<1>f. Fine' => Fine
  BY <1>0 DEF Fine
\* It reads a chunk.
<1>1. ASSUME encoder.feeder = "reading", source.pipe > 0,
             source' = [source EXCEPT !.pipe = @ - 1],
             encoder' = [encoder EXCEPT !.feeder = "writing"]
      PROVE  StreamInv'
  <2>1. source.pipe - 1 \in 0 .. Capacity
    BY <1>0, <1>1, StreamFields
  <2>2. StreamType'
    BY <1>0, <1>1, <2>1 DEF StreamType, Feeders
  <2>3. /\ source'.run = source.run /\ source'.left = source.left
        /\ source'.pipe = source.pipe - 1
        /\ encoder'.run = encoder.run /\ encoder'.feeder = "writing"
        /\ encoder'.inbox = encoder.inbox /\ encoder'.outbox = encoder.outbox
    BY <1>0, <1>1 DEF StreamType
  <2>4. OnTheWay' = OnTheWay /\ OnTheWay \in Nat
    BY <1>0, <1>1, <2>3, StreamFields DEF OnTheWay
  <2> QED
    BY <1>0, <1>f, <1>1, <2>2, <2>3, <2>4, FlowStep
\* yt-dlp is over and its pipe is empty.
<1>2. ASSUME encoder.feeder = "reading", source.pipe = 0, source.run = "over",
             encoder' = [encoder EXCEPT !.feeder = "done"], source' = source
      PROVE  StreamInv'
  <2>1. StreamType'
    BY <1>0, <1>2 DEF StreamType, Feeders
  <2>2. /\ encoder'.run = encoder.run /\ encoder'.feeder = "done"
        /\ encoder'.inbox = encoder.inbox /\ encoder'.outbox = encoder.outbox
    BY <1>0, <1>2 DEF StreamType
  <2>3. OnTheWay' = OnTheWay /\ OnTheWay \in Nat
    BY <1>0, <1>2, <2>2, StreamFields DEF OnTheWay
  <2> QED
    BY <1>0, <1>f, <1>2, <2>1, <2>2, <2>3, FlowStep
\* It writes a chunk.
<1>3. ASSUME encoder.feeder = "writing", encoder.run = "up", encoder.inbox < Capacity,
             encoder' = [encoder EXCEPT !.feeder = "reading", !.inbox = @ + 1],
             source' = source
      PROVE  StreamInv'
  <2>1. encoder.inbox + 1 \in 0 .. Capacity
    BY <1>0, <1>3, StreamFields
  <2>2. StreamType'
    BY <1>0, <1>3, <2>1 DEF StreamType, Feeders
  <2>3. /\ encoder'.run = "up" /\ encoder'.feeder = "reading"
        /\ encoder'.inbox = encoder.inbox + 1 /\ encoder'.outbox = encoder.outbox
    BY <1>0, <1>3 DEF StreamType
  <2>4. OnTheWay' = OnTheWay /\ OnTheWay \in Nat
    BY <1>0, <1>3, <2>3, StreamFields DEF OnTheWay
  <2> QED
    BY <1>0, <1>f, <1>3, <2>2, <2>3, <2>4, FlowStep
\* ffmpeg is over: something has gone wrong.
<1>4. ASSUME encoder.feeder = "writing", encoder.run = "over",
             encoder' = [encoder EXCEPT !.feeder = "done"], source' = source
      PROVE  StreamInv'
  <2>1. StreamType'
    BY <1>0, <1>4 DEF StreamType, Feeders
  <2>2. /\ encoder'.run = encoder.run /\ encoder'.feeder = "done"
        /\ encoder'.inbox = encoder.inbox /\ encoder'.outbox = encoder.outbox
    BY <1>0, <1>4 DEF StreamType
  <2>3. OnTheWay' <= OnTheWay
    BY <1>0, <1>4, <2>2, StreamFields DEF OnTheWay
  <2>4. ~Fine
    BY <1>0, <1>4
  <2> QED
    BY <1>0, <1>f, <1>4, <2>1, <2>2, <2>3, <2>4, FlowStep
<1> QED
  BY <1>0, <1>1, <1>2, <1>3, <1>4 DEF Feed

\* A process that runs has a handler that is not done with it.
LEMMA RunsInside ==
  ASSUME StreamInv
  PROVE  /\ source.run = "up" => stream.todo \in {"peek", "encode", "copy", "wait", "close"}
         /\ encoder.run = "up" => stream.todo \in {"copy", "wait"}
<1>1. StreamType /\ ProcessInv /\ NothingLeftBehind
  BY DEF StreamInv
<1>2. stream.todo \in Todos
  BY <1>1 DEF StreamType
<1>3. source.run = "up" => stream.todo \notin {"none", "open", "done"}
  BY <1>1 DEF ProcessInv, NothingLeftBehind
<1>4. encoder.run = "up" =>
        stream.todo \notin {"none", "open", "peek", "encode", "close", "done"}
  BY <1>1 DEF ProcessInv, NothingLeftBehind
<1> QED
  BY <1>2, <1>3, <1>4 DEF Todos

LEMMA SourceRunsStep ==
  ASSUME StreamInv, SourceRuns
  PROVE  StreamInv'
<1> USE Numbers
<1>0. /\ StreamType /\ source.run = "up"
      /\ stream.todo \in {"peek", "encode", "copy", "wait", "close"}
      /\ UNCHANGED <<stream, node, encoder, offers, bot, faults>>
  BY RunsInside DEF SourceRuns, Streaming, StreamInv
<1>f. /\ Fine' => Fine
      /\ Fine /\ Alive =>
           /\ stream.todo = "encode" => source.pipe > 0
           /\ stream.todo \in {"copy", "wait"} => encoder.feeder # "done"
           /\ encoder.run = "over" /\ stream.todo \in {"copy", "wait"} => encoder.feeder = "done"
           /\ stream.todo = "wait" => encoder.run = "over"
  BY <1>0 DEF Fine, StreamInv, NothingLost
<1>1. ASSUME source.left > 0, source.pipe < Capacity,
             source' = [source EXCEPT !.left = @ - 1, !.pipe = @ + 1]
      PROVE  StreamInv'
  <2>1. source.left - 1 \in 0 .. Chunks /\ source.pipe + 1 \in 0 .. Capacity
    BY <1>0, <1>1, StreamFields
  <2>2. StreamType'
    BY <1>0, <1>1, <2>1 DEF StreamType
  <2>3. /\ source'.run = "up" /\ source'.left = source.left - 1
        /\ source'.pipe = source.pipe + 1
    BY <1>0, <1>1 DEF StreamType
  <2>4. OnTheWay' = OnTheWay /\ OnTheWay \in Nat
    BY <1>0, <2>3, StreamFields DEF OnTheWay
  <2>5. source.pipe + 1 > 0
    BY <1>0, StreamFields
  <2> QED
    BY <1>0, <1>f, <2>2, <2>3, <2>4, <2>5, FlowStep
<1>2. ASSUME source' = [source EXCEPT !.run = "over"], Alive => source.left = 0
      PROVE  StreamInv'
  <2>1. StreamType'
    BY <1>0, <1>2 DEF StreamType, Runs
  <2>2. source'.run = "over" /\ source'.left = source.left /\ source'.pipe = source.pipe
    BY <1>0, <1>2 DEF StreamType
  <2>3. OnTheWay' = OnTheWay /\ OnTheWay \in Nat
    BY <1>0, <2>2, StreamFields DEF OnTheWay
  <2> QED
    BY <1>0, <1>f, <1>2, <2>1, <2>2, <2>3, FlowStep
<1> QED
  BY <1>0, <1>1, <1>2 DEF SourceRuns

LEMMA EncoderRunsStep ==
  ASSUME StreamInv, EncoderRuns
  PROVE  StreamInv'
<1> USE Numbers
<1>0. /\ StreamType /\ encoder.run = "up" /\ stream.todo \in {"copy", "wait"}
      /\ UNCHANGED <<stream, node, source, offers, bot, faults>>
  BY RunsInside DEF EncoderRuns, Streaming, StreamInv
<1>f. /\ Fine' => Fine
      /\ Fine /\ Alive =>
           /\ stream.todo # "wait"
           /\ source.run = "over" => source.left = 0
           /\ encoder.feeder = "done" => source.run = "over" /\ source.pipe = 0
  BY <1>0 DEF Fine, StreamInv, NothingLost
<1>1. ASSUME encoder.inbox > 0, encoder.outbox < Capacity,
             encoder' = [encoder EXCEPT !.inbox = @ - 1, !.outbox = @ + 1]
      PROVE  StreamInv'
  <2>1. encoder.inbox - 1 \in 0 .. Capacity /\ encoder.outbox + 1 \in 0 .. Capacity
    BY <1>0, <1>1, StreamFields
  <2>2. StreamType'
    BY <1>0, <1>1, <2>1 DEF StreamType
  <2>3. /\ encoder'.run = "up" /\ encoder'.feeder = encoder.feeder
        /\ encoder'.inbox = encoder.inbox - 1 /\ encoder'.outbox = encoder.outbox + 1
    BY <1>0, <1>1 DEF StreamType
  <2>4. OnTheWay' = OnTheWay /\ OnTheWay \in Nat
    <3>1. source' = source /\ StreamType
      BY <1>0
    <3>2. OnTheWay \in Nat
      BY <3>1, StreamFields DEF OnTheWay
    <3>3. /\ encoder.inbox \in Nat /\ encoder.outbox \in Nat
          /\ source.left \in Nat /\ source.pipe \in Nat
      BY <3>1, StreamFields
    <3> QED
      BY <2>3, <3>1, <3>2, <3>3 DEF OnTheWay
  <2> QED
    BY <1>0, <1>f, <2>2, <2>3, <2>4, FlowStep
<1>2. ASSUME encoder' = [encoder EXCEPT !.run = "over"],
             Alive => encoder.inbox = 0 /\ encoder.feeder = "done"
      PROVE  StreamInv'
  <2>1. StreamType'
    BY <1>0, <1>2 DEF StreamType, Runs
  <2>2. /\ encoder'.run = "over" /\ encoder'.feeder = encoder.feeder
        /\ encoder'.inbox = encoder.inbox /\ encoder'.outbox = encoder.outbox
    BY <1>0, <1>2 DEF StreamType
  <2>3. OnTheWay' = OnTheWay /\ OnTheWay \in Nat
    BY <1>0, <2>2, StreamFields DEF OnTheWay
  <2> QED
    BY <1>0, <1>f, <1>2, <2>1, <2>2, <2>3, FlowStep
<1> QED
  BY <1>0, <1>1, <1>2 DEF EncoderRuns

\* A failure or a kill ends one of the processes; not everything is fine then.
LEMMA EndsStep ==
  ASSUME StreamInv, OthersType, Break \/ KillSource \/ KillEncoder
  PROVE  StreamInv'
<1> USE Numbers
<1>0. /\ StreamType /\ UNCHANGED <<stream, node, offers, bot>>
      /\ ~Fine'
  BY FaultFacts DEF Break, KillSource, KillEncoder, Streaming, StreamInv, Fine, Cancelled
<1>1. ASSUME source.run = "up", source' = [source EXCEPT !.run = "over"], encoder' = encoder
      PROVE  StreamInv'
  <2>1. StreamType'
    BY <1>0, <1>1 DEF StreamType, Runs
  <2>2. source'.run = "over" /\ source'.left = source.left /\ source'.pipe = source.pipe
    BY <1>0, <1>1 DEF StreamType
  <2>3. OnTheWay' = OnTheWay /\ OnTheWay \in Nat
    <3>1. StreamType
      BY <1>0
    <3> QED
      BY <1>1, <2>2, <3>1, StreamFields DEF OnTheWay
  <2> QED
    BY <1>0, <1>1, <2>1, <2>2, <2>3, RunsInside, FlowStep
<1>2. ASSUME encoder.run = "up", encoder' = [encoder EXCEPT !.run = "over"], source' = source
      PROVE  StreamInv'
  <2>1. StreamType'
    BY <1>0, <1>2 DEF StreamType, Runs
  <2>2. /\ encoder'.run = "over" /\ encoder'.feeder = encoder.feeder
        /\ encoder'.inbox = encoder.inbox /\ encoder'.outbox = encoder.outbox
        /\ source' = source
    BY <1>0, <1>2 DEF StreamType
  <2>3. OnTheWay' = OnTheWay /\ OnTheWay \in Nat
    <3>1. StreamType
      BY <1>0
    <3> QED
      BY <2>2, <3>1, StreamFields DEF OnTheWay
  <2> QED
    BY <1>0, <1>2, <2>1, <2>2, <2>3, RunsInside, FlowStep
<1> QED
  BY <1>1, <1>2 DEF Break, KillSource, KillEncoder

\* The node and the bot go their ways: what was fine need not be any more.
LEMMA AroundStep ==
  ASSUME StreamInv, HangUp \/ Cancel \/ Shutdown
  PROVE  StreamInv'
<1> USE DEF StreamInv
<1>1. UNCHANGED <<stream, source, encoder, offers, faults>>
  BY DEF HangUp, Cancel, Shutdown, Streaming
<1>2. /\ node' \in {"off", "on", "gone", "cancelled"}
      /\ node' = "off" <=> node = "off"
      /\ node' \in {"off", "on"} => node' = node
      /\ Alive' => Alive
  BY DEF HangUp, Cancel, Shutdown, Streaming, StreamType, CloseProxy, EndProcess, Alive
<1>3. StreamType'
  BY <1>1, <1>2 DEF StreamType
<1>4. ProcessInv' /\ NothingAdded' /\ NothingLeftBehind'
  BY <1>1 DEF ProcessInv, NothingAdded, NothingLeftBehind, OnTheWay
<1>5. NothingLost'
  BY <1>1, <1>2 DEF NothingLost, Fine, OnTheWay, SilentBefore
<1>6. WholeTrack'
  BY <1>1, <1>2 DEF WholeTrack, First, Audible
<1> QED
  BY <1>1, <1>2, <1>3, <1>4, <1>5, <1>6

-----------------------------------------------------------------------------
(* The theorems.                                                           *)

LEMMA OthersStep ==
  ASSUME OthersType, [Next]_vars
  PROVE  OthersType'
<1>1. bot' \in {"up", "closing", "gone"}
  <2>1. bot' = bot \/ CloseProxy \/ EndProcess
    BY DEF Next, Lookup, LookupWrites, LookupExpires, StartLookup, LookupFails, CopyErr,
           CopyOut, EndLookup, Looking, Ask, Handler, StartSource, NoAudio, HasAudio, Discard,
           StartEncoder, Copy, WaitEncoder, CloseSource, Feed, SourceRuns, EncoderRuns, Break,
           HangUp, Cancel, KillSource, KillEncoder, Streaming, Shutdown, Rest, vars
  <2> QED
    BY <2>1 DEF OthersType, CloseProxy, EndProcess
<1>2. faults' = faults \/ Fault
  BY DEF Next, Lookup, LookupWrites, LookupExpires, StartLookup, LookupFails, CopyErr,
         CopyOut, EndLookup, Looking, Ask, Handler, StartSource, NoAudio, HasAudio, Discard,
         StartEncoder, Copy, WaitEncoder, CloseSource, Feed, SourceRuns, EncoderRuns, Break,
         HangUp, Cancel, KillSource, KillEncoder, Streaming, Shutdown, Rest, vars
<1> QED
  BY <1>1, <1>2, FaultFacts DEF OthersType

LEMMA SameStream ==
  ASSUME StreamInv, UNCHANGED <<stream, node, source, encoder, offers, bot>>,
         faults' = 0 => faults = 0
  PROVE  StreamInv'
<1> USE DEF StreamInv
<1>1. StreamType' /\ ProcessInv' /\ NothingAdded' /\ NothingLeftBehind'
  BY DEF StreamType, ProcessInv, NothingAdded, OnTheWay, NothingLeftBehind
<1>2. NothingLost'
  BY DEF NothingLost, Fine, Alive, SilentBefore, OnTheWay
<1>3. WholeTrack'
  BY DEF WholeTrack, First, Audible
<1> QED
  BY <1>1, <1>2, <1>3

\* The lookup leaves the stream alone, but may fail.
LEMMA LookupKeepsStream ==
  ASSUME StreamInv, OthersType, Lookup \/ LookupWrites \/ LookupExpires
  PROVE  StreamInv'
<1>1. UNCHANGED <<stream, node, source, encoder, offers, bot>>
  BY DEF Lookup, LookupWrites, LookupExpires, StartLookup, LookupFails, CopyErr, CopyOut,
         EndLookup, Looking
<1>2. faults' = 0 => faults = 0
  <2>1. faults' = faults \/ Fault
    BY DEF Lookup, LookupWrites, LookupExpires, StartLookup, LookupFails, CopyErr, CopyOut,
           EndLookup, Looking
  <2> QED
    BY <2>1, FaultFacts
<1> QED
  BY <1>1, <1>2, SameStream

LEMMA StreamKeepsLookup ==
  ASSUME LookupType, LookupInv, UNCHANGED <<lookup, copiers>>
  PROVE  LookupType' /\ LookupInv'
BY DEF LookupType, LookupInv

LEMMA InitIInv == Init => IInv
<1> SUFFICES ASSUME Init PROVE IInv
  OBVIOUS
<1> USE Numbers DEF Init
<1>1. 0 \in 0 .. Chunks /\ 0 \in 0 .. Capacity /\ 1 \in 1 .. Clients + 1
      /\ 1 \in 1 .. Variants + 1 /\ 0 \in 0 .. MaxFaults
  OBVIOUS
<1>2. LookupType
  BY <1>1 DEF LookupType, Runs
<1>3. LookupInv
  BY DEF LookupInv
<1>4. StreamType
  BY <1>1 DEF StreamType, Runs, Todos, Feeders
<1>5. OthersType
  BY <1>1 DEF OthersType
<1>6. ProcessInv /\ NothingAdded
  BY DEF ProcessInv, NothingAdded, OnTheWay
<1>7. NothingLost /\ WholeTrack /\ NothingLeftBehind
  BY DEF NothingLost, SilentBefore, WholeTrack, NothingLeftBehind
<1> QED
  BY <1>2, <1>3, <1>4, <1>5, <1>6, <1>7, InvParts DEF StreamInv

LEMMA StepIInv == IInv /\ [Next]_vars => IInv'
<1> SUFFICES ASSUME IInv, [Next]_vars PROVE IInv'
  OBVIOUS
<1>0. LookupType /\ LookupInv /\ StreamInv /\ OthersType
  BY InvParts
<1>1. CASE Lookup \/ LookupWrites \/ LookupExpires
  BY <1>0, <1>1, LookupStep, LookupKeepsStream, OthersStep, InvPartsNext
<1>2. CASE Ask \/ Handler \/ Feed \/ SourceRuns \/ EncoderRuns \/ Break
             \/ HangUp \/ Cancel \/ KillSource \/ KillEncoder \/ Shutdown
  <2>1. UNCHANGED <<lookup, copiers>>
    BY <1>2 DEF Ask, Handler, StartSource, NoAudio, HasAudio, Discard, StartEncoder, Copy,
         WaitEncoder, CloseSource, Feed, SourceRuns, EncoderRuns, Break, HangUp, Cancel,
         KillSource, KillEncoder, Streaming, Shutdown
  <2>2. StreamInv'
    BY <1>0, <1>2, AskStep, StartSourceStep, NoAudioStep, HasAudioStep, DiscardStep,
       StartEncoderStep, CopyStep, WaitEncoderStep, CloseSourceStep, FeedStep,
       SourceRunsStep, EncoderRunsStep, EndsStep, AroundStep DEF Handler
  <2> QED
    BY <1>0, <2>1, <2>2, StreamKeepsLookup, OthersStep, InvPartsNext
<1>3. CASE Rest \/ UNCHANGED vars
  <2>1. UNCHANGED vars
    BY <1>3 DEF Rest
  <2> QED
    BY <1>0, <2>1, SameStream, StreamKeepsLookup, OthersStep, InvPartsNext DEF vars
<1> QED
  BY <1>1, <1>2, <1>3 DEF Next

LEMMA Invariant == Spec => []IInv
BY InitIInv, StepIInv, PTL DEF Spec

\* No variable leaves its type, no pipe overflows, and nobody reads the pipe
\* of a process that was waited for.
THEOREM TypeCorrect == Spec => []TypeOK
<1>1. IInv => TypeOK
  BY DEF IInv
<1> QED
  BY <1>1, Invariant, PTL

\* Where no process fails and the node stays, it hears the whole of the first
\* variant with audio, or is told that there is none.
THEOREM WholeTrackHeard == Spec => []WholeTrack
<1>1. IInv => WholeTrack
  BY DEF IInv
<1> QED
  BY <1>1, Invariant, PTL

\* Whatever fails, hangs up or is cancelled, a handler that has returned has
\* waited for its processes.
THEOREM NoProcessStays == Spec => []NothingLeftBehind
<1>1. IInv => NothingLeftBehind
  BY DEF IInv
<1> QED
  BY <1>1, Invariant, PTL

=============================================================================
