---------------------------- MODULE TrackStream -----------------------------
(***************************************************************************)
(* The processes behind one track: the yt-dlp run that looks it up         *)
(* (Resolver.Resolve and resolveMetadata, captureYTDLPOutput) and, when    *)
(* the node asks the stream proxy for it, the pipeline                     *)
(*                                                                         *)
(*   yt-dlp -> pipe -> feeder goroutine -> pipe -> ffmpeg -> pipe -> node  *)
(*                                                                         *)
(* (StreamProxy.handleStream and YTDLP.OpenAudioStream, in internal/music).*)
(* A pipe holds Capacity chunks: who writes into a full one, or reads from *)
(* an empty one whose writer lives, waits.  A chunk is any amount of data. *)
(* Tracks share nothing but the map of sources, so one track is enough.    *)
(***************************************************************************)
EXTENDS Naturals

CONSTANTS
  Clients,    \* number of youtubeMetadataClients
  Variants,   \* number of streamArgVariants
  Chunks,     \* bound on the chunks of a variant's audio
  Capacity,   \* capacity of a pipe
  MaxFaults   \* bound on processes that fail to start or to finish

ASSUME NumbersAssumption ==
  {Clients, Variants, Chunks, MaxFaults} \subseteq Nat /\ Capacity \in Nat \ {0}

VARIABLES
  lookup,   \* [todo, client: the attempt, run: its process, out and err: its
            \*  pipes, outLeft and errLeft: what it still has to write,
            \*  read: chunks of output that were copied, expired: the context]
  copiers,  \* the copiers of captureYTDLPOutput that are not done
  stream,   \* the handler: [todo, variant, status: its answer, sent: chunks
            \*  that the node has read]
  node,     \* the HTTP client: "off", "on" or "gone", and then "cancelled"
            \*  when the server has cancelled the request's context
  source,   \* yt-dlp: [run, left: chunks it still has to write, pipe]
  encoder,  \* ffmpeg: [run, feeder: the goroutine behind its Stdin, inbox
            \*  and outbox: its pipes]
  offers,   \* the chunks each variant of this track has; some have none
  bot,      \* the process: "up", "closing" (StreamProxy.Close) or "gone"
  faults

vars == <<lookup, copiers, stream, node, source, encoder, offers, bot, faults>>

Fault == faults < MaxFaults /\ faults' = faults + 1

\* A process is "none", "up", "over" or, once Wait has returned, "reaped".
Runs == {"none", "up", "over", "reaped"}

Alive == bot # "gone"

-----------------------------------------------------------------------------
(* The lookup: resolveMetadata tries the clients one after another.        *)

Looking == Alive /\ UNCHANGED <<stream, node, source, encoder, offers, bot>>

\* The next client's process starts, with some output and some complaints; a
\* process does not start once the context is over.
StartLookup ==
  /\ lookup.todo = "start" /\ lookup.client <= Clients
  /\ \/ /\ ~lookup.expired
        /\ \E o, e \in 0 .. Chunks :
             lookup' = [lookup EXCEPT !.todo = "await", !.run = "up", !.read = 0,
                                      !.outLeft = o, !.errLeft = e]
        /\ copiers' = {"out", "err"}
        /\ UNCHANGED faults
     \/ /\ lookup.expired
        /\ lookup' = [lookup EXCEPT !.client = @ + 1]
        /\ UNCHANGED <<copiers, faults>>
     \/ Fault /\ lookup' = [lookup EXCEPT !.client = @ + 1] /\ UNCHANGED copiers
  /\ Looking

LookupFails ==
  /\ lookup.todo = "start" /\ lookup.client > Clients
  /\ lookup' = [lookup EXCEPT !.todo = "failed"]
  /\ UNCHANGED <<copiers, faults>> /\ Looking

\* yt-dlp writes to its two pipes in any order and ends when it is done, or
\* when nobody reads them any more.
LookupWrites ==
  /\ lookup.run = "up"
  /\ \/ /\ lookup.outLeft > 0 /\ lookup.out < Capacity
        /\ lookup' = [lookup EXCEPT !.outLeft = @ - 1, !.out = @ + 1]
     \/ /\ lookup.errLeft > 0 /\ lookup.err < Capacity
        /\ lookup' = [lookup EXCEPT !.errLeft = @ - 1, !.err = @ + 1]
     \/ /\ (lookup.outLeft = 0 /\ lookup.errLeft = 0) \/ ~Alive
        /\ lookup' = [lookup EXCEPT !.run = "over"]
  /\ UNCHANGED <<copiers, stream, node, source, encoder, offers, bot, faults>>

\* The context of the command is over, which kills the process.
LookupExpires ==
  /\ lookup.todo \in {"start", "await"} /\ ~lookup.expired
  /\ lookup' = [lookup EXCEPT !.expired = TRUE, !.run = IF @ = "up" THEN "over" ELSE @]
  /\ UNCHANGED <<copiers, faults>> /\ Looking

\* Mutant: the complaints are read when the output has been.
CopyErr_Later ==
  /\ "err" \in copiers /\ "out" \notin copiers
  /\ \/ lookup.err > 0 /\ lookup' = [lookup EXCEPT !.err = @ - 1] /\ UNCHANGED copiers
     \/ /\ lookup.err = 0 /\ lookup.run = "over"
        /\ copiers' = copiers \ {"err"} /\ UNCHANGED lookup
  /\ UNCHANGED faults /\ Looking

\* Each copier reads its pipe to the end, in a goroutine of its own.
CopyErr ==
  /\ "err" \in copiers
  /\ \/ lookup.err > 0 /\ lookup' = [lookup EXCEPT !.err = @ - 1] /\ UNCHANGED copiers
     \/ /\ lookup.err = 0 /\ lookup.run = "over"
        /\ copiers' = copiers \ {"err"} /\ UNCHANGED lookup
  /\ UNCHANGED faults /\ Looking

CopyOut ==
  /\ "out" \in copiers
  /\ \/ /\ lookup.out > 0
        /\ lookup' = [lookup EXCEPT !.out = @ - 1, !.read = @ + 1] /\ UNCHANGED copiers
     \/ /\ lookup.out = 0 /\ lookup.run = "over"
        /\ copiers' = copiers \ {"out"} /\ UNCHANGED lookup
  /\ UNCHANGED faults /\ Looking

\* Wait; the output is parsed.  A killed process, an error exit and output
\* that is not a track make the loop go on to the next client; a track is
\* registered with the proxy.
EndLookup ==
  /\ lookup.todo = "await" /\ copiers = {} /\ lookup.run = "over"
  /\ \/ /\ ~lookup.expired /\ lookup.read > 0
        /\ lookup' = [lookup EXCEPT !.todo = "found", !.run = "reaped"]
     \/ lookup' = [lookup EXCEPT !.todo = "start", !.client = @ + 1, !.run = "reaped"]
  /\ UNCHANGED <<copiers, faults>> /\ Looking

-----------------------------------------------------------------------------
(* handleStream.                                                           *)

Streaming == UNCHANGED <<lookup, copiers, offers, bot>>
At(l)     == Alive /\ stream.todo = l
Goto(l)   == stream' = [stream EXCEPT !.todo = l]
Cancelled == node = "cancelled"

\* The node asks for a registered source.
Ask ==
  /\ bot = "up" /\ lookup.todo = "found" /\ stream.todo = "none"
  /\ Goto("open") /\ node' = "on"
  /\ UNCHANGED <<source, encoder, faults>> /\ Streaming

\* startAudioStream of the next variant; exec refuses to start a command whose
\* context is over.
StartSource ==
  /\ At("open") /\ stream.variant <= Variants
  /\ \/ /\ ~Cancelled
        /\ source' = [source EXCEPT !.run = "up", !.left = offers[stream.variant]]
        /\ Goto("peek")
        /\ UNCHANGED faults
     \/ /\ (Cancelled /\ UNCHANGED faults) \/ (~Cancelled /\ Fault)
        /\ stream' = [stream EXCEPT !.variant = @ + 1]
        /\ UNCHANGED source
  /\ UNCHANGED <<node, encoder>> /\ Streaming

\* Every variant has failed: 502.
NoAudio ==
  /\ At("open") /\ stream.variant > Variants
  /\ stream' = [stream EXCEPT !.todo = "done", !.status = "no audio"]
  /\ UNCHANGED <<node, source, encoder, faults>> /\ Streaming

\* Peek(1) has its byte.
HasAudio ==
  /\ At("peek") /\ source.pipe > 0
  /\ Goto("encode")
  /\ UNCHANGED <<node, source, encoder, faults>> /\ Streaming

\* Peek(1) meets the end: killProcess, and on to the next variant.
Discard ==
  /\ At("peek") /\ source.pipe = 0 /\ source.run = "over"
  /\ source' = [source EXCEPT !.run = "reaped"]
  /\ stream' = [stream EXCEPT !.todo = "open", !.variant = @ + 1]
  /\ UNCHANGED <<node, encoder, faults>> /\ Streaming

\* Mutant: the return on the error path is reached before the deferred Close.
StartEncoder_NoClose ==
  /\ At("encode")
  /\ \/ /\ ~Cancelled
        /\ encoder' = [encoder EXCEPT !.run = "up", !.feeder = "reading"]
        /\ Goto("copy") /\ UNCHANGED faults
     \/ /\ (Cancelled /\ UNCHANGED faults) \/ (~Cancelled /\ Fault)
        /\ stream' = [stream EXCEPT !.todo = "done", !.status = "no encoder"]
        /\ UNCHANGED encoder
  /\ UNCHANGED <<node, source>> /\ Streaming

\* ffmpeg starts, and with it the goroutine that feeds it, or it does not: 500.
StartEncoder ==
  /\ At("encode")
  /\ \/ /\ ~Cancelled
        /\ encoder' = [encoder EXCEPT !.run = "up", !.feeder = "reading"]
        /\ Goto("copy") /\ UNCHANGED faults
     \/ /\ (Cancelled /\ UNCHANGED faults) \/ (~Cancelled /\ Fault)
        /\ stream' = [stream EXCEPT !.todo = "close", !.status = "no encoder"]
        /\ UNCHANGED encoder
  /\ UNCHANGED <<node, source>> /\ Streaming

\* io.Copy to the node, until ffmpeg's output ends or the node is gone.
Copy ==
  /\ At("copy")
  /\ \/ /\ encoder.outbox > 0 /\ node = "on"
        /\ encoder' = [encoder EXCEPT !.outbox = @ - 1]
        /\ stream' = [stream EXCEPT !.sent = @ + 1]
     \/ /\ \/ encoder.outbox > 0 /\ node # "on"
           \/ encoder.outbox = 0 /\ encoder.run = "over"
        /\ Goto("wait") /\ UNCHANGED encoder
  /\ UNCHANGED <<node, source, faults>> /\ Streaming

\* Mutant: only the process is waited for.
WaitEncoder_ProcessOnly ==
  /\ At("wait") /\ encoder.run = "over"
  /\ encoder' = [encoder EXCEPT !.run = "reaped", !.outbox = 0]
  /\ stream' = [stream EXCEPT !.todo = "close", !.status = "ended"]
  /\ UNCHANGED <<node, source, faults>> /\ Streaming

\* ffmpeg.Wait returns when ffmpeg has ended and the feeder has.
WaitEncoder ==
  /\ At("wait") /\ encoder.run = "over" /\ encoder.feeder = "done"
  /\ encoder' = [encoder EXCEPT !.run = "reaped", !.outbox = 0]
  /\ stream' = [stream EXCEPT !.todo = "close", !.status = "ended"]
  /\ UNCHANGED <<node, source, faults>> /\ Streaming

\* The deferred audio.Close: killProcess.
CloseSource ==
  /\ At("close")
  /\ source' = [source EXCEPT !.run = "reaped", !.pipe = 0]
  /\ Goto("done")
  /\ UNCHANGED <<node, encoder, faults>> /\ Streaming

-----------------------------------------------------------------------------
(* Around the handler: the feeder, the processes and the node.             *)

\* Mutant: the feeder stops when yt-dlp has ended, whatever is in the pipe.
Feed_StopsAtExit ==
  /\ Alive
  /\ \/ /\ encoder.feeder = "reading" /\ source.run = "up" /\ source.pipe > 0
        /\ source' = [source EXCEPT !.pipe = @ - 1]
        /\ encoder' = [encoder EXCEPT !.feeder = "writing"]
     \/ /\ encoder.feeder = "reading" /\ source.run = "over"
        /\ encoder' = [encoder EXCEPT !.feeder = "done"] /\ UNCHANGED source
     \/ /\ encoder.feeder = "writing" /\ encoder.run = "up" /\ encoder.inbox < Capacity
        /\ encoder' = [encoder EXCEPT !.feeder = "reading", !.inbox = @ + 1]
        /\ UNCHANGED source
     \/ /\ encoder.feeder = "writing" /\ encoder.run = "over"
        /\ encoder' = [encoder EXCEPT !.feeder = "done"] /\ UNCHANGED source
  /\ UNCHANGED <<stream, node, faults>> /\ Streaming

\* The feeder reads from yt-dlp and writes to ffmpeg, until the one or the
\* other is over.  It learns of ffmpeg's end only when it writes.
Feed ==
  /\ Alive
  /\ \/ /\ encoder.feeder = "reading" /\ source.pipe > 0
        /\ source' = [source EXCEPT !.pipe = @ - 1]
        /\ encoder' = [encoder EXCEPT !.feeder = "writing"]
     \/ /\ encoder.feeder = "reading" /\ source.pipe = 0 /\ source.run = "over"
        /\ encoder' = [encoder EXCEPT !.feeder = "done"] /\ UNCHANGED source
     \/ /\ encoder.feeder = "writing" /\ encoder.run = "up" /\ encoder.inbox < Capacity
        /\ encoder' = [encoder EXCEPT !.feeder = "reading", !.inbox = @ + 1]
        /\ UNCHANGED source
     \/ /\ encoder.feeder = "writing" /\ encoder.run = "over"
        /\ encoder' = [encoder EXCEPT !.feeder = "done"] /\ UNCHANGED source
  /\ UNCHANGED <<stream, node, faults>> /\ Streaming

\* yt-dlp downloads and ends; a write into a pipe without a reader ends it.
SourceRuns ==
  /\ source.run = "up"
  /\ \/ /\ source.left > 0 /\ source.pipe < Capacity /\ Alive
        /\ source' = [source EXCEPT !.left = @ - 1, !.pipe = @ + 1]
     \/ /\ source.left = 0 \/ ~Alive
        /\ source' = [source EXCEPT !.run = "over"]
  /\ UNCHANGED <<stream, node, encoder, faults>> /\ Streaming

\* ffmpeg converts what it is fed and ends with it.
EncoderRuns ==
  /\ encoder.run = "up"
  /\ \/ /\ encoder.inbox > 0 /\ encoder.outbox < Capacity /\ Alive
        /\ encoder' = [encoder EXCEPT !.inbox = @ - 1, !.outbox = @ + 1]
     \/ /\ (encoder.inbox = 0 /\ encoder.feeder = "done") \/ ~Alive
        /\ encoder' = [encoder EXCEPT !.run = "over"]
  /\ UNCHANGED <<stream, node, source, faults>> /\ Streaming

\* A process fails half-way.
Break ==
  /\ Fault
  /\ \/ /\ source.run = "up"
        /\ source' = [source EXCEPT !.run = "over"] /\ UNCHANGED encoder
     \/ /\ encoder.run = "up"
        /\ encoder' = [encoder EXCEPT !.run = "over"] /\ UNCHANGED source
  /\ UNCHANGED <<stream, node>> /\ Streaming

\* Another track is played, or the node is done with this one.
HangUp ==
  /\ node = "on" /\ node' = "gone"
  /\ UNCHANGED <<stream, source, encoder, faults>> /\ Streaming

\* net/http cancels the context of the request.
Cancel ==
  /\ Alive /\ node = "gone" /\ node' = "cancelled"
  /\ UNCHANGED <<stream, source, encoder, faults>> /\ Streaming

\* The goroutines of exec.CommandContext.
KillSource ==
  /\ Alive /\ Cancelled /\ source.run = "up"
  /\ source' = [source EXCEPT !.run = "over"]
  /\ UNCHANGED <<stream, node, encoder, faults>> /\ Streaming

\* Mutant: exec.Command, without the context.
KillEncoder_Never == FALSE /\ UNCHANGED vars

KillEncoder ==
  /\ Alive /\ Cancelled /\ encoder.run = "up"
  /\ encoder' = [encoder EXCEPT !.run = "over"]
  /\ UNCHANGED <<stream, node, source, faults>> /\ Streaming

\* StreamProxy.Close: no more requests.  It waits for the handler, but for
\* five seconds only, and then the process ends.
CloseProxy == bot = "up" /\ bot' = "closing"
EndProcess == bot = "closing" /\ bot' = "gone"
Shutdown ==
  /\ CloseProxy \/ EndProcess
  /\ UNCHANGED <<lookup, copiers, stream, node, source, encoder, offers, faults>>

-----------------------------------------------------------------------------

Init ==
  /\ lookup = [todo |-> "start", client |-> 1, run |-> "none", out |-> 0, err |-> 0,
               outLeft |-> 0, errLeft |-> 0, read |-> 0, expired |-> FALSE]
  /\ copiers = {}
  /\ stream = [todo |-> "none", variant |-> 1, status |-> "none", sent |-> 0]
  /\ node = "off"
  /\ source = [run |-> "none", left |-> 0, pipe |-> 0]
  /\ encoder = [run |-> "none", feeder |-> "none", inbox |-> 0, outbox |-> 0]
  /\ offers \in [1 .. Variants -> 0 .. Chunks]
  /\ bot = "up"
  /\ faults = 0

Lookup  == StartLookup \/ LookupFails \/ CopyErr \/ CopyOut \/ EndLookup
Handler == StartSource \/ NoAudio \/ HasAudio \/ Discard \/ StartEncoder
             \/ Copy \/ WaitEncoder \/ CloseSource

\* The track was not found, its stream is over, or nobody asks for it.
Rest ==
  /\ \/ lookup.todo = "failed" \/ stream.todo = "done" \/ ~Alive
     \/ lookup.todo = "found" /\ stream.todo = "none" /\ bot = "closing"
  /\ "up" \notin {lookup.run, source.run, encoder.run}
  /\ UNCHANGED vars

Next ==
  \/ Lookup \/ LookupWrites \/ LookupExpires
  \/ Ask \/ Handler \/ Feed \/ SourceRuns \/ EncoderRuns \/ Break
  \/ HangUp \/ Cancel \/ KillSource \/ KillEncoder \/ Shutdown
  \/ Rest

Spec == Init /\ [][Next]_vars

\* Goroutines run, and so do the processes (yt-dlp with a socket timeout: it
\* writes or it ends); the node reads or hangs up.  Nothing has to fail,
\* expire, be asked for or hang up.
FairSpec ==
  /\ Spec
  /\ WF_vars(StartLookup) /\ WF_vars(LookupFails) /\ WF_vars(CopyErr)
  /\ WF_vars(CopyOut) /\ WF_vars(EndLookup) /\ WF_vars(LookupWrites)
  /\ WF_vars(Handler) /\ WF_vars(Feed) /\ WF_vars(SourceRuns)
  /\ WF_vars(EncoderRuns) /\ WF_vars(Cancel) /\ WF_vars(KillSource)
  /\ WF_vars(KillEncoder)

-----------------------------------------------------------------------------
(* Properties.                                                             *)

Todos   == {"none", "open", "peek", "encode", "copy", "wait", "close", "done"}
Feeders == {"none", "reading", "writing", "done"}

\* Every variable has its type, no pipe overflows, and a process that was
\* reaped has nobody at its pipe.
TypeOK ==
  /\ lookup \in [todo : {"start", "await", "found", "failed"}, client : 1 .. Clients + 1,
                 run : Runs, out : 0 .. Capacity, err : 0 .. Capacity,
                 outLeft : 0 .. Chunks, errLeft : 0 .. Chunks, read : 0 .. Chunks,
                 expired : BOOLEAN]
  /\ copiers \subseteq {"out", "err"}
  /\ lookup.run = "reaped" => copiers = {}
  /\ stream \in [todo : Todos, variant : 1 .. Variants + 1,
                 status : {"none", "no audio", "no encoder", "ended"}, sent : 0 .. Chunks]
  /\ node \in {"off", "on", "gone", "cancelled"}
  /\ source \in [run : Runs, left : 0 .. Chunks, pipe : 0 .. Capacity]
  /\ encoder \in [run : Runs, feeder : Feeders, inbox : 0 .. Capacity, outbox : 0 .. Capacity]
  /\ source.run = "reaped" => encoder.feeder \in {"none", "done"}
  /\ offers \in [1 .. Variants -> 0 .. Chunks]
  /\ bot \in {"up", "closing", "gone"}
  /\ faults \in 0 .. MaxFaults

Audible == {v \in 1 .. Variants : offers[v] > 0}
First   == CHOOSE v \in Audible : \A w \in Audible : v <= w

\* When no process fails and the node stays, it reads the whole of the first
\* variant that has any audio, through three pipes and their ends; when it is
\* told that there is no audio, no variant has any.
WholeTrack ==
  stream.todo = "done" /\ faults = 0 /\ node = "on"
    => stream.sent = (IF Audible = {} THEN 0 ELSE offers[First])

\* However a request ends, its processes have ended before the handler
\* returns, and were waited for.
NothingLeftBehind ==
  stream.todo = "done" =>
    /\ source.run \in {"none", "reaped"} /\ encoder.run \in {"none", "reaped"}
    /\ encoder.feeder \in {"none", "done"}

\* A lookup ends by itself, though its process may wait for room in either of
\* two pipes: no deadline has to come to its rescue.
LookupEnds == <>(lookup.todo \in {"found", "failed"} \/ ~Alive)

\* A request ends, and so do its processes: with the track, with a process
\* that fails, with a node that hangs up in the middle, and with the bot.
StreamEnds ==
  (stream.todo # "none") ~>
    /\ stream.todo = "done" \/ ~Alive
    /\ source.run # "up" /\ encoder.run # "up"

=============================================================================
