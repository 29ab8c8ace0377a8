----------------------------- MODULE Lifecycle ------------------------------
(***************************************************************************)
(* The life of the bot process: Bot.Run (internal/bot/bot.go) opens the    *)
(* Discord session, the link to the Linkdave node and the HTTP API, waits  *)
(* for a signal, and closes API, store, voice, link and session in that    *)
(* order.  Composed with Document: handlers change players and write the   *)
(* store while the process starts, runs and stops around them.             *)
(***************************************************************************)
EXTENDS Document

CONSTANTS
  Requests,     \* requests to the HTTP API
  MaxLives,     \* bound on starts of the process
  MaxGreetings  \* bound on OpReady messages of the node in one life

ASSUME LifecycleBounds == MaxLives \in Nat /\ MaxGreetings \in Nat

VARIABLES
  run,      \* [phase: the next step of Run, signal: whether it has come,
            \*  late: whether the shutdown context is over,
            \*  api: whether the API listens, leaving: guilds that
            \*  DisconnectAll has still to visit]
  link,     \* the node's client: [wire: the WebSocket, reader: the read loop,
            \*  ready: values in readyCh, greetings: OpReady messages read]
  voice,    \* each guild's player: "out", "joining" (Connect waits for Discord's
            \* credentials), "sent" (for the node's confirmation) or "in"
  present,  \* guilds where Discord shows the bot in voice, whatever the player says
  stranded, \* those where no Disconnect is left to come: the session was lost, a
            \* call failed, or an earlier life of the process joined
  request,  \* each API request: "none", "active", "served" or "failed"
  lives

voices == <<voice, present, stranded>>
vars == <<docVars, run, link, voices, request, lives>>

\* Discord events are handled from session.Open to the end of the process.
Stopping == {"stop_api", "close_store", "list", "leave", "close_link", "close_session"}
Starting == {"register", "dial", "await", "api"}
Handling == run.phase \in Starting \cup Stopping \cup {"online", "abort"}

\* In a behaviour without overlaps commands come one after another, the signal
\* when no join is under way, and no event after it; what was begun goes on.
Quiet  == \A g \in Guilds : voice[g] \notin {"joining", "sent"}
Events == Handling /\ (overlap \/ ~run.signal)

NoLink == [wire |-> "none", reader |-> "off", ready |-> 0, greetings |-> 0]
NoRun  == [phase |-> "off", signal |-> FALSE, late |-> FALSE, api |-> FALSE, leaving |-> {}]

-----------------------------------------------------------------------------
(* Voice, as far as leaving it goes; VoiceConnect has the rest.            *)

\* Connected(): the player holds the credentials of a voice session.
Connected(g) == voice[g] \in {"sent", "in"}

\* The player is reset; a Connect that waits goes on waiting.
Reset(g) == voice' = [voice EXCEPT ![g] = IF @ \in {"joining", "sent"} THEN "joining" ELSE "out"]

\* Disconnect, or Discord itself, takes the bot out.
Leaves(g) ==
  /\ Reset(g)
  /\ present' = present \ {g} /\ stranded' = stranded \ {g}

\* Disconnect fails: Discord was not told, or the node's answer is missing;
\* the player keeps its session.
Stays(g) ==
  /\ \E still \in {present, present \ {g}} :
       present' = still /\ stranded' = (stranded \cup {g}) \cap still
  /\ UNCHANGED voice

-----------------------------------------------------------------------------
(* Run.                                                                    *)

\* A new process; when store.Connect fails, it goes without the store, and
\* New may fail.  Discord may show the bot in voice still.
Boot ==
  /\ run.phase \in {"off", "exited"} /\ lives < MaxLives
  /\ lives' = lives + 1
  /\ \E p \in {"open", "exited"} : run' = [NoRun EXCEPT !.phase = p]
  /\ \E still \in SUBSET present : present' = still /\ stranded' = still
  /\ open' \in BOOLEAN
  /\ UNCHANGED <<overlap, player, emitted, doc, presence, tasks, faults, link, voice, request>>

\* The process ends, and with it its memory and goroutines.
Exit ==
  /\ run' = [run EXCEPT !.phase = "exited", !.api = FALSE, !.leaving = {}]
  /\ link' = NoLink
  /\ now' = [g \in Guilds |-> 0]
  /\ upcoming' = [g \in Guilds |-> 0]
  /\ clock' = [g \in Guilds |-> "none"]
  /\ reports' = [g \in Guilds |-> <<FALSE>>]
  /\ voice' = [g \in Guilds |-> "out"]
  /\ stranded' = present
  /\ presence' = 0 /\ emitted' = {}
  /\ tasks' = [p \in DOMAIN tasks |-> Ended(tasks[p].guild, FALSE)]
  /\ request' = [r \in Requests |-> "none"]
  /\ UNCHANGED <<overlap, epoch, past, doc, open, present, faults, lives>>

Outside == UNCHANGED <<overlap, player, emitted, doc, presence, faults, lives>>

From(phase) == run.phase = phase

\* Run goes on to phase p and changes nothing else.
Goto(p) ==
  /\ run' = [run EXCEPT !.phase = p]
  /\ UNCHANGED <<open, tasks, link, voices, request>> /\ Outside

\* Client.Close
HangUp == link' = [link EXCEPT !.wire = "down"]

OpenSession      == From("open") /\ (Goto("register") \/ Exit)
RegisterCommands == From("register") /\ (Goto("dial") \/ Goto("abort"))

\* Client.Connect
Dial ==
  /\ From("dial")
  /\ \/ /\ run' = [run EXCEPT !.phase = "await"]
        /\ link' = [link EXCEPT !.wire = "up", !.reader = "reading"]
        /\ UNCHANGED <<open, tasks, voices, request>> /\ Outside
     \/ Goto("abort")

\* The value leaves readyCh; a read loop that was blocked puts in the next.
Greeted ==
  /\ link.ready > 0
  /\ run' = [run EXCEPT !.phase = "api"]
  /\ link' = IF link.reader = "blocked" THEN [link EXCEPT !.reader = "reading"]
                                         ELSE [link EXCEPT !.ready = 0]
  /\ UNCHANGED <<open, tasks, voices, request>> /\ Outside

\* Connect waits for OpReady; an OpReady that cannot be decoded, the signal
\* and the timeout end the wait too.
AwaitReady ==
  /\ From("await")
  /\ \/ Greeted
     \/ HangUp /\ run' = [run EXCEPT !.phase = "abort"] /\ UNCHANGED <<open, tasks, voices, request>> /\ Outside

\* There is an API only with a store; when it fails to listen, the bot goes
\* online without it.
StartApi ==
  /\ From("api")
  /\ \E serving \in {FALSE, open} : run' = [run EXCEPT !.phase = "online", !.api = serving]
  /\ UNCHANGED <<open, tasks, link, voices, request>> /\ Outside

Abort  == From("abort") /\ Exit
Online == From("online") /\ run.signal /\ Goto("stop_api")

\* Mutant: active requests are not waited for.
StopApi_AtOnce ==
  /\ From("stop_api")
  /\ run' = [run EXCEPT !.phase = "close_store", !.api = FALSE]
  /\ UNCHANGED <<open, tasks, link, voices, request>> /\ Outside

\* Mutant: Shutdown without the deadline.
StopApi_NoDeadline ==
  /\ From("stop_api")
  /\ \A r \in Requests : request[r] # "active"
  /\ run' = [run EXCEPT !.phase = "close_store", !.api = FALSE]
  /\ UNCHANGED <<open, tasks, link, voices, request>> /\ Outside

\* Shutdown waits for the active requests until the context is over.
StopApi ==
  /\ From("stop_api")
  /\ run.late \/ \A r \in Requests : request[r] # "active"
  /\ run' = [run EXCEPT !.phase = "close_store", !.api = FALSE]
  /\ UNCHANGED <<open, tasks, link, voices, request>> /\ Outside

CloseStore ==
  /\ From("close_store")
  /\ open' = FALSE
  /\ run' = [run EXCEPT !.phase = "list"]
  /\ UNCHANGED <<tasks, link, voices, request>> /\ Outside

\* DisconnectAll: the guilds with a player, visited one by one.
ListGuilds ==
  /\ From("list")
  /\ run' = [run EXCEPT !.phase = "leave", !.leaving = Guilds]
  /\ UNCHANGED <<open, tasks, link, voices, request>> /\ Outside

\* Mutant: nothing is disconnected any more when the shutdown context is over.
LeaveNext_InTime ==
  /\ From("leave")
  /\ \E g \in run.leaving :
       /\ run' = [run EXCEPT !.leaving = @ \ {g}]
       /\ IF Connected(g) /\ ~run.late THEN Leaves(g) \/ Stays(g) ELSE UNCHANGED voices
  /\ UNCHANGED <<open, tasks, link, request>> /\ Outside

\* A player without a voice session is passed over; a failed Disconnect is
\* only logged.
LeaveNext ==
  /\ From("leave")
  /\ \E g \in run.leaving :
       /\ run' = [run EXCEPT !.leaving = @ \ {g}]
       /\ IF Connected(g) THEN Leaves(g) \/ Stays(g) ELSE UNCHANGED voices
  /\ UNCHANGED <<open, tasks, link, request>> /\ Outside

LeaveDone    == From("leave") /\ run.leaving = {} /\ Goto("close_link")
CloseLink    == From("close_link") /\ HangUp /\ run' = [run EXCEPT !.phase = "close_session"]
                  /\ UNCHANGED <<open, tasks, voices, request>> /\ Outside
CloseSession == From("close_session") /\ Exit

Main ==
  \/ OpenSession \/ RegisterCommands \/ Dial \/ AwaitReady \/ StartApi \/ Abort
  \/ Online \/ StopApi \/ CloseStore \/ ListGuilds \/ LeaveNext \/ LeaveDone
  \/ CloseLink \/ CloseSession

-----------------------------------------------------------------------------
(* The process's surroundings.                                             *)

Around == UNCHANGED <<docVars, lives>>

\* SIGINT or SIGTERM
Signal ==
  /\ run.phase \notin {"off", "exited"} /\ ~run.signal
  /\ overlap \/ Quiet
  /\ run' = [run EXCEPT !.signal = TRUE]
  /\ UNCHANGED <<link, voices, request>> /\ Around

\* The ten seconds of the shutdown context are over.
Deadline ==
  /\ run.phase \in Stopping /\ ~run.late
  /\ run' = [run EXCEPT !.late = TRUE]
  /\ UNCHANGED <<link, voices, request>> /\ Around

\* Mutant: readyCh has no room, so that a value waits for Connect to take it.
ReadReady_Unbuffered ==
  /\ link.wire = "up" /\ link.reader = "reading" /\ link.greetings < MaxGreetings
  /\ link' = [link EXCEPT !.greetings = @ + 1, !.ready = 1,
               !.reader = IF link.ready = 0 /\ run.phase = "await" THEN "reading" ELSE "blocked"]
  /\ UNCHANGED <<run, voices, request>> /\ Around

\* The read loop takes an OpReady: the session id is set, and a value sent to
\* readyCh.  Nobody but Connect receives from it.
ReadReady ==
  /\ link.wire = "up" /\ link.reader = "reading" /\ link.greetings < MaxGreetings
  /\ link' = [link EXCEPT !.greetings = @ + 1,
                          !.ready = 1,
                          !.reader = IF link.ready = 0 THEN "reading" ELSE "blocked"]
  /\ UNCHANGED <<run, voices, request>> /\ Around

\* The connection breaks or was closed: the read loop ends, for good.
ReadFails ==
  /\ link.reader = "reading"
  /\ link' = [link EXCEPT !.wire = "down", !.reader = "ended"]
  /\ UNCHANGED <<run, voices, request>> /\ Around

\* A command makes the bot join.
Join(g) ==
  /\ Events /\ (overlap \/ (Quiet /\ Done)) /\ voice[g] = "out"
  /\ voice' = [voice EXCEPT ![g] = "joining"]
  /\ present' = present \cup {g} /\ stranded' = stranded \ {g}
  /\ UNCHANGED <<run, link, request>> /\ Around

\* Discord's credentials come, for a Connect or because the bot was moved, and
\* are sent to the node; when the link is down, that may fail.
Credentials(g) ==
  /\ Handling /\ (voice[g] = "joining" \/ (voice[g] = "out" /\ g \in present /\ Events))
  /\ present' = present \cup {g}
  /\ \/ /\ link.wire # "none"
        /\ voice' = [voice EXCEPT ![g] = IF @ = "joining" THEN "sent" ELSE "in"]
        /\ stranded' = stranded \ {g}
     \/ /\ link.wire # "up"
        /\ voice' = [voice EXCEPT ![g] = "out"]
        /\ stranded' = stranded \cup {g}
  /\ UNCHANGED <<run, link, request>> /\ Around

\* The node confirms, through the read loop.
Confirmed(g) ==
  /\ Handling /\ voice[g] = "sent"
  /\ link.reader = "reading" /\ link.greetings > 0
  /\ voice' = [voice EXCEPT ![g] = "in"]
  /\ UNCHANGED <<run, link, present, stranded, request>> /\ Around

\* Connect gives up; it disconnects and ignores the error.  If Discord was not
\* told, the bot stays where it is.
GiveUp(g) ==
  /\ Handling /\ voice[g] \in {"joining", "sent"}
  /\ \/ /\ voice' = [voice EXCEPT ![g] = "out"]
        /\ present' = present \ {g} /\ stranded' = stranded \ {g}
     \/ /\ voice' = [voice EXCEPT ![g] = IF @ = "sent" THEN "in" ELSE "out"]
        /\ stranded' = (stranded \cup {g}) \cap present
        /\ UNCHANGED present
  /\ UNCHANGED <<run, link, request>> /\ Around

\* /leave, AutoLeave, a kick.  A Disconnect that fails before Discord was told
\* changes nothing; after that, Discord's answer resets the player all the same.
Removed(g) ==
  /\ Events /\ (g \in present \/ Connected(g))
  /\ Leaves(g)
  /\ UNCHANGED <<run, link, request>> /\ Around

\* The node loses the session: the player is reset, a Connect that waits ends
\* with an error, and Discord keeps the bot in the channel.
Lost(g) ==
  /\ Handling /\ Connected(g) /\ link.reader = "reading"
  /\ voice' = [voice EXCEPT ![g] = "out"]
  /\ stranded' = stranded \cup ({g} \cap present)
  /\ UNCHANGED <<run, link, present, request>> /\ Around

\* A start needs a session id and the voice session.
Handler(g) ==
  /\ Events /\ (overlap \/ Quiet)
  /\ now[g] # 0 \/ upcoming[g] # 0 \/ (link.greetings > 0 /\ Connected(g))
  /\ Operate(g)
  /\ UNCHANGED <<run, link, voices, request, lives>>

Report(g) == Handling /\ link.reader = "reading" /\ Hear(g) /\ UNCHANGED <<run, link, voices, request, lives>>

Emit(p) == Handling /\ Emission(p) /\ UNCHANGED <<run, link, voices, request, lives>>

Ask(r) ==
  /\ run.api /\ request[r] = "none"
  /\ run.phase = "online"
  /\ request' = [request EXCEPT ![r] = "active"]
  /\ UNCHANGED <<run, link, voices>> /\ Around

\* handleGuilds and handleGuildNow read the store.
Answer(r) ==
  /\ request[r] = "active"
  /\ request' = [request EXCEPT ![r] = IF open THEN "served" ELSE "failed"]
  /\ UNCHANGED <<run, link, voices>> /\ Around

\* The process is killed.
Kill ==
  /\ run.phase \notin {"off", "exited"} /\ lives < MaxLives
  /\ Exit

-----------------------------------------------------------------------------

Init ==
  /\ DocumentInit
  /\ run = NoRun
  /\ link = NoLink
  /\ voice = [g \in Guilds |-> "out"]
  /\ present = {} /\ stranded = {}
  /\ request = [r \in Requests |-> "none"]
  /\ lives = 0

\* The bot is online, or there is no process.
Idle == run.phase \in {"online", "exited"} /\ UNCHANGED vars

Next ==
  \/ Boot \/ Main \/ Signal \/ Deadline \/ ReadReady \/ ReadFails \/ Kill
  \/ \E g \in Guilds : Join(g) \/ Credentials(g) \/ Confirmed(g) \/ GiveUp(g) \/ Removed(g) \/ Lost(g)
  \/ \E g \in Guilds : Handler(g) \/ Report(g)
  \/ \E p \in 1 .. MaxTasks : Emit(p)
  \/ \E r \in Requests : Ask(r) \/ Answer(r)
  \/ Idle

Spec == Init /\ [][Next]_vars

\* The main goroutine runs, and a context that times out does.
FairSpec == Spec /\ WF_vars(Main) /\ WF_vars(Deadline)

-----------------------------------------------------------------------------
(* Properties.                                                             *)

\* Every variable has its type.
TypeOK ==
  /\ DocumentTypeOK
  /\ run \in [phase : {"off", "open", "exited", "online", "abort"} \cup Starting \cup Stopping,
              signal : BOOLEAN, late : BOOLEAN, api : BOOLEAN, leaving : SUBSET Guilds]
  /\ link \in [wire : {"none", "up", "down"}, reader : {"off", "reading", "blocked", "ended"},
               ready : {0, 1}, greetings : 0 .. MaxGreetings]
  /\ voice \in [Guilds -> {"out", "joining", "sent", "in"}]
  /\ stranded \subseteq present /\ present \subseteq Guilds
  /\ request \in [Requests -> {"none", "active", "served", "failed"}]
  /\ lives \in 0 .. MaxLives

\* An API request that was accepted never meets a closed store, unless the
\* shutdown had to give up waiting for it.
ApiBeforeStore == \A r \in Requests : request[r] = "failed" => run.late

\* The node can greet twice without the read loop hanging: as long as the
\* connection of a started bot is up, its messages are read.
ReaderListens ==
  run.phase = "online" /\ link.wire = "up" /\ link.greetings <= 2 => link.reader = "reading"

\* An orderly shutdown takes the bot out of voice in every guild that its
\* process joined, when no join was under way; it stays where the node had lost
\* the session, where a Disconnect failed, and where it was left by an earlier
\* life of the process.  (DisconnectAll passes over players without a voice
\* session, and only logs an error.)
LeavesVoice ==
  ~overlap /\ run.phase \in {"close_link", "close_session"} => present \subseteq stranded

\* Once signalled, the process ends, whatever it is doing: starting, waiting
\* for the node, or answering requests that never finish.
SignalEnds == run.signal ~> run.phase = "exited"

=============================================================================
