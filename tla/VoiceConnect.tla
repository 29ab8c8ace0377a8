---------------------------- MODULE VoiceConnect ----------------------------
(***************************************************************************)
(* How the bot joins and leaves the voice channel of one guild:            *)
(* Service.ensureVoice and Leave (internal/music/service.go) over          *)
(* Player.Connect and Disconnect and the voice handlers of                 *)
(* internal/linkdave/player.go.                                            *)
(*                                                                         *)
(* Joining takes three parties.  The bot asks Discord for a channel;       *)
(* Discord answers with two gateway events, which discordgo hands to two   *)
(* goroutines, in any order; their halves together are the credentials the *)
(* bot sends to Linkdave; Linkdave connects and confirms over its          *)
(* WebSocket, and the read loop answers whoever waits in Connect.          *)
(*                                                                         *)
(* A step is one critical section of p.mu or one call.                     *)
(***************************************************************************)
EXTENDS Naturals, Sequences, Bags

CONSTANTS
  Users,        \* goroutines of interactions
  Reader,       \* the Linkdave read loop
  Channels,     \* voice channels
  None,
  Calm,         \* TRUE: users begin, naps end and Connect times out only
                \* when nothing else is going on, and Linkdave's news
                \* arrive before Discord's
  MaxCommands,  \* bound on joins and leaves
  MaxUpsets,    \* bound on moderators' moves and losses in Discord or Linkdave
  MaxFaults     \* bound on failing calls

ASSUME ReaderIsNoUser == Reader \notin Users
ASSUME NoneIsNoChannel == None \notin Channels
ASSUME VoiceBounds ==
  MaxCommands \in Nat /\ MaxUpsets \in Nat /\ MaxFaults \in Nat

VARIABLES
  player,      \* the guild's Player
  sent,        \* what was sent on the waiter channel of each command
  botChannel,  \* where Discord has the bot, as BotVoiceChannel reads it
  requests,    \* voice state updates on their way to Discord
  spawned,     \* goroutines with a gateway event in hand
  updates,     \* voice updates on their way to Linkdave
  nodeVoice,   \* the channel Linkdave is connected to
  events,      \* voice events on their way from Linkdave
  pc, loc,     \* control and locals
  commands, upsets, faults  \* what was spent of the bounds

discord == <<botChannel, requests, spawned>>
node    == <<nodeVoice, events>>
remote  == <<discord, updates, node>>
bounds  == <<commands, upsets, faults>>
vars    == <<player, sent, remote, pc, loc, bounds>>

-----------------------------------------------------------------------------
(* Control.                                                                *)

NoLocals == [command |-> 0, target |-> None, had |-> FALSE, next |-> "idle"]

\* User u goes on at label l with locals s; an idle one has none.
Move(u, l, s) ==
  /\ pc' = [pc EXCEPT ![u] = l]
  /\ loc' = [loc EXCEPT ![u] = IF l = "idle" THEN NoLocals ELSE s]

Goto(u, l) == Move(u, l, loc[u])

\* A condition the code reads in a critical section of its own.
Branch(u, from, cond, yes, no) ==
  /\ pc[u] = from
  /\ Goto(u, IF cond THEN yes ELSE no)
  /\ UNCHANGED <<player, sent, remote, bounds>>

Fault == faults < MaxFaults /\ faults' = faults + 1
Upset == upsets < MaxUpsets /\ upsets' = upsets + 1

\* Linkdave is up to date, and the bot knows.
LinkdaveSettled ==
  /\ updates = <<>> /\ events = <<>> /\ pc[Reader] = "read"
  /\ nodeVoice \in {None, botChannel}

\* Nothing is on its way between the bot, Discord and Linkdave.
Settled == LinkdaveSettled /\ requests = <<>> /\ spawned = EmptyBag

AtRest == Settled /\ \A u \in Users : pc[u] = "idle"

-----------------------------------------------------------------------------
(* Player.  A nil pending has neither half of the credentials.             *)

NoPending == [channel |-> None, server |-> FALSE]

NewPlayer == [channel |-> None, connecting |-> FALSE, pending |-> NoPending,
              voice |-> None, waiters |-> {}]

\* Mutants: a field is not reset.
ResetVoice_StaysConnecting(p) ==
  [NewPlayer EXCEPT !.waiters = p.waiters, !.connecting = p.connecting]
ResetVoice_KeepsVoice(p) ==
  [NewPlayer EXCEPT !.waiters = p.waiters, !.voice = p.voice]

\* resetVoiceLocked keeps the waiters.
ResetVoice(p) == [NewPlayer EXCEPT !.waiters = p.waiters]

\* Sends r to every waiter.  Whoever sends has taken the list away before.
Answer(r) ==
  sent' = [n \in DOMAIN sent |->
             IF n \in player.waiters THEN Append(sent[n], r) ELSE sent[n]]

\* Mutant: the list is not taken away.
GiveUp_Kept(p) == [p EXCEPT !.connecting = FALSE]

\* finishConnect's update of the player
GiveUp(p) == [p EXCEPT !.connecting = FALSE, !.waiters = {}]

\* Mutant: one half is taken to be enough.
Complete_Either(p) == p.pending.channel # None \/ p.pending.server

Complete(p) == p.pending.channel # None /\ p.pending.server

\* Mutant: the credentials stay pending.
Credentials_Kept(p) ==
  [p EXCEPT !.channel = p.pending.channel, !.voice = p.pending.channel]

\* The pending credentials become the voice state.
Credentials(p) ==
  [p EXCEPT !.channel = p.pending.channel, !.voice = p.pending.channel,
            !.pending = NoPending]

\* tryConnectLinkdaveLocked on player p: once both halves are there they are
\* sent to Linkdave; if the WebSocket fails, failConnectLocked gives up.
TryConnect(p) ==
  \/ /\ ~Complete(p)
     /\ player' = p
     /\ UNCHANGED <<sent, updates, faults>>
  \/ /\ Complete(p)
     /\ player' = Credentials(p)
     /\ updates' = Append(updates, p.pending.channel)
     /\ UNCHANGED <<sent, faults>>
  \/ /\ Complete(p)
     /\ Fault
     /\ player' = ResetVoice(GiveUp(p))
     /\ Answer("failed")
     /\ UNCHANGED updates

-----------------------------------------------------------------------------
(* Linkdave's voice session and its events.                                *)

VoiceConnected(c)    == [type |-> "connect", channel |-> c]
VoiceDisconnected(r) == [type |-> "disconnect", reason |-> r]

\* The session ends, if there is one, and Linkdave says why.
EndSession(r) ==
  /\ nodeVoice' = None
  /\ events' = IF nodeVoice = None THEN events
               ELSE Append(events, VoiceDisconnected(r))

\* Only credentials for the channel the bot is in can connect.
NodeConnects ==
  /\ updates # <<>>
  /\ updates' = Tail(updates)
  /\ \/ /\ Head(updates) = botChannel
        /\ nodeVoice' = Head(updates)
        /\ events' = Append(events, VoiceConnected(Head(updates)))
        /\ UNCHANGED upsets
     \/ /\ IF Head(updates) = botChannel THEN Upset ELSE UNCHANGED upsets
        /\ nodeVoice' = None
        /\ events' = Append(events, VoiceDisconnected("connection_failed"))
  /\ UNCHANGED <<player, sent, discord, pc, loc, commands, faults>>

\* Linkdave loses the session, always so when the bot left the channel.
NodeLoses ==
  /\ nodeVoice # None
  /\ IF nodeVoice = botChannel THEN Upset ELSE UNCHANGED upsets
  /\ EndSession("connection_lost")
  /\ UNCHANGED <<player, sent, discord, updates, pc, loc, commands, faults>>

-----------------------------------------------------------------------------
(* Discord: a join of another channel yields fresh credentials, and any    *)
(* change of channel is reported.                                          *)

VoiceState(c)   == [type |-> "state", channel |-> c]
VoiceServer(up) == [type |-> "server", up |-> up]

SetBotChannel(c) ==
  /\ botChannel' = c
  /\ spawned' = spawned (+) SetToBag(
       CASE c = None       -> IF botChannel = None THEN {} ELSE {VoiceState(c)}
         [] c = botChannel -> {VoiceState(c)}
         [] OTHER          -> {VoiceState(c), VoiceServer(TRUE)})

DiscordAnswers ==
  /\ requests # <<>>
  /\ requests' = Tail(requests)
  /\ SetBotChannel(Head(requests))
  /\ UNCHANGED <<player, sent, updates, node, pc, loc, bounds>>

\* A moderator moves the bot or throws it out.
ModeratorMoves ==
  /\ Calm => AtRest
  /\ Upset
  /\ botChannel # None
  /\ \E c \in (Channels \cup {None}) \ {botChannel} : SetBotChannel(c)
  /\ UNCHANGED <<player, sent, requests, updates, node, pc, loc, commands, faults>>

\* The voice server goes away, and the session with it, and another takes over.
ServerMoves ==
  /\ Calm => AtRest
  /\ Upset
  /\ botChannel # None
  /\ spawned' = spawned (+) SetToBag({VoiceServer(FALSE), VoiceServer(TRUE)})
  /\ EndSession("connection_lost")
  /\ UNCHANGED <<player, sent, botChannel, requests, updates, pc, loc,
                 commands, faults>>

-----------------------------------------------------------------------------
(* The voice handlers.                                                     *)

\* handleVoiceStateUpdate and handleVoiceServerUpdate, each in a goroutine of
\* its own, in whatever order these get to run.
HandleGatewayEvent ==
  /\ Calm => LinkdaveSettled
  /\ \E e \in BagToSet(spawned) :
       /\ spawned' = spawned (-) SetToBag({e})
       /\ IF e \in {VoiceState(None), VoiceServer(FALSE)}
            THEN player' = ResetVoice(player) /\ UNCHANGED <<sent, updates, faults>>
            ELSE TryConnect(IF e.type = "state"
                              THEN [player EXCEPT !.pending.channel = e.channel]
                              ELSE [player EXCEPT !.pending.server = TRUE])
       /\ UNCHANGED <<botChannel, requests, node, pc, loc, commands, upsets>>

OnVoiceConnect ==
  /\ pc[Reader] = "read"
  /\ events # <<>> /\ Head(events).type = "connect"
  /\ events' = Tail(events)
  /\ player' = GiveUp(player)
  /\ Answer("ok")
  /\ UNCHANGED <<discord, updates, nodeVoice, pc, loc, bounds>>

\* The waiters are taken in any case, but told only of a failure.
OnVoiceDisconnect ==
  /\ pc[Reader] = "read"
  /\ events # <<>> /\ Head(events).type = "disconnect"
  /\ events' = Tail(events)
  /\ player' = [player EXCEPT !.waiters = {}]
  /\ IF player.connecting /\ Head(events).reason # "requested"
       THEN Answer("failed") ELSE UNCHANGED sent
  /\ pc' = [pc EXCEPT ![Reader] = "reset"]
  /\ UNCHANGED <<discord, updates, nodeVoice, loc, bounds>>

ResetAfterDisconnect ==
  /\ pc[Reader] = "reset"
  /\ player' = ResetVoice(player)
  /\ pc' = [pc EXCEPT ![Reader] = "read"]
  /\ UNCHANGED <<sent, remote, loc, bounds>>

-----------------------------------------------------------------------------
(* Calls shared by the methods.                                            *)

\* client.sendVoiceStateUpdate: l when Discord was asked, failed otherwise.
UpdateVoice(u, from, c, l, failed) ==
  /\ pc[u] = from
  /\ \/ /\ requests' = Append(requests, c)
        /\ Goto(u, l)
        /\ UNCHANGED faults
     \/ /\ Fault
        /\ Goto(u, failed)
        /\ UNCHANGED requests
  /\ UNCHANGED <<player, sent, botChannel, spawned, updates, node, commands, upsets>>

ResetStep(u, from, l) ==
  /\ pc[u] = from
  /\ player' = ResetVoice(player)
  /\ Goto(u, l)
  /\ UNCHANGED <<sent, remote, bounds>>

\* Player.Disconnect, then on to loc[u].next; an error ends the command
\* before the player is reset.
Disconnect(u) ==
  \/ /\ pc[u] = "had_voice"
     /\ Move(u, "ask_leave", [loc[u] EXCEPT !.had = player.voice # None])
     /\ UNCHANGED <<player, sent, remote, bounds>>
  \/ UpdateVoice(u, "ask_leave", None, IF loc[u].had THEN "rest" ELSE "drop", "idle")
  \/ /\ pc[u] = "rest"
     /\ \/ EndSession("requested") /\ Goto(u, "drop") /\ UNCHANGED faults
        \/ Fault /\ (EndSession("requested") \/ UNCHANGED node) /\ Goto(u, "idle")
     /\ UNCHANGED <<player, sent, discord, updates, commands, upsets>>
  \/ ResetStep(u, "drop", loc[u].next)

\* Disconnect(u) goes on at label l once it is done.
CallDisconnect(u, from, cond, l, else) ==
  /\ pc[u] = from
  /\ IF cond THEN Move(u, "had_voice", [loc[u] EXCEPT !.next = l])
             ELSE Goto(u, else)
  /\ UNCHANGED <<player, sent, remote, bounds>>

-----------------------------------------------------------------------------
(* Player.Connect.                                                         *)

BeginConnect(u) ==
  /\ pc[u] = "connect"
  /\ IF player.connecting
       THEN Goto(u, "idle") /\ UNCHANGED player
       ELSE /\ player' = [player EXCEPT
                 !.connecting = TRUE, !.pending = NoPending,
                 !.channel = loc[u].target,
                 !.waiters = player.waiters \cup {loc[u].command}]
            /\ Goto(u, "ask_join")
  /\ UNCHANGED <<sent, remote, bounds>>

FinishConnect(u) ==
  /\ pc[u] = "refused"
  /\ player' = GiveUp(player)
  /\ Answer("failed")
  /\ Goto(u, "idle")
  /\ UNCHANGED <<remote, bounds>>

\* The select: a timeout may win over an answer that is already there.
AwaitAnswer(u) ==
  /\ pc[u] = "wait"
  /\ \/ /\ sent[loc[u].command] # <<>>
        /\ Goto(u, "idle")
     \/ /\ Calm => Settled
        /\ Move(u, "had_voice", [loc[u] EXCEPT !.next = "idle"])
  /\ UNCHANGED <<player, sent, remote, bounds>>

Connect(u) ==
  \/ BeginConnect(u)
  \/ UpdateVoice(u, "ask_join", loc[u].target, "wait", "refused")
  \/ FinishConnect(u)
  \/ AwaitAnswer(u)

-----------------------------------------------------------------------------
(* Service.ensureVoice and Service.Leave.                                  *)

\* A wait for Discord to catch up, which may also be cancelled.
Nap(u, from, l) ==
  /\ pc[u] = from
  /\ \/ (Calm => Settled) /\ Goto(u, l)
     \/ Goto(u, "idle")
  /\ UNCHANGED <<player, sent, remote, bounds>>

\* Mutant: being in the right channel is taken to be enough.
CheckDiscord_ChannelOnly(u) ==
  Branch(u, "stale", botChannel \in {None, loc[u].target}, "previous", "ask_fresh")

\* Discord has the bot in another channel, or in this one while the player
\* does not know of it: only a fresh join brings credentials.
CheckDiscord(u) ==
  \/ Branch(u, "stale", botChannel = None, "previous",
            IF botChannel = loc[u].target THEN "unknown" ELSE "ask_fresh")
  \/ Branch(u, "unknown", player.voice # None, "previous", "ask_fresh")

EnsureVoice(u) ==
  \/ Branch(u, "ensure", player.voice # None, "channel", "stale")
  \/ Branch(u, "channel", player.channel = loc[u].target, "idle", "stale")
  \/ CheckDiscord(u)
  \/ UpdateVoice(u, "ask_fresh", None, "reset", "reset")
  \/ ResetStep(u, "reset", "nap_fresh")
  \/ Nap(u, "nap_fresh", "previous")
  \/ CallDisconnect(u, "previous", player.voice # None, "nap_previous", "connect")
  \/ Nap(u, "nap_previous", "connect")

Leave(u) ==
  \/ CallDisconnect(u, "leave", botChannel # None, "idle", "leave_connected")
  \/ CallDisconnect(u, "leave_connected", player.voice # None, "idle", "idle")

Begin(u) ==
  /\ Calm => AtRest
  /\ pc[u] = "idle"
  /\ commands < MaxCommands
  /\ commands' = commands + 1
  /\ \E c \in Channels, l \in {"ensure", "leave"} :
       Move(u, l, [NoLocals EXCEPT !.command = commands + 1, !.target = c])
  /\ UNCHANGED <<player, sent, remote, upsets, faults>>

-----------------------------------------------------------------------------

Init ==
  /\ player = NewPlayer
  /\ sent = [n \in 1 .. MaxCommands |-> <<>>]
  /\ botChannel \in Channels \cup {None}  \* Discord may know of an earlier run
  /\ requests = <<>> /\ spawned = EmptyBag
  /\ updates = <<>> /\ nodeVoice = None /\ events = <<>>
  /\ pc = [p \in Users \cup {Reader} |-> IF p = Reader THEN "read" ELSE "idle"]
  /\ loc = [u \in Users |-> NoLocals]
  /\ commands = 0 /\ upsets = 0 /\ faults = 0

Next ==
  \/ \E u \in Users :
       Begin(u) \/ EnsureVoice(u) \/ Connect(u) \/ Disconnect(u) \/ Leave(u)
  \/ HandleGatewayEvent
  \/ OnVoiceConnect \/ OnVoiceDisconnect \/ ResetAfterDisconnect
  \/ DiscordAnswers \/ ModeratorMoves \/ ServerMoves
  \/ NodeConnects \/ NodeLoses
  \/ AtRest /\ UNCHANGED vars

Spec == Init /\ [][Next]_vars

-----------------------------------------------------------------------------
(* Types.                                                                  *)

Maybe == Channels \cup {None}

Player == [channel : Maybe, connecting : BOOLEAN, voice : Maybe,
           pending : [channel : Maybe, server : BOOLEAN],
           waiters : SUBSET (1 .. MaxCommands)]

DisconnectLabels == {"had_voice", "ask_leave", "rest", "drop"}
ConnectLabels    == {"connect", "ask_join", "refused", "wait"}
EnsureLabels     == {"ensure", "channel", "stale", "unknown", "ask_fresh",
                     "reset", "nap_fresh", "previous", "nap_previous"}

UserLabels == {"idle", "leave", "leave_connected"} \cup DisconnectLabels
                \cup ConnectLabels \cup EnsureLabels

Locals == [command : 0 .. MaxCommands, target : Maybe, had : BOOLEAN,
           next : {"idle", "nap_previous"}]

GatewayEvent == [type : {"state"}, channel : Maybe] \cup
                [type : {"server"}, up : BOOLEAN]

NodeEvent == [type : {"connect"}, channel : Channels] \cup
             [type : {"disconnect"},
              reason : {"requested", "connection_failed", "connection_lost"}]

DataOK ==
  /\ player \in Player
  /\ sent \in [1 .. MaxCommands -> Seq({"ok", "failed"})]
  /\ botChannel \in Maybe /\ nodeVoice \in Maybe
  /\ requests \in Seq(Maybe) /\ updates \in Seq(Channels)
  /\ BagToSet(spawned) \subseteq GatewayEvent
  /\ events \in Seq(NodeEvent)

ControlOK ==
  /\ DOMAIN pc = Users \cup {Reader}
  /\ pc[Reader] \in {"read", "reset"}
  /\ \A u \in Users : pc[u] \in UserLabels
  /\ loc \in [Users -> Locals]
  /\ \A u \in Users : pc[u] # "idle" => loc[u].command # 0 /\ loc[u].target # None

BoundsOK ==
  /\ commands \in 0 .. MaxCommands
  /\ upsets \in 0 .. MaxUpsets /\ faults \in 0 .. MaxFaults

\* Every variable keeps its type: only complete credentials are sent, every
\* process stays in its own code, and a command in progress has its number and
\* channel.
TypeOK == DataOK /\ ControlOK /\ BoundsOK

-----------------------------------------------------------------------------
(* Properties.                                                             *)

\* No waiter channel of Connect is sent to twice.  It has room for one value
\* and is closed after the first send: a second one would stop the program.
AnsweredOnce == \A n \in DOMAIN sent : Len(sent[n]) <= 1

\* Where a Connect that set the connecting flag may be, or a Disconnect that
\* is going to take it down.
UnderWay(u) ==
  pc[u] \in {"ask_join", "refused", "wait"} \cup DisconnectLabels

\* The connecting flag, which makes Connect answer "already connecting to
\* voice" (player.go:49), is only up while some Connect or Disconnect is under
\* way or the read loop is about to take it down.
ConnectingIsUnderWay ==
  player.connecting => pc[Reader] = "reset" \/ \E u \in Users : UnderWay(u)

\* Complete credentials never stay in the bot: the second half to arrive
\* makes tryConnectLinkdaveLocked send them.
CredentialsAreSent ==
  ~ (player.pending.channel # None /\ player.pending.server)

\* When all has settled, a player that says Connected() has a voice session in
\* Linkdave, in the same channel, whatever was lost or failed before.
ConnectedHasSession ==
  AtRest /\ player.voice # None => nodeVoice = player.voice

\* When all has settled, Connected() and ChannelID() tell the voice session
\* Linkdave has, and no Connect is left over.
VoiceAgrees ==
  AtRest =>
    /\ player.voice = nodeVoice
    /\ player.voice # None => player.channel = player.voice
    /\ ~player.connecting /\ player.waiters = {}

\* No Connect needs its timeout: once all has settled, its answer is there.
ConnectsAreAnswered ==
  \A u \in Users : pc[u] = "wait" /\ Settled => sent[loc[u].command] # <<>>

=============================================================================
