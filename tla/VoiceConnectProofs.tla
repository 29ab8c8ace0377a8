-------------------------- MODULE VoiceConnectProofs --------------------------
(***************************************************************************)
(* Joining and leaving for any users, channels and bounds: types, and that *)
(* no Connect is answered twice, that the connecting flag does not outlive *)
(* what set it, that complete credentials do not stay behind, and that who *)
(* is connected has a session; then, for users who begin at rest and as    *)
(* long as no call has failed, that player and session agree and every     *)
(* Connect is answered.                                                    *)
(***************************************************************************)
EXTENDS VoiceConnect, SequenceTheorems, TLAPS

-----------------------------------------------------------------------------
(* Bags.                                                                   *)

LEMMA BagUnionSet ==
  ASSUME NEW B, NEW S
  PROVE  BagToSet(B (+) SetToBag(S)) = BagToSet(B) \cup S
BY DEF (+), BagToSet, SetToBag

LEMMA BagDiffSet ==
  ASSUME NEW B, NEW S
  PROVE  BagToSet(B (-) SetToBag(S)) \subseteq BagToSet(B)
BY DEF (-), BagToSet, SetToBag

-----------------------------------------------------------------------------
(* Control.                                                                *)

LEMMA MoveControl ==
  ASSUME ControlOK, NEW u \in Users, NEW l \in UserLabels, NEW s \in Locals,
         l # "idle" => s.command # 0 /\ s.target # None,
         Move(u, l, s)
  PROVE  ControlOK'
<1>1. NoLocals \in Locals
  BY VoiceBounds DEF NoLocals, Locals, Maybe
<1>2. u # Reader
  BY ReaderIsNoUser
<1>3. /\ DOMAIN pc' = DOMAIN pc
      /\ \A p \in DOMAIN pc : pc'[p] = IF p = u THEN l ELSE pc[p]
  BY DEF Move
<1>4. /\ loc' \in [Users -> Locals]
      /\ \A v \in Users : loc'[v] = IF v = u THEN IF l = "idle" THEN NoLocals ELSE s
                                           ELSE loc[v]
  BY <1>1 DEF Move, ControlOK
<1> QED
  BY <1>2, <1>3, <1>4 DEF ControlOK

LEMMA GotoControl ==
  ASSUME ControlOK, NEW u \in Users, NEW l \in UserLabels, pc[u] # "idle",
         Goto(u, l)
  PROVE  ControlOK'
<1>1. loc[u] \in Locals /\ loc[u].command # 0 /\ loc[u].target # None
  BY DEF ControlOK
<1> QED
  BY <1>1, MoveControl DEF Goto

LEMMA BranchType ==
  ASSUME TypeOK, NEW u \in Users, NEW from \in UserLabels \ {"idle"},
         NEW cond, NEW yes \in UserLabels, NEW no \in UserLabels,
         Branch(u, from, cond, yes, no)
  PROVE  TypeOK'
<1>1. ControlOK'
  BY GotoControl DEF Branch, TypeOK
<1> QED
  BY <1>1 DEF Branch, TypeOK, DataOK, BoundsOK, remote, discord, node, bounds

-----------------------------------------------------------------------------
(* The player.                                                             *)

LEMMA ResetPlayer ==
  ASSUME NEW p \in Player
  PROVE  /\ ResetVoice(p) \in Player
         /\ ResetVoice(p).waiters = p.waiters
         /\ ~ResetVoice(p).connecting
         /\ ResetVoice(p).pending = NoPending
BY DEF ResetVoice, NewPlayer, Player, NoPending, Maybe

LEMMA GiveUpPlayer ==
  ASSUME NEW p \in Player
  PROVE  /\ GiveUp(p) \in Player
         /\ GiveUp(p).waiters = {}
         /\ ~GiveUp(p).connecting
         /\ GiveUp(p).pending = p.pending
BY DEF GiveUp, Player

LEMMA CredentialsPlayer ==
  ASSUME NEW p \in Player
  PROVE  /\ Credentials(p) \in Player
         /\ Credentials(p).waiters = p.waiters
         /\ Credentials(p).connecting = p.connecting
         /\ Credentials(p).pending = NoPending
BY DEF Credentials, Player, NoPending, Maybe

\* Each waiter gets one value more, nobody else gets any.
LEMMA AnswerSent ==
  ASSUME DataOK, NEW r \in {"ok", "failed"}, Answer(r)
  PROVE  /\ sent' \in [1 .. MaxCommands -> Seq({"ok", "failed"})]
         /\ \A n \in 1 .. MaxCommands :
              sent'[n] = IF n \in player.waiters THEN Append(sent[n], r) ELSE sent[n]
BY DEF Answer, DataOK

LEMMA TryConnectType ==
  ASSUME DataOK, NEW p \in Player, TryConnect(p)
  PROVE  /\ player' \in Player
         /\ sent' \in [1 .. MaxCommands -> Seq({"ok", "failed"})]
         /\ updates' \in Seq(Channels)
         /\ faults \in 0 .. MaxFaults => faults' \in 0 .. MaxFaults
<1>1. CASE ~Complete(p) /\ player' = p /\ UNCHANGED <<sent, updates, faults>>
  BY <1>1 DEF DataOK
<1>2. CASE /\ Complete(p)
           /\ player' = Credentials(p)
           /\ updates' = Append(updates, p.pending.channel)
           /\ UNCHANGED <<sent, faults>>
  <2>1. p.pending.channel \in Channels
    BY <1>2 DEF Complete, Player, Maybe
  <2> QED
    BY <1>2, <2>1, CredentialsPlayer DEF DataOK
<1>3. CASE /\ Fault
           /\ player' = ResetVoice(GiveUp(p))
           /\ Answer("failed")
           /\ UNCHANGED updates
  <2>1. GiveUp(p) \in Player
    BY GiveUpPlayer
  <2>2. player' \in Player
    BY <1>3, <2>1, ResetPlayer
  <2> QED
    BY <1>3, <2>2, AnswerSent, VoiceBounds DEF DataOK, Fault
<1> QED
  BY <1>1, <1>2, <1>3 DEF TryConnect

-----------------------------------------------------------------------------
(* The shared calls.                                                       *)

LEMMA ResetStepType ==
  ASSUME TypeOK, NEW u \in Users, NEW from \in UserLabels \ {"idle"},
         NEW l \in UserLabels, ResetStep(u, from, l)
  PROVE  TypeOK'
<1>1. ControlOK'
  BY GotoControl DEF ResetStep, TypeOK
<1>2. player' \in Player
  BY ResetPlayer DEF ResetStep, TypeOK, DataOK
<1> QED
  BY <1>1, <1>2 DEF ResetStep, TypeOK, DataOK, BoundsOK, remote, discord, node, bounds

LEMMA UpdateVoiceType ==
  ASSUME TypeOK, NEW u \in Users, NEW from \in UserLabels \ {"idle"},
         NEW c \in Maybe, NEW l \in UserLabels, NEW failed \in UserLabels,
         UpdateVoice(u, from, c, l, failed)
  PROVE  TypeOK'
<1>1. ControlOK'
  BY GotoControl DEF UpdateVoice, TypeOK
<1>2. requests' \in Seq(Maybe)
  BY DEF UpdateVoice, TypeOK, DataOK
<1>3. BoundsOK'
  BY VoiceBounds DEF UpdateVoice, Fault, TypeOK, BoundsOK
<1> QED
  BY <1>1, <1>2, <1>3 DEF UpdateVoice, TypeOK, DataOK, node

LEMMA CallDisconnectType ==
  ASSUME TypeOK, NEW u \in Users, NEW from \in UserLabels \ {"idle"},
         NEW cond, NEW l \in {"idle", "nap_previous"}, NEW else \in UserLabels,
         CallDisconnect(u, from, cond, l, else)
  PROVE  TypeOK'
<1> DEFINE s == [loc[u] EXCEPT !.next = l]
<1>1. loc[u] \in Locals /\ loc[u].command # 0 /\ loc[u].target # None
  BY DEF CallDisconnect, TypeOK, ControlOK
<1>2. s \in Locals /\ s.command # 0 /\ s.target # None
  BY <1>1 DEF Locals
<1>3. ControlOK'
  <2>1. CASE cond
    <3>1. Move(u, "had_voice", s)
      BY <2>1 DEF CallDisconnect
    <3> QED
      BY <3>1, <1>2, MoveControl DEF TypeOK, UserLabels, DisconnectLabels
  <2>2. CASE ~cond
    BY <2>2, GotoControl DEF CallDisconnect, TypeOK
  <2> QED
    BY <2>1, <2>2
<1> QED
  BY <1>3 DEF CallDisconnect, TypeOK, DataOK, BoundsOK, remote, discord, node, bounds

\* The session ends and at most one event more is on its way.
LEMMA EndSessionType ==
  ASSUME TypeOK, NEW r \in {"requested", "connection_failed", "connection_lost"},
         EndSession(r)
  PROVE  nodeVoice' \in Maybe /\ events' \in Seq(NodeEvent)
<1>1. VoiceDisconnected(r) \in NodeEvent
  BY DEF VoiceDisconnected, NodeEvent
<1> QED
  BY <1>1 DEF EndSession, TypeOK, DataOK, Maybe

LEMMA SetBotChannelType ==
  ASSUME TypeOK, NEW c \in Maybe, SetBotChannel(c)
  PROVE  botChannel' \in Maybe /\ BagToSet(spawned') \subseteq GatewayEvent
<1>1. VoiceState(c) \in GatewayEvent /\ VoiceServer(TRUE) \in GatewayEvent
  BY DEF VoiceState, VoiceServer, GatewayEvent
<1> DEFINE S == CASE c = None       -> IF botChannel = None THEN {} ELSE {VoiceState(c)}
                  [] c = botChannel -> {VoiceState(c)}
                  [] OTHER          -> {VoiceState(c), VoiceServer(TRUE)}
<1>2. S \subseteq GatewayEvent
  BY <1>1
<1>3. spawned' = spawned (+) SetToBag(S)
  BY DEF SetBotChannel
<1> HIDE DEF S
<1>4. BagToSet(spawned') = BagToSet(spawned) \cup S
  BY <1>3, BagUnionSet
<1> QED
  BY <1>2, <1>4 DEF SetBotChannel, TypeOK, DataOK

-----------------------------------------------------------------------------
(* Types, method by method.                                                *)

LEMMA DisconnectType ==
  ASSUME TypeOK, NEW u \in Users, Disconnect(u)
  PROVE  TypeOK'
<1>1. /\ DisconnectLabels \subseteq UserLabels \ {"idle"}
      /\ "idle" \in UserLabels /\ loc[u] \in Locals
      /\ loc[u].next \in UserLabels
  BY DEF UserLabels, DisconnectLabels, EnsureLabels, TypeOK, ControlOK, Locals
<1>2. CASE /\ pc[u] = "had_voice"
           /\ Move(u, "ask_leave", [loc[u] EXCEPT !.had = player.voice # None])
           /\ UNCHANGED <<player, sent, remote, bounds>>
  <2> DEFINE s == [loc[u] EXCEPT !.had = player.voice # None]
  <2>1. loc[u].command # 0 /\ loc[u].target # None
    BY <1>2 DEF TypeOK, ControlOK
  <2>2. s \in Locals /\ s.command # 0 /\ s.target # None
    BY <1>1, <2>1 DEF Locals
  <2>3. ControlOK'
    BY <1>1, <1>2, <2>2, MoveControl DEF TypeOK, DisconnectLabels
  <2> QED
    BY <1>2, <2>3 DEF TypeOK, DataOK, BoundsOK, remote, discord, node, bounds
<1>3. CASE UpdateVoice(u, "ask_leave", None,
                       IF loc[u].had THEN "rest" ELSE "drop", "idle")
  BY <1>1, <1>3, UpdateVoiceType DEF DisconnectLabels, Maybe
<1>4. CASE /\ pc[u] = "rest"
           /\ \/ EndSession("requested") /\ Goto(u, "drop") /\ UNCHANGED faults
              \/ Fault /\ (EndSession("requested") \/ UNCHANGED node) /\ Goto(u, "idle")
           /\ UNCHANGED <<player, sent, discord, updates, commands, upsets>>
  <2>1. ControlOK'
    BY <1>1, <1>4, GotoControl DEF TypeOK, DisconnectLabels
  <2>2. nodeVoice' \in Maybe /\ events' \in Seq(NodeEvent)
    BY <1>4, EndSessionType DEF TypeOK, DataOK, node
  <2>3. BoundsOK'
    BY <1>4, VoiceBounds DEF Fault, TypeOK, BoundsOK
  <2> QED
    BY <1>4, <2>1, <2>2, <2>3 DEF TypeOK, DataOK, discord
<1>5. CASE ResetStep(u, "drop", loc[u].next)
  BY <1>1, <1>5, ResetStepType DEF DisconnectLabels
<1> QED
  BY <1>2, <1>3, <1>4, <1>5 DEF Disconnect

LEMMA ConnectType ==
  ASSUME TypeOK, NEW u \in Users, Connect(u)
  PROVE  TypeOK'
<1>1. /\ {"connect", "ask_join", "refused", "wait", "had_voice"}
           \subseteq UserLabels \ {"idle"}
      /\ "idle" \in UserLabels
  BY DEF UserLabels, DisconnectLabels, ConnectLabels
<1>2. loc[u] \in Locals /\ (pc[u] # "idle" => loc[u].command # 0 /\ loc[u].target # None)
  BY DEF TypeOK, ControlOK
<1>3. CASE BeginConnect(u)
  <2>1. ControlOK'
    BY <1>1, <1>3, GotoControl DEF BeginConnect, TypeOK
  <2>2. loc[u].command \in 1 .. MaxCommands /\ loc[u].target \in Maybe
    BY <1>2, <1>3, VoiceBounds DEF BeginConnect, Locals
  <2>3. player \in Player
    BY DEF TypeOK, DataOK
  <2>4. player' \in Player
    <3>1. CASE player.connecting
      BY <1>3, <2>3, <3>1 DEF BeginConnect
    <3>2. CASE ~player.connecting
      <4>1. NoPending \in [channel : Maybe, server : BOOLEAN]
        BY DEF NoPending, Maybe
      <4>2. player' = [player EXCEPT
              !.connecting = TRUE, !.pending = NoPending,
              !.channel = loc[u].target,
              !.waiters = player.waiters \cup {loc[u].command}]
        BY <1>3, <3>2 DEF BeginConnect
      <4> QED
        BY <2>2, <2>3, <4>1, <4>2 DEF Player
    <3> QED
      BY <3>1, <3>2
  <2> QED
    BY <1>3, <2>1, <2>4 DEF BeginConnect, TypeOK, DataOK, BoundsOK, remote, discord,
       node, bounds
<1>4. CASE UpdateVoice(u, "ask_join", loc[u].target, "wait", "refused")
  BY <1>1, <1>2, <1>4, UpdateVoiceType DEF Locals
<1>5. CASE FinishConnect(u)
  <2>1. ControlOK'
    BY <1>1, <1>5, GotoControl DEF FinishConnect, TypeOK
  <2>2. player' \in Player /\ sent' \in [1 .. MaxCommands -> Seq({"ok", "failed"})]
    BY <1>5, GiveUpPlayer, AnswerSent DEF FinishConnect, TypeOK, DataOK
  <2> QED
    BY <1>5, <2>1, <2>2 DEF FinishConnect, TypeOK, DataOK, BoundsOK, remote, discord,
       node, bounds
<1>6. CASE AwaitAnswer(u)
  <2>0. pc[u] = "wait" /\ ControlOK
    BY <1>6 DEF AwaitAnswer, TypeOK
  <2>1. ControlOK'
    <3>1. CASE Goto(u, "idle")
      BY <1>1, <2>0, <3>1, GotoControl
    <3>2. CASE Move(u, "had_voice", [loc[u] EXCEPT !.next = "idle"])
      <4> DEFINE s == [loc[u] EXCEPT !.next = "idle"]
      <4>1. s \in Locals /\ s.command # 0 /\ s.target # None
        BY <1>2, <2>0 DEF Locals
      <4>2. Move(u, "had_voice", s)
        BY <3>2
      <4> HIDE DEF s
      <4> QED
        BY <1>1, <2>0, <4>1, <4>2, MoveControl
    <3> QED
      BY <1>6, <3>1, <3>2 DEF AwaitAnswer
  <2> QED
    BY <1>6, <2>1 DEF AwaitAnswer, TypeOK, DataOK, BoundsOK, remote, discord, node, bounds
<1> QED
  BY <1>3, <1>4, <1>5, <1>6 DEF Connect

LEMMA EnsureVoiceType ==
  ASSUME TypeOK, NEW u \in Users, EnsureVoice(u)
  PROVE  TypeOK'
<1>1. /\ EnsureLabels \subseteq UserLabels \ {"idle"}
      /\ "idle" \in UserLabels /\ "connect" \in UserLabels
  BY DEF UserLabels, EnsureLabels, ConnectLabels
<1>2. CASE Branch(u, "ensure", player.voice # None, "channel", "stale")
  BY <1>1, <1>2, BranchType DEF EnsureLabels
<1>3. CASE Branch(u, "channel", player.channel = loc[u].target, "idle", "stale")
  BY <1>1, <1>3, BranchType DEF EnsureLabels
<1>4. CASE CheckDiscord(u)
  BY <1>1, <1>4, BranchType DEF CheckDiscord, EnsureLabels
<1>5. CASE UpdateVoice(u, "ask_fresh", None, "reset", "reset")
  BY <1>1, <1>5, UpdateVoiceType DEF EnsureLabels, Maybe
<1>6. CASE ResetStep(u, "reset", "nap_fresh")
  BY <1>1, <1>6, ResetStepType DEF EnsureLabels
<1>7. CASE Nap(u, "nap_fresh", "previous") \/ Nap(u, "nap_previous", "connect")
  <2>1. ControlOK'
    BY <1>1, <1>7, GotoControl DEF Nap, EnsureLabels, TypeOK
  <2> QED
    BY <1>7, <2>1 DEF Nap, TypeOK, DataOK, BoundsOK, remote, discord, node, bounds
<1>8. CASE CallDisconnect(u, "previous", player.voice # None, "nap_previous", "connect")
  BY <1>1, <1>8, CallDisconnectType DEF EnsureLabels
<1> QED
  BY <1>2, <1>3, <1>4, <1>5, <1>6, <1>7, <1>8 DEF EnsureVoice

LEMMA LeaveType ==
  ASSUME TypeOK, NEW u \in Users, Leave(u)
  PROVE  TypeOK'
BY CallDisconnectType DEF Leave, UserLabels

LEMMA BeginType ==
  ASSUME TypeOK, NEW u \in Users, Begin(u)
  PROVE  TypeOK'
<1>1. PICK c \in Channels, l \in {"ensure", "leave"} :
        Move(u, l, [NoLocals EXCEPT !.command = commands + 1, !.target = c])
  BY DEF Begin
<1> DEFINE s == [NoLocals EXCEPT !.command = commands + 1, !.target = c]
<1>2. commands' = commands + 1 /\ commands + 1 \in 1 .. MaxCommands
  BY VoiceBounds DEF Begin, TypeOK, BoundsOK
<1>3. s \in Locals /\ s.command # 0 /\ s.target # None
  <2>1. NoLocals \in Locals
    BY VoiceBounds DEF NoLocals, Locals, Maybe
  <2>2. commands + 1 \in 0 .. MaxCommands /\ commands + 1 # 0
    BY <1>2, VoiceBounds
  <2> QED
    BY <2>1, <2>2, NoneIsNoChannel DEF Locals, Maybe
<1>4. ControlOK'
  BY <1>1, <1>3, MoveControl DEF TypeOK, UserLabels, EnsureLabels
<1> QED
  BY <1>2, <1>4 DEF Begin, TypeOK, DataOK, BoundsOK, remote, discord, node

LEMMA HandleGatewayEventType ==
  ASSUME TypeOK, HandleGatewayEvent
  PROVE  TypeOK'
<1>1. PICK e \in BagToSet(spawned) :
        /\ spawned' = spawned (-) SetToBag({e})
        /\ IF e \in {VoiceState(None), VoiceServer(FALSE)}
             THEN player' = ResetVoice(player) /\ UNCHANGED <<sent, updates, faults>>
             ELSE TryConnect(IF e.type = "state"
                               THEN [player EXCEPT !.pending.channel = e.channel]
                               ELSE [player EXCEPT !.pending.server = TRUE])
        /\ UNCHANGED <<botChannel, requests, node, pc, loc, commands, upsets>>
  BY DEF HandleGatewayEvent
<1>2. e \in GatewayEvent
  BY DEF TypeOK, DataOK
<1>3. BagToSet(spawned') \subseteq GatewayEvent
  BY <1>1, BagDiffSet DEF TypeOK, DataOK
<1>4. /\ player' \in Player
      /\ sent' \in [1 .. MaxCommands -> Seq({"ok", "failed"})]
      /\ updates' \in Seq(Channels) /\ faults' \in 0 .. MaxFaults
  <2>1. CASE e \in {VoiceState(None), VoiceServer(FALSE)}
    BY <1>1, <2>1, ResetPlayer DEF TypeOK, DataOK, BoundsOK
  <2>2. CASE e \notin {VoiceState(None), VoiceServer(FALSE)}
    <3> DEFINE p == IF e.type = "state"
                      THEN [player EXCEPT !.pending.channel = e.channel]
                      ELSE [player EXCEPT !.pending.server = TRUE]
    <3>1. p \in Player
      BY <1>2 DEF TypeOK, DataOK, Player, GatewayEvent
    <3>2. TryConnect(p)
      BY <1>1, <2>2
    <3> HIDE DEF p
    <3> QED
      BY <3>1, <3>2, TryConnectType DEF TypeOK, BoundsOK
  <2> QED
    BY <2>1, <2>2
<1> QED
  BY <1>1, <1>3, <1>4 DEF TypeOK, DataOK, ControlOK, BoundsOK, node

LEMMA ReaderType ==
  ASSUME TypeOK, OnVoiceConnect \/ OnVoiceDisconnect \/ ResetAfterDisconnect
  PROVE  TypeOK'
<1>1. CASE OnVoiceConnect
  <2>1. player' \in Player /\ sent' \in [1 .. MaxCommands -> Seq({"ok", "failed"})]
    BY <1>1, GiveUpPlayer, AnswerSent DEF OnVoiceConnect, TypeOK, DataOK
  <2>2. events' \in Seq(NodeEvent)
    BY <1>1 DEF OnVoiceConnect, TypeOK, DataOK
  <2> QED
    BY <1>1, <2>1, <2>2 DEF OnVoiceConnect, TypeOK, DataOK, ControlOK, BoundsOK,
       discord, bounds
<1>2. CASE OnVoiceDisconnect
  <2>1. player' \in Player /\ sent' \in [1 .. MaxCommands -> Seq({"ok", "failed"})]
    BY <1>2, AnswerSent DEF OnVoiceDisconnect, TypeOK, DataOK, Player
  <2>2. events' \in Seq(NodeEvent)
    BY <1>2 DEF OnVoiceDisconnect, TypeOK, DataOK
  <2>3. ControlOK'
    BY <1>2, ReaderIsNoUser DEF OnVoiceDisconnect, TypeOK, ControlOK
  <2> QED
    BY <1>2, <2>1, <2>2, <2>3 DEF OnVoiceDisconnect, TypeOK, DataOK, BoundsOK,
       discord, bounds
<1>3. CASE ResetAfterDisconnect
  <2>1. player' \in Player
    BY <1>3, ResetPlayer DEF ResetAfterDisconnect, TypeOK, DataOK
  <2>2. ControlOK'
    BY <1>3, ReaderIsNoUser DEF ResetAfterDisconnect, TypeOK, ControlOK
  <2> QED
    BY <1>3, <2>1, <2>2 DEF ResetAfterDisconnect, TypeOK, DataOK, BoundsOK, remote,
       discord, node, bounds
<1> QED
  BY <1>1, <1>2, <1>3

LEMMA DiscordType ==
  ASSUME TypeOK, DiscordAnswers \/ ModeratorMoves \/ ServerMoves
  PROVE  TypeOK'
<1>1. CASE DiscordAnswers
  <2>1. Head(requests) \in Maybe /\ requests' \in Seq(Maybe)
    BY <1>1 DEF DiscordAnswers, TypeOK, DataOK
  <2>2. botChannel' \in Maybe /\ BagToSet(spawned') \subseteq GatewayEvent
    BY <1>1, <2>1, SetBotChannelType DEF DiscordAnswers
  <2> QED
    BY <1>1, <2>1, <2>2 DEF DiscordAnswers, TypeOK, DataOK, ControlOK, BoundsOK, node,
       bounds
<1>2. CASE ModeratorMoves
  <2>1. botChannel' \in Maybe /\ BagToSet(spawned') \subseteq GatewayEvent
    BY <1>2, SetBotChannelType DEF ModeratorMoves, Maybe
  <2>2. BoundsOK'
    BY <1>2, VoiceBounds DEF ModeratorMoves, Upset, TypeOK, BoundsOK
  <2> QED
    BY <1>2, <2>1, <2>2 DEF ModeratorMoves, TypeOK, DataOK, ControlOK, node
<1>3. CASE ServerMoves
  <2> DEFINE S == {VoiceServer(FALSE), VoiceServer(TRUE)}
  <2>1. S \subseteq GatewayEvent
    BY DEF VoiceServer, GatewayEvent
  <2>2. BagToSet(spawned') = BagToSet(spawned) \cup S
    BY <1>3, BagUnionSet DEF ServerMoves
  <2>3. nodeVoice' \in Maybe /\ events' \in Seq(NodeEvent)
    BY <1>3, EndSessionType DEF ServerMoves
  <2>4. BoundsOK'
    BY <1>3, VoiceBounds DEF ServerMoves, Upset, TypeOK, BoundsOK
  <2> HIDE DEF S
  <2> QED
    BY <1>3, <2>1, <2>2, <2>3, <2>4 DEF ServerMoves, TypeOK, DataOK, ControlOK
<1> QED
  BY <1>1, <1>2, <1>3

LEMMA NodeType ==
  ASSUME TypeOK, NodeConnects \/ NodeLoses
  PROVE  TypeOK'
<1>1. BoundsOK'
  BY VoiceBounds DEF NodeConnects, NodeLoses, Upset, TypeOK, BoundsOK
<1>2. CASE NodeConnects
  <2>1. Head(updates) \in Channels /\ updates' \in Seq(Channels)
    BY <1>2 DEF NodeConnects, TypeOK, DataOK
  <2>2. /\ VoiceConnected(Head(updates)) \in NodeEvent
        /\ VoiceDisconnected("connection_failed") \in NodeEvent
    BY <2>1 DEF VoiceConnected, VoiceDisconnected, NodeEvent
  <2>3. nodeVoice' \in Maybe /\ events' \in Seq(NodeEvent)
    <3>1. events \in Seq(NodeEvent)
      BY DEF TypeOK, DataOK
    <3>2. \/ /\ nodeVoice' = Head(updates)
             /\ events' = Append(events, VoiceConnected(Head(updates)))
          \/ /\ nodeVoice' = None
             /\ events' = Append(events, VoiceDisconnected("connection_failed"))
      BY <1>2 DEF NodeConnects
    <3>3. nodeVoice' \in Maybe
      BY <2>1, <3>2 DEF Maybe
    <3>4. \A e \in NodeEvent : Append(events, e) \in Seq(NodeEvent)
      BY <3>1
    <3> QED
      BY <2>2, <3>2, <3>3, <3>4
  <2> QED
    BY <1>1, <1>2, <2>1, <2>3 DEF NodeConnects, TypeOK, DataOK, ControlOK, discord
<1>3. CASE NodeLoses
  <2>1. nodeVoice' \in Maybe /\ events' \in Seq(NodeEvent)
    BY <1>3, EndSessionType DEF NodeLoses
  <2> QED
    BY <1>1, <1>3, <2>1 DEF NodeLoses, TypeOK, DataOK, ControlOK, discord
<1> QED
  BY <1>2, <1>3

\* Every variable keeps its type for any users, channels and bounds.
THEOREM VoiceTypes == Spec => []TypeOK
<1>1. Init => TypeOK
  <2> SUFFICES ASSUME Init PROVE TypeOK
    OBVIOUS
  <2>1. NewPlayer \in Player /\ NoLocals \in Locals
    BY VoiceBounds DEF NewPlayer, Player, NoPending, NoLocals, Locals, Maybe
  <2>2. BagToSet(spawned) = {}
    BY DEF Init, EmptyBag, SetToBag, BagToSet
  <2>3. DataOK
    BY <2>1, <2>2 DEF Init, DataOK, Maybe
  <2>4. ControlOK
    BY <2>1, ReaderIsNoUser DEF Init, ControlOK, UserLabels
  <2> QED
    BY <2>3, <2>4, VoiceBounds DEF Init, TypeOK, BoundsOK
<1>2. TypeOK /\ [Next]_vars => TypeOK'
  <2> SUFFICES ASSUME TypeOK, [Next]_vars PROVE TypeOK'
    OBVIOUS
  <2>1. CASE UNCHANGED vars
    BY <2>1 DEF vars, remote, discord, node, bounds, TypeOK, DataOK, ControlOK, BoundsOK
  <2>2. ASSUME NEW u \in Users,
               Begin(u) \/ EnsureVoice(u) \/ Connect(u) \/ Disconnect(u) \/ Leave(u)
        PROVE  TypeOK'
    BY <2>2, BeginType, EnsureVoiceType, ConnectType, DisconnectType, LeaveType
  <2> QED
    BY <2>1, <2>2, HandleGatewayEventType, ReaderType, DiscordType, NodeType DEF Next
<1> QED
  BY <1>1, <1>2, PTL DEF Spec

-----------------------------------------------------------------------------
(* AnsweredOnce.  Alone it is not inductive: it takes that no waiter has   *)
(* been sent anything, that a command which has yet to begin its Connect   *)
(* is no waiter, and that no two commands share a channel.                 *)

\* Connect has yet to begin.
Fresh(l, s) == \/ l \in EnsureLabels \cup {"connect"}
               \/ l \in DisconnectLabels /\ s.next = "nap_previous"

AnswerInv ==
  /\ \A n \in player.waiters : n <= commands /\ sent[n] = <<>>
  /\ \A n \in 1 .. MaxCommands :
       Len(sent[n]) <= 1 /\ (n > commands => sent[n] = <<>>)
  /\ \A u \in Users : loc[u].command <= commands
  /\ \A u \in Users : Fresh(pc[u], loc[u]) =>
       loc[u].command \notin player.waiters /\ sent[loc[u].command] = <<>>
  /\ \A u, v \in Users : u # v /\ pc[u] # "idle" /\ pc[v] # "idle" =>
       loc[u].command # loc[v].command

\* No command becomes another one, begins, or has yet to begin its Connect when
\* it had begun it.
ControlKept ==
  \A u \in Users :
    /\ loc'[u].command \in {0, loc[u].command}
    /\ pc'[u] # "idle" => pc[u] # "idle" /\ loc'[u].command = loc[u].command
    /\ Fresh(pc'[u], loc'[u]) => Fresh(pc[u], loc[u])

LEMMA MoveKept ==
  ASSUME ControlOK, NEW u \in Users, NEW l, NEW s, pc[u] # "idle",
         s.command = loc[u].command, Fresh(l, s) => Fresh(pc[u], loc[u]),
         Move(u, l, s)
  PROVE  ControlKept
<1>1. ~Fresh("idle", NoLocals) /\ NoLocals.command = 0
  BY DEF Fresh, EnsureLabels, DisconnectLabels, NoLocals
<1>2. \A v \in Users :
        /\ pc'[v] = IF v = u THEN l ELSE pc[v]
        /\ loc'[v] = IF v = u THEN IF l = "idle" THEN NoLocals ELSE s ELSE loc[v]
  BY DEF Move, ControlOK
<1> QED
  BY <1>1, <1>2 DEF ControlKept

LEMMA GotoKept ==
  ASSUME ControlOK, NEW u \in Users, NEW l, pc[u] # "idle",
         Fresh(l, loc[u]) => Fresh(pc[u], loc[u]), Goto(u, l)
  PROVE  ControlKept
BY MoveKept DEF Goto

LEMMA StillKept ==
  ASSUME \A u \in Users : pc'[u] = pc[u] /\ loc'[u] = loc[u]
  PROVE  ControlKept
BY DEF ControlKept

LEMMA AnswerLength ==
  ASSUME NEW s \in Seq({"ok", "failed"}), s = <<>>, NEW r \in {"ok", "failed"}
  PROVE  Len(Append(s, r)) = 1
<1>1. Len(Append(s, r)) = Len(s) + 1
  BY AppendProperties
<1>2. Len(s) = 0
  BY EmptySeq
<1> QED
  BY <1>1, <1>2

\* Steps that begin neither a command nor a Connect: whoever is answered is no
\* longer waiting.
Harmless ==
  /\ commands' = commands
  /\ ControlKept
  /\ \/ sent' = sent /\ player'.waiters \subseteq player.waiters
     \/ /\ player'.waiters = {}
        /\ Answer("ok") \/ Answer("failed")

LEMMA AnswerKept ==
  ASSUME TypeOK, TypeOK', AnswerInv, Harmless
  PROVE  AnswerInv'
<1>1. player.waiters \subseteq 1 .. MaxCommands
  BY DEF TypeOK, DataOK, Player
<1>2. \A u \in Users : loc[u].command \in 0 .. MaxCommands
  BY DEF TypeOK, ControlOK, Locals
<1>3. commands \in Nat
  BY VoiceBounds DEF TypeOK, BoundsOK
<1>4. \A u \in Users : Fresh(pc[u], loc[u]) => loc[u].command \in 1 .. MaxCommands
  <2> SUFFICES ASSUME NEW u \in Users, Fresh(pc[u], loc[u])
               PROVE  loc[u].command \in 1 .. MaxCommands
    OBVIOUS
  <2>1. pc[u] # "idle"
    BY DEF Fresh, EnsureLabels, DisconnectLabels
  <2> QED
    BY <1>2, <2>1, VoiceBounds DEF TypeOK, ControlOK
<1>5. /\ \A n \in player'.waiters : n <= commands /\ sent'[n] = <<>>
      /\ \A n \in 1 .. MaxCommands :
           Len(sent'[n]) <= 1 /\ (n > commands => sent'[n] = <<>>)
      /\ \A n \in 1 .. MaxCommands :
           sent[n] = <<>> /\ n \notin player.waiters =>
             sent'[n] = <<>> /\ n \notin player'.waiters
  <2>1. CASE sent' = sent /\ player'.waiters \subseteq player.waiters
    BY <2>1 DEF AnswerInv
  <2>2. CASE player'.waiters = {} /\ (Answer("ok") \/ Answer("failed"))
    <3>1. PICK r \in {"ok", "failed"} : Answer(r)
      BY <2>2
    <3>2. \A n \in 1 .. MaxCommands :
            sent'[n] = IF n \in player.waiters THEN Append(sent[n], r) ELSE sent[n]
      BY <3>1, AnswerSent DEF TypeOK
    <3>3. \A n \in 1 .. MaxCommands : n \in player.waiters =>
            Len(sent'[n]) = 1
      <4> SUFFICES ASSUME NEW n \in 1 .. MaxCommands, n \in player.waiters
                   PROVE  Len(sent'[n]) = 1
        OBVIOUS
      <4>1. sent[n] \in Seq({"ok", "failed"})
        BY DEF TypeOK, DataOK
      <4>2. sent[n] = <<>>
        BY DEF AnswerInv
      <4> QED
        BY <3>2, <4>1, <4>2, AnswerLength
    <3>4. \A n \in 1 .. MaxCommands : n \notin player.waiters => sent'[n] = sent[n]
      BY <3>2
    <3>5. \A n \in 1 .. MaxCommands : Len(sent'[n]) <= 1
      <4> SUFFICES ASSUME NEW n \in 1 .. MaxCommands
                   PROVE  Len(sent'[n]) <= 1
        OBVIOUS
      <4>1. CASE n \in player.waiters
        <5>1. Len(sent'[n]) = 1
          BY <3>3, <4>1
        <5> QED
          BY <5>1
      <4>2. CASE n \notin player.waiters
        BY <3>4, <4>2 DEF AnswerInv
      <4> QED
        BY <4>1, <4>2
    <3>6. \A n \in 1 .. MaxCommands : n > commands =>
            n \notin player.waiters /\ sent'[n] = <<>>
      BY <1>3, <3>4 DEF AnswerInv
    <3>7. \A n \in 1 .. MaxCommands :
            sent[n] = <<>> /\ n \notin player.waiters =>
              sent'[n] = <<>> /\ n \notin player'.waiters
      BY <2>2, <3>4
    <3> QED
      BY <2>2, <3>5, <3>6, <3>7
  <2> QED
    BY <2>1, <2>2 DEF Harmless
<1>6. \A u \in Users : loc'[u].command <= commands
  BY <1>3 DEF ControlKept, AnswerInv, Harmless
<1>7. \A u \in Users : Fresh(pc'[u], loc'[u]) =>
        loc'[u].command \notin player'.waiters /\ sent'[loc'[u].command] = <<>>
  <2> SUFFICES ASSUME NEW u \in Users, Fresh(pc'[u], loc'[u])
               PROVE  loc'[u].command \notin player'.waiters
                        /\ sent'[loc'[u].command] = <<>>
    OBVIOUS
  <2>1. pc'[u] # "idle"
    BY DEF Fresh, EnsureLabels, DisconnectLabels
  <2>2. Fresh(pc[u], loc[u]) /\ loc'[u].command = loc[u].command
    BY <2>1 DEF ControlKept, Harmless
  <2> QED
    BY <1>4, <1>5, <2>2 DEF AnswerInv
<1>8. \A u, v \in Users : u # v /\ pc'[u] # "idle" /\ pc'[v] # "idle" =>
        loc'[u].command # loc'[v].command
  BY DEF ControlKept, AnswerInv, Harmless
<1> QED
  BY <1>5, <1>6, <1>7, <1>8 DEF AnswerInv, Harmless

LEMMA BeginConnectAnswer ==
  ASSUME TypeOK, TypeOK', AnswerInv, NEW u \in Users, BeginConnect(u)
  PROVE  AnswerInv'
<1>1. pc[u] = "connect" /\ Fresh(pc[u], loc[u])
  BY DEF BeginConnect, Fresh
<1>2. sent' = sent /\ commands' = commands
  BY DEF BeginConnect, bounds
<1>3. CASE player.connecting
  <2>1. ControlKept
    BY <1>1, <1>3, GotoKept DEF BeginConnect, TypeOK, Fresh, EnsureLabels,
       DisconnectLabels
  <2> QED
    BY <1>2, <1>3, <2>1, AnswerKept DEF BeginConnect, Harmless
<1>4. CASE ~player.connecting
  <2>1. player'.waiters = player.waiters \cup {loc[u].command}
    BY <1>4 DEF BeginConnect, TypeOK, DataOK, Player
  <2>2. Goto(u, "ask_join")
    BY <1>4 DEF BeginConnect
  <2>3. ControlKept
    BY <1>1, <2>2, GotoKept DEF TypeOK
  <2>4. pc'[u] = "ask_join" /\ loc'[u].command = loc[u].command
    BY <2>2 DEF Goto, Move, TypeOK, ControlOK
  <2>5. ~Fresh(pc'[u], loc'[u])
    BY <2>4 DEF Fresh, EnsureLabels, DisconnectLabels
  <2>6. \A v \in Users : Fresh(pc'[v], loc'[v]) =>
          /\ v # u /\ pc[v] # "idle" /\ Fresh(pc[v], loc[v])
          /\ loc'[v].command = loc[v].command
    BY <2>3, <2>5 DEF ControlKept, Fresh, EnsureLabels, DisconnectLabels
  <2>7. \A v \in Users : Fresh(pc'[v], loc'[v]) =>
          loc'[v].command \notin player'.waiters /\ sent[loc'[v].command] = <<>>
    BY <1>1, <2>1, <2>6 DEF AnswerInv
  <2>8. \A n \in player'.waiters : n <= commands /\ sent[n] = <<>>
    BY <1>1, <2>1 DEF AnswerInv
  <2>9. \A v \in Users : loc'[v].command <= commands
    BY <2>3, VoiceBounds DEF ControlKept, AnswerInv, TypeOK, BoundsOK
  <2>10. \A v, w \in Users : v # w /\ pc'[v] # "idle" /\ pc'[w] # "idle" =>
           loc'[v].command # loc'[w].command
    BY <2>3 DEF ControlKept, AnswerInv
  <2>11. \A n \in 1 .. MaxCommands :
           Len(sent[n]) <= 1 /\ (n > commands => sent[n] = <<>>)
    BY DEF AnswerInv
  <2> QED
    BY <1>2, <2>7, <2>8, <2>9, <2>10, <2>11 DEF AnswerInv
<1> QED
  BY <1>3, <1>4

LEMMA BeginAnswer ==
  ASSUME TypeOK, TypeOK', AnswerInv, NEW u \in Users, Begin(u)
  PROVE  AnswerInv'
<1>1. PICK c \in Channels, l \in {"ensure", "leave"} :
        Move(u, l, [NoLocals EXCEPT !.command = commands + 1, !.target = c])
  BY DEF Begin
<1>2. /\ commands' = commands + 1 /\ commands \in Nat
      /\ commands + 1 \in 1 .. MaxCommands
      /\ player' = player /\ sent' = sent
  BY VoiceBounds DEF Begin, TypeOK, BoundsOK
<1>3. /\ loc'[u].command = commands + 1
      /\ \A v \in Users : v # u => pc'[v] = pc[v] /\ loc'[v] = loc[v]
  BY <1>1 DEF Move, TypeOK, ControlOK, NoLocals
<1>4. \A n \in player.waiters : n \in 1 .. MaxCommands /\ n <= commands
  BY DEF AnswerInv, TypeOK, DataOK, Player
<1>5. commands + 1 \notin player.waiters /\ sent[commands + 1] = <<>>
  <2>1. commands + 1 > commands
    BY <1>2
  <2> QED
    BY <1>2, <1>4, <2>1 DEF AnswerInv
<1>6. \A v \in Users : loc[v].command \in Nat /\ loc[v].command <= commands
  BY VoiceBounds DEF AnswerInv, TypeOK, ControlOK, Locals
<1>7. \A n \in player'.waiters : n <= commands' /\ sent'[n] = <<>>
  BY <1>2, <1>4 DEF AnswerInv
<1>8. \A n \in 1 .. MaxCommands :
        Len(sent'[n]) <= 1 /\ (n > commands' => sent'[n] = <<>>)
  BY <1>2 DEF AnswerInv
<1>9. \A v \in Users : loc'[v].command <= commands'
  BY <1>2, <1>3, <1>6
<1>10. \A v \in Users : Fresh(pc'[v], loc'[v]) =>
         loc'[v].command \notin player'.waiters /\ sent'[loc'[v].command] = <<>>
  BY <1>2, <1>3, <1>5 DEF AnswerInv
<1>11. \A v, w \in Users : v # w /\ pc'[v] # "idle" /\ pc'[w] # "idle" =>
         loc'[v].command # loc'[w].command
  BY <1>2, <1>3, <1>6 DEF AnswerInv
<1> QED
  BY <1>7, <1>8, <1>9, <1>10, <1>11 DEF AnswerInv

LEMMA ResetWaiters ==
  ASSUME NEW p \in Player
  PROVE  ResetVoice(p).waiters = p.waiters
BY DEF ResetVoice, NewPlayer

LEMMA BranchHarmless ==
  ASSUME TypeOK, NEW u \in Users, NEW from, from # "idle", NEW cond, NEW yes, NEW no,
         Fresh(yes, loc[u]) => Fresh(from, loc[u]),
         Fresh(no, loc[u]) => Fresh(from, loc[u]),
         Branch(u, from, cond, yes, no)
  PROVE  Harmless
<1>1. ControlKept
  BY GotoKept DEF Branch, TypeOK
<1> QED
  BY <1>1 DEF Branch, Harmless, bounds

LEMMA UpdateVoiceHarmless ==
  ASSUME TypeOK, NEW u \in Users, NEW from, from # "idle", NEW c, NEW l, NEW failed,
         Fresh(l, loc[u]) => Fresh(from, loc[u]),
         Fresh(failed, loc[u]) => Fresh(from, loc[u]),
         UpdateVoice(u, from, c, l, failed)
  PROVE  Harmless
<1>1. ControlKept
  BY GotoKept DEF UpdateVoice, TypeOK
<1> QED
  BY <1>1 DEF UpdateVoice, Harmless

LEMMA ResetStepHarmless ==
  ASSUME TypeOK, NEW u \in Users, NEW from, from # "idle", NEW l,
         Fresh(l, loc[u]) => Fresh(from, loc[u]), ResetStep(u, from, l)
  PROVE  Harmless
<1>1. ControlKept
  BY GotoKept DEF ResetStep, TypeOK
<1>2. player'.waiters = player.waiters
  BY ResetWaiters DEF ResetStep, TypeOK, DataOK
<1> QED
  BY <1>1, <1>2 DEF ResetStep, Harmless, bounds

LEMMA CallDisconnectHarmless ==
  ASSUME TypeOK, NEW u \in Users, NEW from, from # "idle", NEW cond, NEW l, NEW else,
         l = "nap_previous" => Fresh(from, loc[u]),
         Fresh(else, loc[u]) => Fresh(from, loc[u]),
         CallDisconnect(u, from, cond, l, else)
  PROVE  Harmless
<1> DEFINE s == [loc[u] EXCEPT !.next = l]
<1>1. loc[u] \in Locals
  BY DEF TypeOK, ControlOK
<1>2. s.command = loc[u].command /\ s.next = l
  BY <1>1 DEF Locals
<1>3. Fresh("had_voice", s) => Fresh(from, loc[u])
  BY <1>2 DEF Fresh, EnsureLabels
<1> HIDE DEF s
<1>4. CASE cond
  <2>1. Move(u, "had_voice", s) /\ pc[u] # "idle" /\ pc[u] = from
    BY <1>4 DEF CallDisconnect, s
  <2>2. ControlKept
    BY <1>2, <1>3, <2>1, MoveKept DEF TypeOK
  <2> QED
    BY <2>2 DEF CallDisconnect, Harmless, bounds
<1>5. CASE ~cond
  <2>1. Goto(u, else) /\ pc[u] # "idle" /\ pc[u] = from
    BY <1>5 DEF CallDisconnect
  <2>2. ControlKept
    BY <2>1, GotoKept DEF TypeOK
  <2> QED
    BY <2>2 DEF CallDisconnect, Harmless, bounds
<1> QED
  BY <1>4, <1>5

LEMMA DisconnectHarmless ==
  ASSUME TypeOK, NEW u \in Users, Disconnect(u)
  PROVE  Harmless
<1>1. /\ ~Fresh("idle", loc[u])
      /\ \A l, m \in DisconnectLabels : Fresh(l, loc[u]) => Fresh(m, loc[u])
      /\ Fresh("nap_previous", loc[u]) /\ loc[u].next = "nap_previous"
           => Fresh("drop", loc[u])
  BY DEF Fresh, EnsureLabels, DisconnectLabels
<1>2. loc[u] \in Locals
  BY DEF TypeOK, ControlOK
<1>3. CASE pc[u] = "had_voice"
  <2> DEFINE s == [loc[u] EXCEPT !.had = player.voice # None]
  <2>1. /\ Move(u, "ask_leave", s)
        /\ player' = player /\ sent' = sent /\ commands' = commands
    BY <1>3 DEF Disconnect, UpdateVoice, ResetStep, bounds
  <2>2. s.command = loc[u].command /\ s.next = loc[u].next
    BY <1>2 DEF Locals
  <2>3. Fresh("ask_leave", s) => Fresh("had_voice", loc[u])
    BY <2>2 DEF Fresh, EnsureLabels, DisconnectLabels
  <2> HIDE DEF s
  <2>4. ControlKept
    BY <1>3, <2>1, <2>2, <2>3, MoveKept DEF TypeOK
  <2> QED
    BY <2>1, <2>4 DEF Harmless
<1>4. CASE pc[u] = "ask_leave"
  <2>1. UpdateVoice(u, "ask_leave", None, IF loc[u].had THEN "rest" ELSE "drop", "idle")
    BY <1>4 DEF Disconnect, ResetStep
  <2>2. Fresh(IF loc[u].had THEN "rest" ELSE "drop", loc[u]) =>
          Fresh("ask_leave", loc[u])
    BY DEF Fresh, EnsureLabels, DisconnectLabels
  <2> QED
    BY <1>1, <2>1, <2>2, UpdateVoiceHarmless
<1>5. CASE pc[u] = "rest"
  <2>1. /\ Goto(u, "drop") \/ Goto(u, "idle")
        /\ player' = player /\ sent' = sent /\ commands' = commands
    BY <1>5 DEF Disconnect, UpdateVoice, ResetStep
  <2>2. Fresh("drop", loc[u]) => Fresh("rest", loc[u])
    BY DEF Fresh, EnsureLabels, DisconnectLabels
  <2>3. ControlKept
    BY <1>1, <1>5, <2>1, <2>2, GotoKept DEF TypeOK
  <2> QED
    BY <2>1, <2>3 DEF Harmless
<1>6. CASE pc[u] = "drop"
  <2>1. ResetStep(u, "drop", loc[u].next)
    BY <1>6 DEF Disconnect, UpdateVoice
  <2>2. Fresh(loc[u].next, loc[u]) => Fresh("drop", loc[u])
    BY <1>1, <1>2 DEF Locals
  <2> QED
    BY <2>1, <2>2, ResetStepHarmless
<1> QED
  BY <1>3, <1>4, <1>5, <1>6 DEF Disconnect, UpdateVoice, ResetStep

LEMMA ConnectHarmless ==
  ASSUME TypeOK, NEW u \in Users, Connect(u), ~BeginConnect(u)
  PROVE  Harmless
<1>1. \A l \in {"idle", "wait", "refused"} : ~Fresh(l, loc[u])
  BY DEF Fresh, EnsureLabels, DisconnectLabels
<1>2. CASE UpdateVoice(u, "ask_join", loc[u].target, "wait", "refused")
  BY <1>1, <1>2, UpdateVoiceHarmless
<1>3. CASE FinishConnect(u)
  <2>1. ControlKept
    BY <1>1, <1>3, GotoKept DEF FinishConnect, TypeOK
  <2>2. player'.waiters = {}
    BY <1>3 DEF FinishConnect, GiveUp, TypeOK, DataOK, Player
  <2> QED
    BY <1>3, <2>1, <2>2 DEF FinishConnect, Harmless, bounds
<1>4. CASE AwaitAnswer(u)
  <2> DEFINE s == [loc[u] EXCEPT !.next = "idle"]
  <2>1. loc[u] \in Locals
    BY DEF TypeOK, ControlOK
  <2>2. s.command = loc[u].command /\ s.next = "idle"
    BY <2>1 DEF Locals
  <2>3. ~Fresh("had_voice", s)
    BY <2>2 DEF Fresh, EnsureLabels
  <2>4. Goto(u, "idle") \/ Move(u, "had_voice", s)
    BY <1>4 DEF AwaitAnswer
  <2> HIDE DEF s
  <2>5. ControlKept
    BY <1>1, <1>4, <2>2, <2>3, <2>4, GotoKept, MoveKept DEF AwaitAnswer, TypeOK
  <2> QED
    BY <1>4, <2>5 DEF AwaitAnswer, Harmless, bounds
<1> QED
  BY <1>2, <1>3, <1>4 DEF Connect

LEMMA EnsureVoiceHarmless ==
  ASSUME TypeOK, NEW u \in Users, EnsureVoice(u)
  PROVE  Harmless
<1>1. \A l \in EnsureLabels : Fresh(l, loc[u])
  BY DEF Fresh
<1>2. ~Fresh("idle", loc[u])
  BY DEF Fresh, EnsureLabels, DisconnectLabels
<1>3. CASE \/ Branch(u, "ensure", player.voice # None, "channel", "stale")
           \/ Branch(u, "channel", player.channel = loc[u].target, "idle", "stale")
  BY <1>1, <1>2, <1>3, BranchHarmless DEF EnsureLabels
<1>4. CASE CheckDiscord(u)
  <2>1. Fresh("stale", loc[u]) /\ Fresh("unknown", loc[u])
    BY <1>1 DEF EnsureLabels
  <2> QED
    BY <1>4, <2>1, BranchHarmless DEF CheckDiscord
<1>5. CASE UpdateVoice(u, "ask_fresh", None, "reset", "reset")
  BY <1>1, <1>5, UpdateVoiceHarmless DEF EnsureLabels
<1>6. CASE ResetStep(u, "reset", "nap_fresh")
  BY <1>1, <1>6, ResetStepHarmless DEF EnsureLabels
<1>7. CASE Nap(u, "nap_fresh", "previous") \/ Nap(u, "nap_previous", "connect")
  <2>1. Fresh("nap_fresh", loc[u]) /\ Fresh("nap_previous", loc[u])
    BY <1>1 DEF EnsureLabels
  <2>2. ControlKept
    BY <1>2, <1>7, <2>1, GotoKept DEF Nap, TypeOK
  <2> QED
    BY <1>7, <2>2 DEF Nap, Harmless, bounds
<1>8. CASE CallDisconnect(u, "previous", player.voice # None, "nap_previous", "connect")
  <2>1. Fresh("previous", loc[u])
    BY <1>1 DEF EnsureLabels
  <2> QED
    BY <1>8, <2>1, CallDisconnectHarmless
<1> QED
  BY <1>3, <1>4, <1>5, <1>6, <1>7, <1>8 DEF EnsureVoice

LEMMA LeaveHarmless ==
  ASSUME TypeOK, NEW u \in Users, Leave(u)
  PROVE  Harmless
<1>1. ~Fresh("idle", loc[u]) /\ ~Fresh("leave_connected", loc[u])
  BY DEF Fresh, EnsureLabels, DisconnectLabels
<1> QED
  BY <1>1, CallDisconnectHarmless DEF Leave

LEMMA HandleGatewayEventHarmless ==
  ASSUME TypeOK, HandleGatewayEvent
  PROVE  Harmless
<1>1. PICK e \in BagToSet(spawned) :
        IF e \in {VoiceState(None), VoiceServer(FALSE)}
          THEN player' = ResetVoice(player) /\ UNCHANGED <<sent, updates, faults>>
          ELSE TryConnect(IF e.type = "state"
                            THEN [player EXCEPT !.pending.channel = e.channel]
                            ELSE [player EXCEPT !.pending.server = TRUE])
  BY DEF HandleGatewayEvent
<1>2. commands' = commands /\ ControlKept
  BY StillKept DEF HandleGatewayEvent
<1>3. player \in Player
  BY DEF TypeOK, DataOK
<1>4. CASE e \in {VoiceState(None), VoiceServer(FALSE)}
  BY <1>1, <1>2, <1>3, <1>4, ResetWaiters DEF Harmless
<1>5. CASE e \notin {VoiceState(None), VoiceServer(FALSE)}
  <2>1. PICK p : /\ p \in {[player EXCEPT !.pending.channel = e.channel],
                           [player EXCEPT !.pending.server = TRUE]}
                 /\ TryConnect(p)
    BY <1>1, <1>5
  <2>2. p.waiters = player.waiters
    BY <1>3, <2>1 DEF Player
  <2>3. /\ Credentials(p).waiters = p.waiters
        /\ ResetVoice(GiveUp(p)).waiters = {}
    BY <1>3, <2>1 DEF Player, Credentials, ResetVoice, GiveUp, NewPlayer
  <2> QED
    BY <1>2, <2>1, <2>2, <2>3 DEF TryConnect, Harmless
<1> QED
  BY <1>4, <1>5

LEMMA ReaderHarmless ==
  ASSUME TypeOK, OnVoiceConnect \/ OnVoiceDisconnect \/ ResetAfterDisconnect
  PROVE  Harmless
<1>1. commands' = commands /\ loc' = loc
  BY DEF OnVoiceConnect, OnVoiceDisconnect, ResetAfterDisconnect, bounds
<1>2. \A u \in Users : pc'[u] = pc[u]
  BY ReaderIsNoUser DEF OnVoiceConnect, OnVoiceDisconnect, ResetAfterDisconnect,
     TypeOK, ControlOK
<1>3. ControlKept
  BY <1>1, <1>2, StillKept
<1>4. player \in Player
  BY DEF TypeOK, DataOK
<1>5. CASE OnVoiceConnect
  <2>1. player'.waiters = {} /\ Answer("ok")
    BY <1>4, <1>5 DEF OnVoiceConnect, GiveUp, Player
  <2> QED
    BY <1>1, <1>3, <2>1 DEF Harmless
<1>6. CASE OnVoiceDisconnect
  <2>1. player'.waiters = {} /\ (Answer("failed") \/ sent' = sent)
    BY <1>4, <1>6 DEF OnVoiceDisconnect, Player
  <2> QED
    BY <1>1, <1>3, <2>1 DEF Harmless
<1>7. CASE ResetAfterDisconnect
  <2>1. player'.waiters = player.waiters /\ sent' = sent
    BY <1>4, <1>7, ResetWaiters DEF ResetAfterDisconnect
  <2> QED
    BY <1>1, <1>3, <2>1 DEF Harmless
<1> QED
  BY <1>5, <1>6, <1>7

LEMMA RemoteHarmless ==
  ASSUME TypeOK,
         \/ DiscordAnswers \/ ModeratorMoves \/ ServerMoves
         \/ NodeConnects \/ NodeLoses \/ UNCHANGED vars
  PROVE  Harmless
<1>1. /\ commands' = commands /\ loc' = loc /\ pc' = pc
      /\ player' = player /\ sent' = sent
  BY DEF DiscordAnswers, ModeratorMoves, ServerMoves, NodeConnects, NodeLoses, vars,
     bounds
<1> QED
  BY <1>1, StillKept DEF Harmless

LEMMA AnswersHeld == Spec => []AnswerInv
<1>1. Init => AnswerInv
  <2> SUFFICES ASSUME Init PROVE AnswerInv
    OBVIOUS
  <2>1. \A u \in Users : pc[u] = "idle" /\ loc[u].command = 0
    BY ReaderIsNoUser DEF Init, NoLocals
  <2>2. \A n \in 1 .. MaxCommands : sent[n] = <<>> /\ Len(sent[n]) = 0
    BY DEF Init
  <2>3. player.waiters = {} /\ commands = 0
    BY DEF Init, NewPlayer
  <2>4. ~Fresh("idle", NoLocals) /\ \A u \in Users : ~Fresh(pc[u], loc[u])
    BY <2>1 DEF Fresh, EnsureLabels, DisconnectLabels
  <2> QED
    BY <2>1, <2>2, <2>3, <2>4 DEF AnswerInv
<1>2. TypeOK /\ TypeOK' /\ AnswerInv /\ [Next]_vars => AnswerInv'
  <2> SUFFICES ASSUME TypeOK, TypeOK', AnswerInv, [Next]_vars PROVE AnswerInv'
    OBVIOUS
  <2>1. CASE \E u \in Users : Begin(u) \/ BeginConnect(u)
    BY <2>1, BeginAnswer, BeginConnectAnswer
  <2>2. CASE \E u \in Users : \/ EnsureVoice(u) \/ Disconnect(u) \/ Leave(u)
                              \/ Connect(u) /\ ~BeginConnect(u)
    BY <2>2, AnswerKept, EnsureVoiceHarmless, ConnectHarmless, DisconnectHarmless,
       LeaveHarmless
  <2>3. CASE \/ HandleGatewayEvent
             \/ OnVoiceConnect \/ OnVoiceDisconnect \/ ResetAfterDisconnect
    BY <2>3, AnswerKept, HandleGatewayEventHarmless, ReaderHarmless
  <2>4. CASE \/ DiscordAnswers \/ ModeratorMoves \/ ServerMoves
             \/ NodeConnects \/ NodeLoses \/ UNCHANGED vars
    BY <2>4, AnswerKept, RemoteHarmless
  <2> QED
    BY <2>1, <2>2, <2>3, <2>4 DEF Next
<1> QED
  BY <1>1, <1>2, VoiceTypes, PTL DEF Spec

\* No waiter channel of Connect is sent to twice, whichever of Linkdave's
\* events, failing calls and timeouts meet: who sends has taken the waiters
\* away, and no command waits a second time.
THEOREM ConnectAnsweredOnce == Spec => []AnsweredOnce
<1>1. TypeOK /\ AnswerInv => AnsweredOnce
  BY DEF TypeOK, DataOK, AnswerInv, AnsweredOnce
<1> QED
  BY <1>1, VoiceTypes, AnswersHeld, PTL

-----------------------------------------------------------------------------
(* The connecting flag, as long as no call has failed.                     *)

\* A user on the way to an answer or a timeout, or in Disconnect.
TakesDown(u) ==
  \/ pc[u] \in DisconnectLabels
  \/ pc[u] \in {"ask_join", "wait"} /\ loc[u].command \in player.waiters

ConnectingInv ==
  faults = 0 /\ player.connecting =>
    pc[Reader] = "reset" \/ \E u \in Users : TakesDown(u)

LEMMA MoveTakesDown ==
  ASSUME TypeOK, ConnectingInv, faults' = faults, player' = player,
         NEW u \in Users, NEW l, NEW s, s.command = loc[u].command, Move(u, l, s),
         TakesDown(u) => \/ l \in DisconnectLabels
                         \/ pc[u] = "ask_join" /\ l = "wait"
  PROVE  ConnectingInv'
<1>1. pc'[Reader] = pc[Reader]
  BY ReaderIsNoUser DEF Move, TypeOK, ControlOK
<1>2. \A v \in Users :
        /\ pc'[v] = IF v = u THEN l ELSE pc[v]
        /\ loc'[v] = IF v = u THEN IF l = "idle" THEN NoLocals ELSE s ELSE loc[v]
  BY DEF Move, TypeOK, ControlOK
<1>3. \A v \in Users : TakesDown(v) => TakesDown(v)'
  BY <1>2 DEF TakesDown, DisconnectLabels
<1> QED
  BY <1>1, <1>3 DEF ConnectingInv

LEMMA GotoTakesDown ==
  ASSUME TypeOK, ConnectingInv, faults' = faults, player' = player,
         NEW u \in Users, NEW l, Goto(u, l),
         TakesDown(u) => \/ l \in DisconnectLabels
                         \/ pc[u] = "ask_join" /\ l = "wait"
  PROVE  ConnectingInv'
BY MoveTakesDown DEF Goto

\* Where no call fails and the flag does not change, nor anybody's control.
LEMMA StillTakesDown ==
  ASSUME TypeOK, ConnectingInv, faults' = faults, pc' = pc, loc' = loc,
         player'.connecting => player.connecting /\ player'.waiters = player.waiters
  PROVE  ConnectingInv'
BY DEF ConnectingInv, TakesDown

LEMMA ResetConnecting ==
  ASSUME NEW p
  PROVE  ~ResetVoice(p).connecting
BY DEF ResetVoice, NewPlayer

LEMMA DisconnectConnecting ==
  ASSUME TypeOK, ConnectingInv, NEW u \in Users, Disconnect(u), faults' = faults
  PROVE  ConnectingInv'
<1>1. loc[u] \in Locals
  BY DEF TypeOK, ControlOK
<1>2. faults' # faults + 1
  BY VoiceBounds DEF TypeOK, BoundsOK
<1>3. CASE pc[u] = "had_voice"
  <2> DEFINE s == [loc[u] EXCEPT !.had = player.voice # None]
  <2>1. Move(u, "ask_leave", s) /\ player' = player
    BY <1>3 DEF Disconnect, UpdateVoice, ResetStep
  <2>2. s.command = loc[u].command
    BY <1>1 DEF Locals
  <2> HIDE DEF s
  <2> QED
    BY <2>1, <2>2, MoveTakesDown DEF DisconnectLabels
<1>4. CASE pc[u] = "ask_leave"
  <2>1. Goto(u, IF loc[u].had THEN "rest" ELSE "drop") /\ player' = player
    BY <1>2, <1>4 DEF Disconnect, UpdateVoice, ResetStep, Fault
  <2> QED
    BY <2>1, GotoTakesDown DEF DisconnectLabels
<1>5. CASE pc[u] = "rest"
  <2>1. Goto(u, "drop") /\ player' = player
    BY <1>2, <1>5 DEF Disconnect, UpdateVoice, ResetStep, Fault
  <2> QED
    BY <2>1, GotoTakesDown DEF DisconnectLabels
<1>6. CASE pc[u] = "drop"
  <2>1. player' = ResetVoice(player)
    BY <1>6 DEF Disconnect, UpdateVoice, ResetStep
  <2> QED
    BY <2>1, ResetConnecting DEF ConnectingInv
<1> QED
  BY <1>3, <1>4, <1>5, <1>6 DEF Disconnect, UpdateVoice, ResetStep

LEMMA ConnectConnecting ==
  ASSUME TypeOK, AnswerInv, ConnectingInv, NEW u \in Users, Connect(u), faults' = faults
  PROVE  ConnectingInv'
<1>1. faults' # faults + 1
  BY VoiceBounds DEF TypeOK, BoundsOK
<1>2. player \in Player /\ loc[u] \in Locals
  BY DEF TypeOK, DataOK, ControlOK
<1>3. CASE BeginConnect(u)
  <2>1. ~TakesDown(u)
    BY <1>3 DEF BeginConnect, TakesDown, DisconnectLabels
  <2>2. CASE player.connecting
    BY <1>3, <2>1, <2>2, GotoTakesDown DEF BeginConnect
  <2>3. CASE ~player.connecting
    <3>1. player'.waiters = player.waiters \cup {loc[u].command}
      BY <1>2, <1>3, <2>3 DEF BeginConnect, Player
    <3>2. Goto(u, "ask_join")
      BY <1>3, <2>3 DEF BeginConnect
    <3>3. pc'[u] = "ask_join" /\ loc'[u] = loc[u]
      BY <3>2 DEF Goto, Move, TypeOK, ControlOK
    <3> QED
      BY <3>1, <3>3 DEF ConnectingInv, TakesDown
  <2> QED
    BY <2>2, <2>3
<1>4. CASE UpdateVoice(u, "ask_join", loc[u].target, "wait", "refused")
  <2>1. pc[u] = "ask_join" /\ Goto(u, "wait") /\ player' = player
    BY <1>1, <1>4 DEF UpdateVoice, Fault
  <2> QED
    BY <2>1, GotoTakesDown
<1>5. CASE FinishConnect(u)
  <2>1. ~player'.connecting
    BY <1>2, <1>5 DEF FinishConnect, GiveUp, Player
  <2> QED
    BY <2>1 DEF ConnectingInv
<1>6. CASE AwaitAnswer(u)
  <2> DEFINE s == [loc[u] EXCEPT !.next = "idle"]
  <2>1. player' = player
    BY <1>6 DEF AwaitAnswer
  <2>2. s.command = loc[u].command
    BY <1>2 DEF Locals
  <2>3. sent[loc[u].command] # <<>> => ~TakesDown(u)
    BY <1>6 DEF AwaitAnswer, AnswerInv, TakesDown, DisconnectLabels
  <2>4. \/ sent[loc[u].command] # <<>> /\ Goto(u, "idle")
        \/ Move(u, "had_voice", s)
    BY <1>6 DEF AwaitAnswer
  <2> HIDE DEF s
  <2>5. CASE sent[loc[u].command] # <<>> /\ Goto(u, "idle")
    BY <2>1, <2>3, <2>5, GotoTakesDown
  <2>6. CASE Move(u, "had_voice", s)
    BY <2>1, <2>2, <2>6, MoveTakesDown DEF DisconnectLabels
  <2> QED
    BY <2>4, <2>5, <2>6
<1> QED
  BY <1>3, <1>4, <1>5, <1>6 DEF Connect

\* Steps of a user who is not to take the flag down.
LEMMA OtherConnecting ==
  ASSUME TypeOK, ConnectingInv, NEW u \in Users, faults' = faults,
         Begin(u) \/ EnsureVoice(u) \/ Leave(u)
  PROVE  ConnectingInv'
<1> USE DEF EnsureVoice, CheckDiscord, Leave, Branch, UpdateVoice, ResetStep, Nap,
        CallDisconnect
<1>1. ~TakesDown(u)
  BY DEF Begin, TakesDown, DisconnectLabels
<1>2. loc[u] \in Locals
  BY DEF TypeOK, ControlOK
<1>3. CASE Begin(u)
  <2>1. PICK c \in Channels, l \in {"ensure", "leave"} :
          Move(u, l, [NoLocals EXCEPT !.command = commands + 1, !.target = c])
    BY <1>3 DEF Begin
  <2>2. player' = player
    BY <1>3 DEF Begin
  <2>3. \A v \in Users : v # u => pc'[v] = pc[v] /\ loc'[v] = loc[v]
    BY <2>1 DEF Move, TypeOK, ControlOK
  <2>4. pc'[Reader] = pc[Reader]
    BY <2>1, ReaderIsNoUser DEF Move, TypeOK, ControlOK
  <2>5. \A v \in Users : TakesDown(v) => TakesDown(v)'
    BY <1>1, <2>2, <2>3 DEF TakesDown
  <2> QED
    BY <2>2, <2>4, <2>5 DEF ConnectingInv
<1>4. CASE player' = ResetVoice(player)
  BY <1>4, ResetConnecting DEF ConnectingInv
<1>5. CASE player' = player /\ (EnsureVoice(u) \/ Leave(u))
  <2>1. PICK l, n : \/ Goto(u, l)
                    \/ Move(u, l, [loc[u] EXCEPT !.next = n])
    BY <1>5
  <2>2. [loc[u] EXCEPT !.next = n].command = loc[u].command
    BY <1>2 DEF Locals
  <2> QED
    BY <1>1, <1>5, <2>1, <2>2, GotoTakesDown, MoveTakesDown
<1> QED
  BY <1>3, <1>4, <1>5

LEMMA HandleGatewayEventConnecting ==
  ASSUME TypeOK, ConnectingInv, HandleGatewayEvent, faults' = faults
  PROVE  ConnectingInv'
<1>1. faults' # faults + 1
  BY VoiceBounds DEF TypeOK, BoundsOK
<1>2. PICK e \in BagToSet(spawned) :
        IF e \in {VoiceState(None), VoiceServer(FALSE)}
          THEN player' = ResetVoice(player) /\ UNCHANGED <<sent, updates, faults>>
          ELSE TryConnect(IF e.type = "state"
                            THEN [player EXCEPT !.pending.channel = e.channel]
                            ELSE [player EXCEPT !.pending.server = TRUE])
  BY DEF HandleGatewayEvent
<1>3. pc' = pc /\ loc' = loc
  BY DEF HandleGatewayEvent
<1>4. CASE player' = ResetVoice(player)
  BY <1>4, ResetConnecting DEF ConnectingInv
<1>5. CASE player' # ResetVoice(player)
  <2>1. PICK p : /\ p \in {[player EXCEPT !.pending.channel = e.channel],
                           [player EXCEPT !.pending.server = TRUE]}
                 /\ TryConnect(p)
    BY <1>2, <1>5
  <2>2. player' = p \/ player' = Credentials(p)
    BY <1>1, <2>1 DEF TryConnect, Fault
  <2>3. player'.connecting = player.connecting /\ player'.waiters = player.waiters
    BY <2>1, <2>2 DEF TypeOK, DataOK, Player, Credentials
  <2> QED
    BY <1>3, <2>3, StillTakesDown
<1> QED
  BY <1>4, <1>5

LEMMA ReaderConnecting ==
  ASSUME TypeOK, OnVoiceConnect \/ OnVoiceDisconnect \/ ResetAfterDisconnect
  PROVE  ConnectingInv'
<1>1. CASE OnVoiceConnect
  BY <1>1 DEF OnVoiceConnect, GiveUp, ConnectingInv, TypeOK, DataOK, Player
<1>2. CASE OnVoiceDisconnect
  BY <1>2 DEF OnVoiceDisconnect, ConnectingInv, TypeOK, ControlOK
<1>3. CASE ResetAfterDisconnect
  BY <1>3, ResetConnecting DEF ResetAfterDisconnect, ConnectingInv
<1> QED
  BY <1>1, <1>2, <1>3

LEMMA FaultsCounted ==
  ASSUME TypeOK, [Next]_vars
  PROVE  faults' \in {faults, faults + 1}
BY DEF Next, Begin, EnsureVoice, CheckDiscord, Leave, Branch, UpdateVoice, ResetStep,
   Nap, CallDisconnect, Disconnect, Connect, BeginConnect, FinishConnect, AwaitAnswer,
   HandleGatewayEvent, TryConnect, OnVoiceConnect, OnVoiceDisconnect,
   ResetAfterDisconnect, DiscordAnswers, ModeratorMoves, ServerMoves, NodeConnects,
   NodeLoses, Fault, vars, bounds

LEMMA ConnectingInvariant == Spec => []ConnectingInv
<1>1. Init => ConnectingInv
  BY DEF Init, NewPlayer, ConnectingInv
<1>2. TypeOK /\ AnswerInv /\ ConnectingInv /\ [Next]_vars => ConnectingInv'
  <2> SUFFICES ASSUME TypeOK, AnswerInv, ConnectingInv, [Next]_vars
               PROVE  ConnectingInv'
    OBVIOUS
  <2>1. CASE faults' = faults
    <3>1. CASE \E u \in Users :
                 Begin(u) \/ EnsureVoice(u) \/ Connect(u) \/ Disconnect(u) \/ Leave(u)
      BY <2>1, <3>1, OtherConnecting, ConnectConnecting, DisconnectConnecting
    <3>2. CASE HandleGatewayEvent
      BY <2>1, <3>2, HandleGatewayEventConnecting
    <3>3. CASE OnVoiceConnect \/ OnVoiceDisconnect \/ ResetAfterDisconnect
      BY <3>3, ReaderConnecting
    <3>4. CASE \/ DiscordAnswers \/ ModeratorMoves \/ ServerMoves
               \/ NodeConnects \/ NodeLoses \/ UNCHANGED vars
      <4>1. pc' = pc /\ loc' = loc /\ player' = player
        BY <3>4 DEF DiscordAnswers, ModeratorMoves, ServerMoves, NodeConnects,
           NodeLoses, vars
      <4> QED
        BY <2>1, <4>1, StillTakesDown
    <3> QED
      BY <3>1, <3>2, <3>3, <3>4 DEF Next
  <2>2. CASE faults' = faults + 1
    <3>1. faults' # 0
      BY <2>2, VoiceBounds DEF TypeOK, BoundsOK
    <3> QED
      BY <3>1 DEF ConnectingInv
  <2> QED
    BY <2>1, <2>2, FaultsCounted
<1> QED
  BY <1>1, <1>2, VoiceTypes, AnswersHeld, PTL DEF Spec

\* Until a call fails, the connecting flag does not outlive the Connect that set
\* it: an answer takes it down together with the waiters, a timeout leads into
\* Disconnect.  One that fails leaves the flag to the next voice event.
THEOREM ConnectingEnds == Spec => [](faults = 0 => ConnectingIsUnderWay)
<1>1. ConnectingInv => (faults = 0 => ConnectingIsUnderWay)
  BY DEF ConnectingInv, TakesDown, ConnectingIsUnderWay, UnderWay
<1> QED
  BY <1>1, ConnectingInvariant, VoiceTypes, PTL

-----------------------------------------------------------------------------
(* The pending credentials.                                                *)

LEMMA ResetPending ==
  ASSUME NEW p
  PROVE  ResetVoice(p).pending = NoPending
BY DEF ResetVoice, NewPlayer

LEMMA PlayerOfUser ==
  ASSUME TypeOK, NEW u \in Users,
         Begin(u) \/ EnsureVoice(u) \/ Connect(u) \/ Disconnect(u) \/ Leave(u)
  PROVE  player'.pending \in {player.pending, NoPending}
<1> USE DEF EnsureVoice, CheckDiscord, Leave, Branch, UpdateVoice, ResetStep, Nap,
        CallDisconnect, Disconnect
<1>1. player \in Player
  BY DEF TypeOK, DataOK
<1>2. CASE Begin(u) \/ EnsureVoice(u) \/ Disconnect(u) \/ Leave(u)
  <2>1. player' = player \/ player' = ResetVoice(player)
    BY <1>2 DEF Begin
  <2> QED
    BY <2>1, ResetPending
<1>3. CASE Connect(u)
  BY <1>1, <1>3 DEF Connect, BeginConnect, FinishConnect, AwaitAnswer, GiveUp, Player
<1> QED
  BY <1>2, <1>3

\* Complete credentials never stay in the bot, whatever the order of their
\* halves and whatever resets or Connects come in between: the handler that
\* completes them takes them out.
THEOREM CredentialsNeverStay == Spec => []CredentialsAreSent
<1>1. NoPending.channel = None
  BY DEF NoPending
<1>2. Init => CredentialsAreSent
  BY <1>1 DEF Init, NewPlayer, CredentialsAreSent
<1>3. TypeOK /\ CredentialsAreSent /\ [Next]_vars => CredentialsAreSent'
  <2> SUFFICES ASSUME TypeOK, CredentialsAreSent, [Next]_vars
               PROVE  CredentialsAreSent'
    OBVIOUS
  <2>1. player \in Player
    BY DEF TypeOK, DataOK
  <2>2. CASE player'.pending \in {player.pending, NoPending}
    BY <1>1, <2>2 DEF CredentialsAreSent
  <2>3. CASE \E u \in Users :
               Begin(u) \/ EnsureVoice(u) \/ Connect(u) \/ Disconnect(u) \/ Leave(u)
    BY <2>2, <2>3, PlayerOfUser
  <2>4. CASE HandleGatewayEvent
    <3>1. PICK e, p : \/ player' = ResetVoice(player)
                      \/ /\ p \in {[player EXCEPT !.pending.channel = e.channel],
                                   [player EXCEPT !.pending.server = TRUE]}
                         /\ TryConnect(p)
      BY <2>4 DEF HandleGatewayEvent
    <3>2. CASE player' = ResetVoice(player)
      BY <2>2, <3>2, ResetPending
    <3>3. CASE /\ p \in {[player EXCEPT !.pending.channel = e.channel],
                         [player EXCEPT !.pending.server = TRUE]}
               /\ TryConnect(p)
      <4>1. CASE player' = p /\ ~Complete(p)
        BY <4>1 DEF Complete, CredentialsAreSent
      <4>2. CASE player' = Credentials(p)
        <5>1. player'.pending = NoPending
          BY <2>1, <3>3, <4>2 DEF Credentials, Player
        <5> QED
          BY <2>2, <5>1
      <4>3. CASE player' = ResetVoice(GiveUp(p))
        BY <2>2, <4>3, ResetPending
      <4> QED
        BY <3>3, <4>1, <4>2, <4>3 DEF TryConnect
    <3> QED
      BY <3>1, <3>2, <3>3
  <2>5. CASE OnVoiceConnect \/ OnVoiceDisconnect \/ ResetAfterDisconnect
    <3>1. player'.pending \in {player.pending, NoPending}
      BY <2>1, <2>5, ResetPending DEF OnVoiceConnect, OnVoiceDisconnect,
         ResetAfterDisconnect, GiveUp, Player
    <3> QED
      BY <2>2, <3>1
  <2>6. CASE \/ DiscordAnswers \/ ModeratorMoves \/ ServerMoves
             \/ NodeConnects \/ NodeLoses \/ UNCHANGED vars
    <3>1. player' = player
      BY <2>6 DEF DiscordAnswers, ModeratorMoves, ServerMoves, NodeConnects,
         NodeLoses, vars
    <3> QED
      BY <2>2, <3>1
  <2> QED
    BY <2>3, <2>4, <2>5, <2>6 DEF Next
<1> QED
  BY <1>2, <1>3, VoiceTypes, PTL DEF Spec

-----------------------------------------------------------------------------
(* The session of the player's credentials: they are on their way, or it   *)
(* is there, or its end has still to be read.                              *)

LossUnread == pc[Reader] = "reset" \/ \E i \in DOMAIN events : events[i].type = "disconnect"

SessionInv ==
  player.voice # None =>
    \/ updates # <<>> /\ updates[Len(updates)] = player.voice
    \/ updates = <<>> /\ (nodeVoice = player.voice \/ LossUnread)

\* One more event.
LEMMA EventAppended ==
  ASSUME events \in Seq(NodeEvent), NEW e \in NodeEvent, events' = Append(events, e)
  PROVE  /\ \A i \in DOMAIN events : i \in DOMAIN events' /\ events'[i] = events[i]
         /\ \E i \in DOMAIN events' : events'[i] = e
<1>1. /\ Len(events') = Len(events) + 1 /\ events'[Len(events) + 1] = e
      /\ \A i \in 1 .. Len(events) : events'[i] = events[i]
      /\ events' \in Seq(NodeEvent)
  BY AppendProperties
<1>2. /\ DOMAIN events = 1 .. Len(events) /\ DOMAIN events' = 1 .. Len(events')
      /\ Len(events) \in Nat
  BY <1>1, LenProperties
<1> QED
  BY <1>1, <1>2

\* The end of a session is reported.
LEMMA LossReported ==
  ASSUME DataOK, NEW r \in {"requested", "connection_failed", "connection_lost"},
         events' = Append(events, VoiceDisconnected(r))
  PROVE  LossUnread'
<1>1. VoiceDisconnected(r) \in NodeEvent /\ VoiceDisconnected(r).type = "disconnect"
  BY DEF VoiceDisconnected, NodeEvent
<1>2. \E i \in DOMAIN events' : events'[i] = VoiceDisconnected(r)
  BY <1>1, EventAppended DEF DataOK
<1> QED
  BY <1>1, <1>2 DEF LossUnread

\* A step that may make the player forget its credentials, and may end the
\* session, which is reported then.
LEMMA SessionKept ==
  ASSUME DataOK, SessionInv, player'.voice \in {player.voice, None},
         UNCHANGED updates, pc'[Reader] = pc[Reader],
         \/ UNCHANGED node
         \/ \E r \in {"requested", "connection_failed", "connection_lost"} : EndSession(r)
  PROVE  SessionInv'
<1>1. CASE UNCHANGED node
  BY <1>1 DEF SessionInv, LossUnread, node
<1>2. ASSUME NEW r \in {"requested", "connection_failed", "connection_lost"}, EndSession(r)
      PROVE  SessionInv'
  <2>1. CASE nodeVoice = None
    BY <1>2, <2>1 DEF EndSession, SessionInv, LossUnread
  <2>2. CASE nodeVoice # None
    BY <1>2, <2>2, LossReported DEF EndSession, SessionInv
  <2> QED
    BY <2>1, <2>2
<1> QED
  BY <1>1, <1>2

LEMMA ResetVoiceVoice ==
  ASSUME NEW p
  PROVE  ResetVoice(p).voice = None
BY DEF ResetVoice, NewPlayer

LEMMA UserKeepsReader ==
  ASSUME ControlOK, NEW u \in Users, NEW l, NEW s, Move(u, l, s)
  PROVE  pc'[Reader] = pc[Reader]
BY ReaderIsNoUser DEF Move, ControlOK

LEMMA UserSession ==
  ASSUME TypeOK, SessionInv, NEW u \in Users,
         Begin(u) \/ EnsureVoice(u) \/ Connect(u) \/ Disconnect(u) \/ Leave(u)
  PROVE  SessionInv'
<1>1. player \in Player /\ DataOK /\ ControlOK
  BY DEF TypeOK, DataOK
<1>2. player'.voice \in {player.voice, None}
  <2>1. CASE Begin(u) \/ EnsureVoice(u) \/ Disconnect(u) \/ Leave(u)
    <3>1. player' = player \/ player' = ResetVoice(player)
      BY <2>1 DEF Begin, EnsureVoice, CheckDiscord, Leave, Branch, UpdateVoice, ResetStep, Nap,
         CallDisconnect, Disconnect
    <3> QED
      BY <3>1, ResetVoiceVoice
  <2>2. CASE Connect(u)
    BY <1>1, <2>2 DEF Connect, BeginConnect, UpdateVoice, FinishConnect, AwaitAnswer, GiveUp, Player
  <2> QED
    BY <2>1, <2>2
<1>3. \E l, s : Move(u, l, s)
  <2>1. CASE Begin(u)
    BY <2>1 DEF Begin
  <2>2. CASE EnsureVoice(u) \/ Leave(u)
    BY <2>2 DEF EnsureVoice, CheckDiscord, Leave, Branch, UpdateVoice, ResetStep, Nap,
       CallDisconnect, Goto
  <2>3. CASE Connect(u)
    BY <2>3 DEF Connect, BeginConnect, UpdateVoice, FinishConnect, AwaitAnswer, Goto
  <2>4. CASE Disconnect(u)
    BY <2>4 DEF Disconnect, UpdateVoice, ResetStep, Goto
  <2> QED
    BY <2>1, <2>2, <2>3, <2>4
<1>4. UNCHANGED updates /\ (UNCHANGED node \/ EndSession("requested"))
  <2>1. CASE Begin(u)
    BY <2>1 DEF Begin, remote
  <2>2. CASE EnsureVoice(u) \/ Leave(u)
    BY <2>2 DEF EnsureVoice, CheckDiscord, Leave, Branch, UpdateVoice, ResetStep, Nap,
       CallDisconnect, remote
  <2>3. CASE Connect(u)
    BY <2>3 DEF Connect, BeginConnect, UpdateVoice, FinishConnect, AwaitAnswer, remote
  <2>4. CASE Disconnect(u)
    BY <2>4 DEF Disconnect, UpdateVoice, ResetStep, remote
  <2> QED
    BY <2>1, <2>2, <2>3, <2>4
<1> QED
  BY <1>1, <1>2, <1>3, <1>4, UserKeepsReader, SessionKept

LEMMA GatewaySession ==
  ASSUME TypeOK, SessionInv, HandleGatewayEvent
  PROVE  SessionInv'
<1>1. player \in Player /\ DataOK /\ updates \in Seq(Channels)
  BY DEF TypeOK, DataOK
<1>2. UNCHANGED node /\ pc'[Reader] = pc[Reader]
  BY DEF HandleGatewayEvent
<1>3. PICK e, p : \/ player' = ResetVoice(player) /\ UNCHANGED updates
                  \/ /\ p \in {[player EXCEPT !.pending.channel = e.channel],
                               [player EXCEPT !.pending.server = TRUE]}
                     /\ TryConnect(p)
                     /\ p \in Player
  <2>1. PICK e \in BagToSet(spawned) :
          IF e \in {VoiceState(None), VoiceServer(FALSE)}
            THEN player' = ResetVoice(player) /\ UNCHANGED <<sent, updates, faults>>
            ELSE TryConnect(IF e.type = "state"
                              THEN [player EXCEPT !.pending.channel = e.channel]
                              ELSE [player EXCEPT !.pending.server = TRUE])
    BY DEF HandleGatewayEvent
  <2>2. e \in GatewayEvent
    BY DEF TypeOK, DataOK
  <2>3. e.type = "state" => [player EXCEPT !.pending.channel = e.channel] \in Player
    BY <1>1, <2>2 DEF GatewayEvent, Player
  <2>4. [player EXCEPT !.pending.server = TRUE] \in Player
    BY <1>1 DEF Player
  <2> QED
    BY <2>1, <2>3, <2>4
<1>4. CASE player' = ResetVoice(player) /\ UNCHANGED updates
  BY <1>4, ResetVoiceVoice DEF SessionInv
<1>5. CASE /\ p \in {[player EXCEPT !.pending.channel = e.channel],
                     [player EXCEPT !.pending.server = TRUE]}
           /\ TryConnect(p) /\ p \in Player
  <2>1. p.voice = player.voice
    BY <1>1, <1>5 DEF Player
  <2>2. CASE player' = p /\ UNCHANGED updates
    BY <1>1, <1>2, <2>1, <2>2, SessionKept
  <2>3. CASE /\ Complete(p) /\ player' = Credentials(p)
             /\ updates' = Append(updates, p.pending.channel)
    <3>1. player'.voice = p.pending.channel
      BY <1>5, <2>3 DEF Credentials, Player
    <3>2. p.pending.channel \in Channels
      BY <1>5, <2>3 DEF Complete, Player, Maybe
    <3>3. updates' # <<>> /\ updates'[Len(updates')] = p.pending.channel
      <4>1. /\ Len(updates') = Len(updates) + 1 /\ updates'[Len(updates) + 1] = p.pending.channel
            /\ updates' \in Seq(Channels) /\ Len(updates) \in Nat
        BY <1>1, <2>3, <3>2, AppendProperties, LenProperties
      <4> QED
        BY <4>1, EmptySeq
    <3> QED
      BY <3>1, <3>3 DEF SessionInv
  <2>4. CASE player' = ResetVoice(GiveUp(p)) /\ UNCHANGED updates
    BY <2>4, ResetVoiceVoice DEF SessionInv
  <2> QED
    BY <1>5, <2>2, <2>3, <2>4 DEF TryConnect
<1> QED
  BY <1>3, <1>4, <1>5

LEMMA ReaderSession ==
  ASSUME TypeOK, SessionInv, OnVoiceConnect \/ OnVoiceDisconnect \/ ResetAfterDisconnect
  PROVE  SessionInv'
<1>1. player \in Player /\ events \in Seq(NodeEvent) /\ Reader \in DOMAIN pc
  BY DEF TypeOK, DataOK, ControlOK
<1>2. CASE OnVoiceConnect
  <2>1. player'.voice = player.voice /\ UNCHANGED <<updates, nodeVoice, pc>>
    BY <1>1, <1>2 DEF OnVoiceConnect, GiveUp, Player
  <2>2. LossUnread => LossUnread'
    <3> SUFFICES ASSUME NEW i \in DOMAIN events, events[i].type = "disconnect"
                 PROVE  \E j \in DOMAIN events' : events'[j].type = "disconnect"
      BY <2>1 DEF LossUnread
    <3>1. events # <<>> /\ events' = Tail(events) /\ events[1].type = "connect"
      BY <1>1, <1>2 DEF OnVoiceConnect
    <3>2. /\ events' \in Seq(NodeEvent) /\ Len(events') = Len(events) - 1
          /\ \A j \in 1 .. Len(events') : events'[j] = events[j + 1]
      BY <1>1, <3>1, HeadTailProperties
    <3>3. /\ DOMAIN events = 1 .. Len(events) /\ DOMAIN events' = 1 .. Len(events')
          /\ Len(events) \in Nat
      BY <1>1, <3>2, LenProperties
    <3>4. i # 1
      BY <3>1
    <3>5. i - 1 \in DOMAIN events' /\ (i - 1) + 1 = i
      BY <3>2, <3>3, <3>4
    <3>6. events'[i - 1] = events[i]
      BY <3>2, <3>3, <3>5
    <3> QED
      BY <3>5, <3>6
  <2> QED
    BY <2>1, <2>2 DEF SessionInv
<1>3. CASE OnVoiceDisconnect
  <2>1. /\ player'.voice = player.voice /\ UNCHANGED <<updates, nodeVoice>>
        /\ pc'[Reader] = "reset"
    BY <1>1, <1>3 DEF OnVoiceDisconnect, Player
  <2> QED
    BY <2>1 DEF SessionInv, LossUnread
<1>4. CASE ResetAfterDisconnect
  BY <1>4, ResetVoiceVoice DEF ResetAfterDisconnect, SessionInv
<1> QED
  BY <1>2, <1>3, <1>4

LEMMA NodeSession ==
  ASSUME TypeOK, SessionInv, NodeConnects
  PROVE  SessionInv'
<1>1. DataOK /\ updates \in Seq(Channels) /\ updates # <<>> /\ updates' = Tail(updates)
  BY DEF NodeConnects, TypeOK, DataOK
<1>2. /\ Len(updates) \in Nat \ {0} /\ DOMAIN updates = 1 .. Len(updates)
      /\ updates' \in Seq(Channels) /\ Len(updates') = Len(updates) - 1
      /\ \A j \in 1 .. Len(updates') : updates'[j] = updates[j + 1]
  BY <1>1, EmptySeq, LenProperties, HeadTailProperties
<1>3. UNCHANGED <<player, pc>>
  BY DEF NodeConnects
<1> SUFFICES ASSUME player.voice # None
             PROVE  \/ updates' # <<>> /\ updates'[Len(updates')] = player.voice
                    \/ updates' = <<>> /\ (nodeVoice' = player.voice \/ LossUnread')
  BY <1>3 DEF SessionInv
<1>4. updates[Len(updates)] = player.voice
  BY <1>1 DEF SessionInv
<1>5. CASE Len(updates) > 1
  <2>1. Len(updates') \in 1 .. Len(updates') /\ Len(updates') + 1 = Len(updates)
    BY <1>2, <1>5
  <2>2. updates'[Len(updates')] = updates[Len(updates') + 1]
    BY <1>2, <2>1
  <2>3. updates' # <<>>
    BY <1>2, <2>1, EmptySeq
  <2> QED
    BY <1>4, <2>1, <2>2, <2>3
<1>6. CASE Len(updates) = 1
  <2>1. updates' = <<>>
    BY <1>2, <1>6, EmptySeq
  <2>2. Head(updates) = player.voice
    BY <1>4, <1>6
  <2>3. CASE nodeVoice' = Head(updates)
    BY <2>1, <2>2, <2>3
  <2>4. CASE events' = Append(events, VoiceDisconnected("connection_failed"))
    BY <1>1, <2>1, <2>4, LossReported
  <2> QED
    BY <2>3, <2>4 DEF NodeConnects
<1>7. Len(updates) = 1 \/ Len(updates) > 1
  <2> DEFINE n == Len(updates)
  <2>1. n \in Nat \ {0}
    BY <1>2
  <2> HIDE DEF n
  <2>2. n = 1 \/ n > 1
    BY <2>1
  <2> QED
    BY <2>2 DEF n
<1> QED
  BY <1>5, <1>6, <1>7

LEMMA SessionInvariant == Spec => []SessionInv
<1>1. Init => SessionInv
  BY DEF Init, NewPlayer, SessionInv
<1>2. TypeOK /\ SessionInv /\ [Next]_vars => SessionInv'
  <2> SUFFICES ASSUME TypeOK, SessionInv, [Next]_vars
               PROVE  SessionInv'
    OBVIOUS
  <2>1. DataOK
    BY DEF TypeOK
  <2>2. CASE \E u \in Users :
               Begin(u) \/ EnsureVoice(u) \/ Connect(u) \/ Disconnect(u) \/ Leave(u)
    BY <2>2, UserSession
  <2>3. CASE OnVoiceConnect \/ OnVoiceDisconnect \/ ResetAfterDisconnect
    BY <2>3, ReaderSession
  <2>4. CASE ServerMoves \/ NodeLoses
    <3>1. /\ UNCHANGED <<player, updates, pc>> /\ EndSession("connection_lost")
      BY <2>4 DEF ServerMoves, NodeLoses
    <3> QED
      BY <2>1, <3>1, SessionKept
  <2>5. CASE DiscordAnswers \/ ModeratorMoves \/ UNCHANGED vars
    <3>1. UNCHANGED <<player, updates, pc, node>>
      BY <2>5 DEF DiscordAnswers, ModeratorMoves, vars, remote
    <3> QED
      BY <2>1, <3>1, SessionKept
  <2> QED
    BY <2>2, <2>3, <2>4, <2>5, GatewaySession, NodeSession DEF Next
<1> QED
  BY <1>1, <1>2, VoiceTypes, PTL DEF Spec

\* A player that says Connected() when all is at rest has a voice session in
\* that channel, whatever was lost, moved or refused, in whatever order the
\* handlers ran: the end of a session is always read after it was lost, and
\* takes the player's voice state away (handleVoiceDisconnect).
THEOREM ConnectedHaveSessions == Spec => []ConnectedHasSession
<1>1. TypeOK /\ SessionInv => ConnectedHasSession
  <2> SUFFICES ASSUME TypeOK, SessionInv, AtRest, player.voice # None
               PROVE  nodeVoice = player.voice
    BY DEF ConnectedHasSession
  <2>1. updates = <<>> /\ events = <<>> /\ pc[Reader] = "read"
    BY DEF AtRest, Settled, LinkdaveSettled
  <2>2. DOMAIN events = {}
    BY <2>1
  <2> QED
    BY <2>1, <2>2 DEF SessionInv, LossUnread
<1> QED
  BY <1>1, SessionInvariant, VoiceTypes, PTL

-----------------------------------------------------------------------------
(* Calm: users and moderators begin when all is at rest, and nothing fails *)
(* in the bot.                                                             *)

Halves == BagToSet(spawned)

\* Linkdave is idle, without a session.
NoSession == updates = <<>> /\ events = <<>> /\ pc[Reader] = "read" /\ nodeVoice = None

\* Which gateway events are on their way together, and which half the player
\* has: of a join of the bot's channel both are still to come, or either one
\* is already pending; a change of the voice server has no channel.
BothToCome   == /\ botChannel # None
                /\ Halves = {VoiceState(botChannel), VoiceServer(TRUE)}
                /\ player.pending.channel = None
                /\ updates = <<>> /\ nodeVoice # botChannel
StateToCome  == /\ botChannel # None
                /\ Halves = {VoiceState(botChannel)}
                /\ player.pending = [channel |-> None, server |-> TRUE]
                /\ NoSession
ServerToCome == /\ botChannel # None
                /\ Halves = {VoiceServer(TRUE)}
                /\ player.pending = [channel |-> botChannel, server |-> FALSE]
                /\ NoSession

DiscordPhase ==
  \/ Halves = {} /\ player.pending.channel = None
  \/ /\ Halves = {VoiceState(None)} /\ botChannel = None
     /\ player.pending.channel = None /\ updates = <<>>
  \/ BothToCome \/ StateToCome \/ ServerToCome
  \/ Halves = {VoiceServer(TRUE)} /\ player.pending.channel = None /\ botChannel # None
  \/ /\ Halves \in {{VoiceServer(FALSE)}, {VoiceServer(FALSE), VoiceServer(TRUE)}}
     /\ botChannel # None /\ nodeVoice = None /\ updates = <<>>
     /\ player.pending.channel = None

DiscordInv ==
  /\ spawned = SetToBag(Halves)
  /\ DiscordPhase
  /\ requests # <<>> => Len(requests) = 1 /\ Halves = {} /\ updates = <<>>

AskedToLeave == requests = <<None>>

\* The session and what the player believes of it.
LinkInv ==
  /\ LossUnread => nodeVoice = None /\ updates = <<>>
  /\ updates # <<>> =>
       /\ Len(updates) = 1 /\ updates[1] = player.voice
       /\ nodeVoice = None /\ events = <<>> /\ pc[Reader] = "read"
  /\ nodeVoice # None =>
       player.voice = nodeVoice \/ AskedToLeave \/ botChannel # nodeVoice
  /\ player.voice # None => player.channel = player.voice

\* A command that has not asked Discord for anything, and will not be
\* surprised by anything but a loss.
Begun == /\ requests = <<>> /\ Halves = {} /\ updates = <<>>
         /\ nodeVoice \in {None, botChannel}
         /\ player.voice # None => player.voice = botChannel
         /\ botChannel = None => NoSession

\* The bot has left the channel, or is about to.
Left == updates = <<>> /\ (AskedToLeave \/ (requests = <<>> /\ botChannel = None))

\* Nothing is left of an earlier join.
Clear == requests = <<>> /\ Halves = {} /\ botChannel = None /\ NoSession

\* The answer to a Connect is going to come.
AnswerComes ==
  \/ /\ requests # <<>> /\ requests[1] # None
     /\ botChannel = None /\ NoSession
  \/ /\ requests = <<>>
     /\ \/ BothToCome /\ NoSession
        \/ StateToCome \/ ServerToCome
        \/ updates # <<>>
        \/ /\ events # <<>> /\ pc[Reader] = "read"
           /\ Head(events).type = "connect" \/ Head(events).reason # "requested"

\* n is the command of a Connect that is not answered.
Unanswered(n) == n \in player.waiters /\ sent[n] = <<>> /\ player.connecting

BegunLabels == {"ensure", "channel", "stale", "unknown", "ask_fresh", "leave",
                "leave_connected", "had_voice", "ask_leave"}

At(l, s) ==
  /\ l \in UserLabels \ {"refused", "nap_previous"}
  /\ l = "idle" => requests = <<>> \/ AskedToLeave
  /\ l \in BegunLabels => Begun
  /\ l = "stale" /\ player.voice # None => botChannel # s.target
  /\ l = "unknown" => player.voice = None
  /\ l = "leave_connected" => botChannel = None
  /\ l \in DisconnectLabels => s.next = "idle"
  /\ l \in {"reset", "nap_fresh", "rest", "drop"} => Left
  /\ l \in {"previous", "connect"} => Clear /\ player.voice = None
  /\ l = "nap_fresh" => player.voice = None
  /\ l = "ask_join" => Clear /\ Unanswered(s.command)
  /\ l = "wait" => IF sent[s.command] = <<>>
                     THEN Unanswered(s.command) /\ AnswerComes
                     ELSE requests = <<>>

Alone(u) == \A v \in Users \ {u} : pc[v] = "idle"

AllIdle == \A u \in Users : pc[u] = "idle"

\* Who waits is there.
WaitersInv ==
  \A n \in player.waiters :
    \E u \in Users : pc[u] \in {"ask_join", "wait"} /\ loc[u].command = n

UsersInv ==
  /\ \A u \in Users : pc[u] # "idle" => Alone(u) /\ At(pc[u], loc[u])
  /\ AllIdle => requests = <<>> \/ AskedToLeave
  /\ WaitersInv

CalmInv == DiscordInv /\ LinkInv /\ UsersInv

-----------------------------------------------------------------------------
(* Gateway events: each one is there once.                                 *)

LEMMA SetBags ==
  ASSUME NEW S
  PROVE  /\ BagToSet(SetToBag(S)) = S
         /\ EmptyBag (+) SetToBag(S) = SetToBag(S)
         /\ SetToBag(S) = EmptyBag <=> S = {}
         /\ \A e \in S : SetToBag(S) (-) SetToBag({e}) = SetToBag(S \ {e})
<1>1. BagToSet(SetToBag(S)) = S
  BY DEF BagToSet, SetToBag
<1>2. EmptyBag (+) SetToBag(S) = SetToBag(S)
  BY DEF EmptyBag, SetToBag, (+)
<1>3. SetToBag(S) = EmptyBag <=> S = {}
  BY DEF EmptyBag, SetToBag
<1>4. ASSUME NEW e \in S
      PROVE  SetToBag(S) (-) SetToBag({e}) = SetToBag(S \ {e})
  <2> DEFINE B == [x \in S |-> IF x = e THEN 0 ELSE 1]
  <2>1. SetToBag(S) (-) SetToBag({e}) = [x \in {d \in S : B[d] > 0} |-> B[x]]
    BY DEF SetToBag, (-)
  <2>2. {d \in S : B[d] > 0} = S \ {e}
    OBVIOUS
  <2> QED
    BY <2>1, <2>2 DEF SetToBag
<1> QED
  BY <1>1, <1>2, <1>3, <1>4

LEMMA EventsDiffer ==
  /\ \A c, b : VoiceState(c) # VoiceServer(b)
  /\ \A c, d : VoiceState(c) = VoiceState(d) <=> c = d
  /\ VoiceServer(TRUE) # VoiceServer(FALSE)
  /\ \A c : VoiceState(c).type = "state" /\ VoiceState(c).channel = c
  /\ \A b : VoiceServer(b).type = "server"
BY DEF VoiceState, VoiceServer

LEMMA NothingToCome ==
  ASSUME DiscordInv
  PROVE  spawned = EmptyBag <=> Halves = {}
BY SetBags DEF DiscordInv

-----------------------------------------------------------------------------
(* Users.                                                                  *)

LEMMA UserArrives ==
  ASSUME NEW u \in Users, Alone(u)', At(pc[u], loc[u])', WaitersInv'
  PROVE  UsersInv'
<1>1. \A v \in Users : pc'[v] # "idle" => v = u
  BY DEF Alone
<1>2. AllIdle' => (requests = <<>> \/ AskedToLeave)'
  BY DEF AllIdle, At
<1> QED
  BY <1>1, <1>2 DEF UsersInv

LEMMA UserMoved ==
  ASSUME ControlOK, NEW u \in Users, NEW l, NEW s, Move(u, l, s), Alone(u)
  PROVE  /\ pc'[u] = l /\ loc'[u] = (IF l = "idle" THEN NoLocals ELSE s)
         /\ Alone(u)' /\ pc'[Reader] = pc[Reader]
BY ReaderIsNoUser DEF ControlOK, Move, Alone

\* Who is at work is alone; unless it is in Connect nobody waits.
LEMMA AtWork ==
  ASSUME UsersInv, NEW u \in Users, pc[u] # "idle"
  PROVE  /\ Alone(u) /\ At(pc[u], loc[u])
         /\ pc[u] \notin {"ask_join", "wait"} => player.waiters = {}
         /\ \A n \in player.waiters : loc[u].command = n
<1>1. Alone(u) /\ At(pc[u], loc[u]) /\ WaitersInv
  BY DEF UsersInv
<1>2. \A n \in player.waiters : pc[u] \in {"ask_join", "wait"} /\ loc[u].command = n
  BY <1>1 DEF WaitersInv, Alone
<1> QED
  BY <1>1, <1>2

LEMMA NobodyWaits ==
  ASSUME UsersInv, AllIdle
  PROVE  player.waiters = {}
BY DEF UsersInv, WaitersInv, AllIdle

SameState == UNCHANGED <<player, sent, botChannel, requests, spawned, updates, nodeVoice, events>>
               /\ pc'[Reader] = pc[Reader]

LEMMA SameRemote ==
  ASSUME SameState
  PROVE  /\ DiscordInv => DiscordInv'
         /\ LinkInv => LinkInv'
<1>1. DiscordInv => DiscordInv'
  BY DEF SameState, DiscordInv, DiscordPhase, Halves, BothToCome, StateToCome, ServerToCome,
     NoSession
<1>2. LinkInv => LinkInv'
  BY DEF SameState, LinkInv, LossUnread, AskedToLeave
<1> QED
  BY <1>1, <1>2

LEMMA SamePhase ==
  ASSUME SameState
  PROVE  /\ Begun' <=> Begun
         /\ Left' <=> Left
         /\ Clear' <=> Clear
         /\ AskedToLeave' <=> AskedToLeave
         /\ AnswerComes' <=> AnswerComes
         /\ \A n : Unanswered(n)' <=> Unanswered(n)
<1>1. NoSession' <=> NoSession
  BY DEF NoSession, SameState
<1>2. Halves' = Halves /\ (AskedToLeave' <=> AskedToLeave)
  BY DEF Halves, SameState, AskedToLeave
<1>3. (Begun' <=> Begun) /\ (Left' <=> Left) /\ (Clear' <=> Clear)
  BY <1>1, <1>2 DEF SameState, Begun, Left, Clear
<1>4. AnswerComes' <=> AnswerComes
  BY <1>1, <1>2 DEF SameState, AnswerComes, BothToCome, StateToCome, ServerToCome
<1>5. \A n : Unanswered(n)' <=> Unanswered(n)
  BY DEF SameState, Unanswered
<1> QED
  BY <1>2, <1>3, <1>4, <1>5

\* A step that only moves a user, whom nobody else waits for.
LEMMA StillCalm ==
  ASSUME TypeOK, CalmInv, NEW u \in Users, Alone(u), player.waiters = {},
         NEW l, NEW s, Move(u, l, s), UNCHANGED <<player, sent, remote>>, At(l, s)
  PROVE  CalmInv'
<1>1. ControlOK
  BY DEF TypeOK
<1>2. /\ pc'[u] = l /\ loc'[u] = (IF l = "idle" THEN NoLocals ELSE s)
      /\ Alone(u)' /\ pc'[Reader] = pc[Reader]
  BY <1>1, UserMoved
<1>3. SameState
  BY <1>2 DEF SameState, remote, discord, node
<1>4. WaitersInv'
  BY <1>1 DEF WaitersInv
<1>5. At(pc[u], loc[u])'
  <2>1. CASE l = "idle"
    <3>1. (requests = <<>> \/ AskedToLeave)'
      BY <1>3, <2>1, SamePhase DEF At, SameState
    <3> QED
      BY <1>2, <2>1, <3>1 DEF At, UserLabels, BegunLabels, DisconnectLabels
  <2>2. CASE l # "idle"
    <3>1. pc'[u] = l /\ loc'[u] = s
      BY <1>2, <2>2
    <3>2. /\ Begun' <=> Begun
          /\ Left' <=> Left
          /\ Clear' <=> Clear
          /\ AskedToLeave' <=> AskedToLeave
          /\ AnswerComes' <=> AnswerComes
          /\ \A n : Unanswered(n)' <=> Unanswered(n)
      BY <1>3, SamePhase
    <3>3. UNCHANGED <<player, sent, botChannel, requests>>
      BY <1>3 DEF SameState
    <3> HIDE DEF Begun, Left, Clear, AskedToLeave, AnswerComes, Unanswered
    <3> QED
      BY <3>1, <3>2, <3>3 DEF At
  <2> QED
    BY <2>1, <2>2
<1>6. UsersInv'
  BY <1>2, <1>4, <1>5, UserArrives
<1> QED
  BY <1>3, <1>6, SameRemote DEF CalmInv

LEMMA MoveCalm ==
  ASSUME TypeOK, CalmInv, NEW u \in Users, pc[u] \notin {"idle", "ask_join", "wait"},
         NEW l, NEW s, Move(u, l, s), UNCHANGED <<player, sent, remote>>, At(l, s)
  PROVE  CalmInv'
<1>1. Alone(u) /\ player.waiters = {}
  BY AtWork DEF CalmInv
<1> QED
  BY <1>1, StillCalm

LEMMA BranchCalm ==
  ASSUME TypeOK, CalmInv, NEW u \in Users, NEW from, NEW cond \in BOOLEAN, NEW yes, NEW no,
         from \notin {"idle", "ask_join", "wait"}, Branch(u, from, cond, yes, no),
         At(IF cond THEN yes ELSE no, loc[u])
  PROVE  CalmInv'
<1> DEFINE l == IF cond THEN yes ELSE no
<1>1. pc[u] = from /\ Move(u, l, loc[u]) /\ UNCHANGED <<player, sent, remote>>
  BY DEF Branch, Goto
<1>2. At(l, loc[u])
  OBVIOUS
<1> HIDE DEF l
<1> QED
  BY <1>1, <1>2, MoveCalm

\* At rest the player knows nothing that is not so.
LEMMA SettledBegun ==
  ASSUME SessionInv, CalmInv, Settled
  PROVE  Begun
<1>1. /\ requests = <<>> /\ updates = <<>> /\ events = <<>> /\ pc[Reader] = "read"
      /\ nodeVoice \in {None, botChannel}
  BY DEF Settled, LinkdaveSettled
<1>2. Halves = {}
  BY NothingToCome DEF Settled, CalmInv
<1>3. player.voice # None => player.voice = nodeVoice
  BY <1>1 DEF SessionInv, LossUnread
<1> QED
  BY <1>1, <1>2, <1>3 DEF Begun, NoSession

LEMMA BeginCalm ==
  ASSUME Calm, TypeOK, SessionInv, CalmInv, NEW u \in Users, Begin(u)
  PROVE  CalmInv'
<1>1. AtRest
  BY DEF Begin
<1>2. Begun
  BY <1>1, SettledBegun DEF AtRest
<1>3. Alone(u) /\ player.waiters = {}
  BY <1>1, NobodyWaits DEF AtRest, Alone, AllIdle, CalmInv
<1>4. PICK c \in Channels : \E k \in {"ensure", "leave"} :
         Move(u, k, [NoLocals EXCEPT !.command = commands + 1, !.target = c])
  BY DEF Begin
<1>5. PICK k \in {"ensure", "leave"} :
         Move(u, k, [NoLocals EXCEPT !.command = commands + 1, !.target = c])
  BY <1>4
<1> DEFINE s == [NoLocals EXCEPT !.command = commands + 1, !.target = c]
<1>6. At(k, s)
  BY <1>2 DEF At, UserLabels, EnsureLabels, DisconnectLabels, BegunLabels
<1>7. Move(u, k, s) /\ UNCHANGED <<player, sent, remote>>
  BY <1>5 DEF Begin
<1> HIDE DEF s
<1> QED
  BY <1>3, <1>6, <1>7, StillCalm

-----------------------------------------------------------------------------
(* Leaving: the bot has asked, or Discord has it nowhere.                  *)

LEMMA LeftPhase ==
  ASSUME DiscordInv, Left
  PROVE  /\ Halves = {} \/ (Halves = {VoiceState(None)} /\ botChannel = None)
         /\ player.pending.channel = None
         /\ updates = <<>>
<1>1. updates = <<>> /\ (requests = <<>> => botChannel = None)
  BY DEF Left, AskedToLeave
<1>2. requests # <<>> => Halves = {}
  BY DEF DiscordInv
<1>3. \A x, y : {x} # {} /\ {x, y} # {}
  OBVIOUS
<1>4. (BothToCome \/ StateToCome \/ ServerToCome) => botChannel # None /\ Halves # {}
  BY <1>3 DEF BothToCome, StateToCome, ServerToCome
<1>5. Halves \in {{VoiceServer(FALSE)}, {VoiceServer(FALSE), VoiceServer(TRUE)}} => Halves # {}
  BY <1>3
<1> HIDE DEF BothToCome, StateToCome, ServerToCome, Halves
<1> QED
  BY <1>1, <1>2, <1>3, <1>4, <1>5 DEF DiscordInv, DiscordPhase

LEMMA NothingPending ==
  ASSUME DiscordInv, Halves = {}
  PROVE  player.pending.channel = None
<1>1. \A x, y : {x} # {} /\ {x, y} # {}
  OBVIOUS
<1>2. ~BothToCome /\ ~StateToCome /\ ~ServerToCome
  BY <1>1 DEF BothToCome, StateToCome, ServerToCome
<1> HIDE DEF BothToCome, StateToCome, ServerToCome, Halves
<1> QED
  BY <1>1, <1>2 DEF DiscordInv, DiscordPhase

\* What a step leaves of a phase, when it touches neither the events on
\* their way nor what Discord knows.
LEMMA LeftStays ==
  ASSUME DiscordInv, Left, UNCHANGED <<botChannel, spawned, updates>>,
         player'.pending.channel = None,
         \/ requests' = requests
         \/ requests' = <<None>> /\ Halves = {}
  PROVE  Left' /\ DiscordInv'
<1>1. /\ Halves = {} \/ (Halves = {VoiceState(None)} /\ botChannel = None)
      /\ updates = <<>>
  BY LeftPhase
<1>2. Halves' = Halves
  BY DEF Halves
<1>3. spawned = SetToBag(Halves)
      /\ (requests # <<>> => Len(requests) = 1 /\ Halves = {})
  BY DEF DiscordInv
<1>4. requests' # <<>> => Len(requests') = 1 /\ Halves' = {}
  BY <1>2, <1>3
<1>5. Left'
  BY DEF Left, AskedToLeave
<1> HIDE DEF Halves
<1>6. DiscordPhase'
  BY <1>1, <1>2 DEF DiscordPhase
<1> QED
  BY <1>1, <1>2, <1>3, <1>4, <1>5, <1>6 DEF DiscordInv

\* The common part of a user's steps that change data.
LEMMA StepCalm ==
  ASSUME TypeOK, CalmInv, NEW u \in Users, pc[u] # "idle", NEW l, NEW s, Move(u, l, s),
         DiscordInv', LinkInv', l = "idle" => (requests = <<>> \/ AskedToLeave)',
         l # "idle" => At(l, s)',
         \A n \in player'.waiters : l \in {"ask_join", "wait"} /\ s.command = n
  PROVE  CalmInv'
<1>1. ControlOK /\ Alone(u)
  BY AtWork DEF CalmInv, TypeOK
<1>2. /\ pc'[u] = l /\ loc'[u] = (IF l = "idle" THEN NoLocals ELSE s)
      /\ Alone(u)'
  BY <1>1, UserMoved
<1>3. At(pc[u], loc[u])'
  <2>1. CASE l = "idle"
    BY <1>2, <2>1 DEF At, UserLabels, BegunLabels, DisconnectLabels
  <2>2. CASE l # "idle"
    BY <1>2, <2>2
  <2> QED
    BY <2>1, <2>2
<1>4. WaitersInv'
  BY <1>2 DEF WaitersInv
<1> QED
  BY <1>2, <1>3, <1>4, UserArrives DEF CalmInv

\* resetVoice, on the way to a fresh join or at the end of Disconnect.
LEMMA ResetCalm ==
  ASSUME TypeOK, CalmInv, NEW u \in Users, NEW from \in {"reset", "drop"}, NEW l,
         ResetStep(u, from, l), l \in {"nap_fresh", "idle"}
  PROVE  CalmInv'
<1>1. /\ pc[u] = from /\ Goto(u, l) /\ player' = ResetVoice(player)
      /\ UNCHANGED <<sent, botChannel, requests, spawned, updates, nodeVoice, events>>
  BY DEF ResetStep, remote, discord, node
<1>2. Left /\ DiscordInv /\ LinkInv /\ player.waiters = {}
  BY <1>1, AtWork DEF CalmInv, At
<1>3. player'.pending.channel = None /\ player'.voice = None /\ player'.waiters = {}
  BY <1>1, <1>2 DEF ResetVoice, NewPlayer, NoPending
<1>4. Left' /\ DiscordInv'
  BY <1>1, <1>2, <1>3, LeftStays
<1>5. pc'[Reader] = pc[Reader]
  BY <1>1, ReaderIsNoUser DEF Goto, Move, TypeOK, ControlOK
<1>6. LinkInv'
  <2>1. LossUnread' <=> LossUnread
    BY <1>1, <1>5 DEF LossUnread
  <2>2. updates' = <<>> /\ (AskedToLeave \/ botChannel = None)
    BY <1>1, <1>2 DEF Left
  <2> QED
    BY <1>1, <1>2, <1>3, <2>1, <2>2 DEF LinkInv, AskedToLeave
<1>7. l = "idle" => (requests = <<>> \/ AskedToLeave)'
  BY <1>4 DEF Left
<1>8. PICK s : s = loc[u]
  OBVIOUS
<1>9. l # "idle" => At(l, s)'
  BY <1>3, <1>4 DEF At, UserLabels, EnsureLabels, BegunLabels, DisconnectLabels
<1>10. Move(u, l, s)
  BY <1>1, <1>8 DEF Goto
<1> QED
  BY <1>1, <1>3, <1>4, <1>6, <1>7, <1>9, <1>10, StepCalm

\* The bot asks to be taken out of the channel.
LEMMA AskLeaveCalm ==
  ASSUME TypeOK, CalmInv, NEW u \in Users, NEW from \in {"ask_fresh", "ask_leave"},
         NEW l, NEW failed, UpdateVoice(u, from, None, l, failed), faults' = faults,
         l \in {"reset", "rest", "drop"}, from = "ask_fresh" => l = "reset"
  PROVE  CalmInv'
<1>1. /\ pc[u] = from /\ Goto(u, l) /\ requests' = Append(requests, None)
      /\ UNCHANGED <<player, sent, botChannel, spawned, updates, nodeVoice, events>>
  BY VoiceBounds DEF UpdateVoice, Fault, TypeOK, BoundsOK, node
<1>2. Begun /\ DiscordInv /\ LinkInv /\ player.waiters = {}
  BY <1>1, AtWork DEF CalmInv, At, BegunLabels
<1>3. from = "ask_leave" => loc[u].next = "idle"
  BY <1>1, AtWork DEF CalmInv, At, DisconnectLabels
<1>4. requests' = <<None>> /\ updates = <<>> /\ Halves = {} /\ player.pending.channel = None
  BY <1>1, <1>2, NothingPending DEF Begun
<1>5. Halves' = {} /\ spawned' = SetToBag(Halves')
  BY <1>1, <1>2, <1>4 DEF Halves, DiscordInv
<1>6. DiscordInv'
  <2>1. DiscordPhase'
    BY <1>1, <1>4, <1>5 DEF DiscordPhase
  <2> QED
    BY <1>1, <1>4, <1>5, <2>1 DEF DiscordInv
<1>7. pc'[Reader] = pc[Reader]
  BY <1>1, ReaderIsNoUser DEF Goto, Move, TypeOK, ControlOK
<1>8. LinkInv'
  <2>1. LossUnread' <=> LossUnread
    BY <1>1, <1>7 DEF LossUnread
  <2>2. AskedToLeave'
    BY <1>4 DEF AskedToLeave
  <2> QED
    BY <1>1, <1>2, <1>4, <2>1, <2>2 DEF LinkInv
<1>9. Left'
  BY <1>1, <1>4 DEF Left, AskedToLeave
<1>10. PICK s : s = loc[u]
  OBVIOUS
<1>11. At(l, s)'
  BY <1>3, <1>9, <1>10 DEF At, UserLabels, EnsureLabels, BegunLabels, DisconnectLabels
<1>12. Move(u, l, s)
  BY <1>1, <1>10 DEF Goto
<1>13. pc[u] # "idle" /\ l # "idle" /\ player'.waiters = {}
  BY <1>1, <1>2
<1> QED
  BY <1>6, <1>8, <1>11, <1>12, <1>13, StepCalm

LEMMA CallDisconnectCalm ==
  ASSUME TypeOK, CalmInv, NEW u \in Users, NEW from, NEW cond \in BOOLEAN, NEW else,
         from \notin {"idle", "ask_join", "wait"}, CallDisconnect(u, from, cond, "idle", else),
         cond => Begun, ~cond => At(else, loc[u])
  PROVE  CalmInv'
<1>1. pc[u] = from /\ UNCHANGED <<player, sent, remote>>
  BY DEF CallDisconnect
<1>2. CASE cond
  <2> DEFINE s == [loc[u] EXCEPT !.next = "idle"]
  <2>1. Move(u, "had_voice", s)
    BY <1>2 DEF CallDisconnect
  <2>2. s.next = "idle"
    BY DEF TypeOK, ControlOK, Locals
  <2>3. At("had_voice", s)
    BY <1>2, <2>2 DEF At, UserLabels, EnsureLabels, BegunLabels, DisconnectLabels
  <2> HIDE DEF s
  <2> QED
    BY <1>1, <2>1, <2>3, MoveCalm
<1>3. CASE ~cond
  BY <1>1, <1>3, MoveCalm DEF CallDisconnect, Goto
<1> QED
  BY <1>2, <1>3

LEMMA LeaveCalm ==
  ASSUME TypeOK, CalmInv, NEW u \in Users, Leave(u)
  PROVE  CalmInv'
<1>1. pc[u] \in {"leave", "leave_connected"}
  BY DEF Leave, CallDisconnect
<1>2. Begun /\ requests = <<>>
  BY <1>1, AtWork DEF CalmInv, At, BegunLabels, Begun
<1>3. At("idle", loc[u])
  BY <1>2 DEF At, UserLabels, BegunLabels, DisconnectLabels
<1>4. botChannel = None => At("leave_connected", loc[u])
  BY <1>2 DEF At, UserLabels, BegunLabels, DisconnectLabels
<1>5. (botChannel # None) \in BOOLEAN /\ (player.voice # None) \in BOOLEAN
  OBVIOUS
<1> QED
  BY <1>2, <1>3, <1>4, <1>5, CallDisconnectCalm DEF Leave

\* Disconnect at rest: the session ends, and Linkdave says so.
LEMMA DisconnectCalm ==
  ASSUME TypeOK, CalmInv, NEW u \in Users, Disconnect(u), faults' = faults
  PROVE  CalmInv'
<1>1. loc[u].had \in BOOLEAN /\ loc[u] \in Locals
  BY DEF TypeOK, ControlOK, Locals
<1>2. CASE pc[u] = "had_voice"
  <2> DEFINE s == [loc[u] EXCEPT !.had = player.voice # None]
  <2>1. Move(u, "ask_leave", s) /\ UNCHANGED <<player, sent, remote>>
    BY <1>2 DEF Disconnect, UpdateVoice, ResetStep
  <2>2. Begun /\ loc[u].next = "idle"
    BY <1>2, AtWork DEF CalmInv, At, BegunLabels, DisconnectLabels
  <2>3. s.next = "idle"
    BY <1>1, <2>2 DEF Locals
  <2>4. At("ask_leave", s)
    BY <2>2, <2>3 DEF At, UserLabels, EnsureLabels, BegunLabels, DisconnectLabels
  <2> HIDE DEF s
  <2> QED
    BY <1>2, <2>1, <2>4, MoveCalm
<1>3. CASE pc[u] = "ask_leave"
  <2>1. PICK l \in {"rest", "drop"} : UpdateVoice(u, "ask_leave", None, l, "idle")
    BY <1>1, <1>3 DEF Disconnect, UpdateVoice, ResetStep
  <2> QED
    BY <2>1, AskLeaveCalm
<1>4. CASE pc[u] = "rest"
  <2>1. /\ EndSession("requested") /\ Goto(u, "drop")
        /\ UNCHANGED <<player, sent, botChannel, requests, spawned, updates>>
    BY <1>4, VoiceBounds DEF Disconnect, UpdateVoice, ResetStep, Fault, TypeOK, BoundsOK, discord
  <2>2. Left /\ DiscordInv /\ LinkInv /\ player.waiters = {} /\ loc[u].next = "idle"
    BY <1>4, AtWork DEF CalmInv, At, DisconnectLabels
  <2>3. Left' /\ DiscordInv'
    BY <2>1, <2>2, LeftPhase, LeftStays
  <2>4. LinkInv'
    <3>1. nodeVoice' = None /\ updates' = <<>>
      BY <2>1, <2>2 DEF EndSession, Left
    <3>2. player'.voice # None => player'.channel = player'.voice
      BY <2>1, <2>2 DEF LinkInv
    <3> QED
      BY <3>1, <3>2 DEF LinkInv
  <2>5. PICK s : s = loc[u]
    OBVIOUS
  <2>6. Move(u, "drop", s)
    BY <2>1, <2>5 DEF Goto
  <2>7. At("drop", s)'
    BY <2>2, <2>3, <2>5 DEF At, UserLabels, EnsureLabels, BegunLabels, DisconnectLabels
  <2>8. player'.waiters = {}
    BY <2>1, <2>2
  <2> QED
    BY <1>4, <2>3, <2>4, <2>6, <2>7, <2>8, StepCalm
<1>5. CASE pc[u] = "drop"
  <2>1. ResetStep(u, "drop", loc[u].next)
    BY <1>5 DEF Disconnect, UpdateVoice, ResetStep
  <2>2. loc[u].next = "idle"
    BY <1>5, AtWork DEF CalmInv, At, DisconnectLabels
  <2> QED
    BY <2>1, <2>2, ResetCalm
<1> QED
  BY <1>2, <1>3, <1>4, <1>5 DEF Disconnect, UpdateVoice, ResetStep

LEMMA EnsureVoiceCalm ==
  ASSUME Calm, TypeOK, CalmInv, NEW u \in Users, EnsureVoice(u), faults' = faults
  PROVE  CalmInv'
<1> USE DEF At, UserLabels, EnsureLabels, ConnectLabels, BegunLabels, DisconnectLabels
<1>1. /\ pc[u] # "idle" => At(pc[u], loc[u])
      /\ LinkInv /\ (player.voice # None) \in BOOLEAN
  BY AtWork DEF CalmInv
<1>2. CASE Branch(u, "ensure", player.voice # None, "channel", "stale")
  <2>1. Begun
    BY <1>1, <1>2 DEF Branch
  <2>2. At("channel", loc[u]) /\ (player.voice = None => At("stale", loc[u]))
    BY <2>1
  <2>3. At(IF player.voice # None THEN "channel" ELSE "stale", loc[u])
    BY <2>2
  <2> HIDE DEF At
  <2> QED
    BY <1>1, <1>2, <2>3, BranchCalm
<1>3. CASE Branch(u, "channel", player.channel = loc[u].target, "idle", "stale")
  <2>1. Begun
    BY <1>1, <1>3 DEF Branch
  <2>2. At("idle", loc[u])
    BY <2>1 DEF Begun
  <2>3. player.channel # loc[u].target => At("stale", loc[u])
    BY <1>1, <2>1 DEF Begun, LinkInv
  <2>4. (player.channel = loc[u].target) \in BOOLEAN
    OBVIOUS
  <2>5. At(IF player.channel = loc[u].target THEN "idle" ELSE "stale", loc[u])
    BY <2>2, <2>3
  <2> HIDE DEF At
  <2> QED
    BY <1>3, <2>4, <2>5, BranchCalm
<1>4. CASE Branch(u, "stale", botChannel = None, "previous",
                  IF botChannel = loc[u].target THEN "unknown" ELSE "ask_fresh")
  <2>1. Begun /\ (player.voice # None => botChannel # loc[u].target)
    BY <1>1, <1>4 DEF Branch
  <2>2. botChannel = None => At("previous", loc[u])
    BY <2>1 DEF Begun, Clear
  <2> DEFINE else == IF botChannel = loc[u].target THEN "unknown" ELSE "ask_fresh"
  <2>3. At(else, loc[u])
    BY <2>1
  <2>4. (botChannel = None) \in BOOLEAN
    OBVIOUS
  <2>5. At(IF botChannel = None THEN "previous" ELSE else, loc[u])
    BY <2>2, <2>3
  <2>6. Branch(u, "stale", botChannel = None, "previous", else)
    BY <1>4
  <2> HIDE DEF At, else
  <2> QED
    BY <2>4, <2>5, <2>6, BranchCalm
<1>5. CASE Branch(u, "unknown", player.voice # None, "previous", "ask_fresh")
  <2>1. Begun /\ player.voice = None
    BY <1>1, <1>5 DEF Branch
  <2>2. At("ask_fresh", loc[u])
    BY <2>1
  <2> QED
    BY <1>1, <1>5, <2>1, <2>2, BranchCalm
<1>6. CASE UpdateVoice(u, "ask_fresh", None, "reset", "reset")
  BY <1>6, AskLeaveCalm
<1>7. CASE ResetStep(u, "reset", "nap_fresh")
  BY <1>7, ResetCalm
<1>8. CASE Nap(u, "nap_fresh", "previous")
  <2>1. /\ pc[u] = "nap_fresh" /\ UNCHANGED <<player, sent, remote>>
        /\ (Settled /\ Goto(u, "previous")) \/ Goto(u, "idle")
    BY <1>8 DEF Nap
  <2>2. Left /\ player.voice = None
    BY <1>1, <2>1
  <2>3. At("idle", loc[u])
    BY <2>2 DEF Left
  <2>4. Settled => At("previous", loc[u])
    BY <2>2, NothingToCome DEF CalmInv, Settled, LinkdaveSettled, Left, AskedToLeave,
       Clear, NoSession
  <2> QED
    BY <2>1, <2>3, <2>4, MoveCalm DEF Goto
<1>9. CASE CallDisconnect(u, "previous", player.voice # None, "nap_previous", "connect")
  <2>1. Clear /\ player.voice = None
    BY <1>1, <1>9 DEF CallDisconnect
  <2>2. pc[u] = "previous" /\ Goto(u, "connect") /\ UNCHANGED <<player, sent, remote>>
    BY <1>9, <2>1 DEF CallDisconnect
  <2>3. At("connect", loc[u])
    BY <2>1
  <2> QED
    BY <2>2, <2>3, MoveCalm DEF Goto
<1>10. pc[u] # "nap_previous"
  BY <1>1
<1> QED
  BY <1>2, <1>3, <1>4, <1>5, <1>6, <1>7, <1>8, <1>9, <1>10 DEF EnsureVoice, CheckDiscord, Nap

-----------------------------------------------------------------------------
(* Connect.                                                                *)

\* What a Connect that nothing is left for relies on.
LEMMA ClearRemote ==
  ASSUME Clear
  PROVE  /\ requests = <<>> /\ Halves = {} /\ botChannel = None /\ updates = <<>>
         /\ events = <<>> /\ pc[Reader] = "read" /\ nodeVoice = None
         /\ ~LossUnread
BY DEF Clear, NoSession, LossUnread

LEMMA BeginConnectCalm ==
  ASSUME TypeOK, AnswerInv, CalmInv, NEW u \in Users, BeginConnect(u)
  PROVE  CalmInv'
<1>1. /\ pc[u] = "connect" /\ player \in Player
      /\ UNCHANGED <<sent, botChannel, requests, spawned, updates, nodeVoice, events>>
  BY DEF BeginConnect, TypeOK, DataOK, remote, discord, node
<1>2. /\ Clear /\ player.voice = None /\ player.waiters = {} /\ DiscordInv /\ LinkInv
  BY <1>1, AtWork DEF CalmInv, At
<1>3. CASE player.connecting
  <2>1. At("idle", loc[u])
    BY <1>2 DEF Clear, At, UserLabels, BegunLabels, DisconnectLabels
  <2>2. Goto(u, "idle") /\ UNCHANGED <<player, sent, remote>>
    BY <1>3 DEF BeginConnect
  <2> QED
    BY <1>1, <2>1, <2>2, MoveCalm DEF Goto
<1>4. CASE ~player.connecting
  <2> DEFINE s == loc[u]
             p == [player EXCEPT !.connecting = TRUE, !.pending = NoPending,
                                 !.channel = loc[u].target,
                                 !.waiters = player.waiters \cup {loc[u].command}]
  <2>1. player' = p /\ Goto(u, "ask_join")
    BY <1>4 DEF BeginConnect
  <2>2. /\ p.connecting /\ p.pending.channel = None /\ p.voice = None
        /\ p.waiters = {loc[u].command}
    BY <1>1, <1>2 DEF Player, NoPending
  <2> HIDE DEF p
  <2>3. pc'[Reader] = pc[Reader]
    BY <2>1, ReaderIsNoUser DEF Goto, Move, TypeOK, ControlOK
  <2>4. Halves' = {} /\ spawned' = SetToBag(Halves')
    BY <1>1, <1>2 DEF Halves, DiscordInv, Clear
  <2>5. Clear'
    BY <1>1, <1>2, <2>3, <2>4 DEF Clear, NoSession
  <2>6. DiscordInv'
    <3>1. DiscordPhase'
      BY <2>1, <2>2, <2>4 DEF DiscordPhase
    <3> QED
      BY <2>4, <2>5, <3>1 DEF DiscordInv, Clear
  <2>7. LinkInv'
    BY <2>1, <2>2, <2>5, ClearRemote DEF LinkInv, Clear, NoSession, LossUnread
  <2>8. sent[loc[u].command] = <<>>
    BY <1>1 DEF AnswerInv, Fresh
  <2>9. PICK t : t = loc[u]
    OBVIOUS
  <2>10. Unanswered(t.command)'
    BY <1>1, <2>1, <2>2, <2>8, <2>9 DEF Unanswered
  <2>11. At("ask_join", t)'
    BY <2>5, <2>10 DEF At, UserLabels, ConnectLabels, BegunLabels, DisconnectLabels
  <2>12. Move(u, "ask_join", t)
    BY <2>1, <2>9 DEF Goto
  <2>13. \A n \in player'.waiters : t.command = n
    BY <2>1, <2>2, <2>9
  <2> QED
    BY <1>1, <2>6, <2>7, <2>11, <2>12, <2>13, StepCalm
<1> QED
  BY <1>3, <1>4

LEMMA AskJoinCalm ==
  ASSUME TypeOK, CalmInv, NEW u \in Users, faults' = faults,
         UpdateVoice(u, "ask_join", loc[u].target, "wait", "refused")
  PROVE  CalmInv'
<1>1. /\ pc[u] = "ask_join" /\ Goto(u, "wait") /\ requests' = Append(requests, loc[u].target)
      /\ UNCHANGED <<player, sent, botChannel, spawned, updates, nodeVoice, events>>
  BY VoiceBounds DEF UpdateVoice, Fault, TypeOK, BoundsOK, node
<1>2. /\ Clear /\ Unanswered(loc[u].command) /\ DiscordInv /\ LinkInv
      /\ \A n \in player.waiters : loc[u].command = n
  BY <1>1, AtWork DEF CalmInv, At
<1>3. /\ requests' = <<loc[u].target>> /\ loc[u].target # None
      /\ updates = <<>> /\ Halves = {} /\ player.pending.channel = None
  BY <1>1, <1>2, NothingPending, ClearRemote DEF Clear, TypeOK, ControlOK
<1>4. Halves' = {} /\ spawned' = SetToBag(Halves')
  BY <1>1, <1>2, <1>3 DEF Halves, DiscordInv
<1>5. DiscordInv'
  <2>1. DiscordPhase'
    BY <1>1, <1>3, <1>4 DEF DiscordPhase
  <2> QED
    BY <1>1, <1>3, <1>4, <2>1 DEF DiscordInv
<1>6. pc'[Reader] = pc[Reader]
  BY <1>1, ReaderIsNoUser DEF Goto, Move, TypeOK, ControlOK
<1>7. NoSession' /\ botChannel' = None /\ ~LossUnread'
  BY <1>1, <1>2, <1>6, ClearRemote DEF NoSession, LossUnread
<1>8. LinkInv'
  BY <1>1, <1>2, <1>7 DEF LinkInv, NoSession
<1>9. PICK s : s = loc[u]
  OBVIOUS
<1>10. Unanswered(s.command)' /\ AnswerComes'
  BY <1>1, <1>2, <1>3, <1>7, <1>9 DEF Unanswered, AnswerComes
<1>11. At("wait", s)'
  <2>1. (sent[s.command] = <<>>)'
    BY <1>10 DEF Unanswered
  <2> HIDE DEF Unanswered, AnswerComes
  <2> QED
    BY <1>10, <2>1 DEF At, UserLabels, ConnectLabels, BegunLabels, DisconnectLabels
<1>12. Move(u, "wait", s)
  BY <1>1, <1>9 DEF Goto
<1>13. \A n \in player'.waiters : s.command = n
  BY <1>1, <1>2, <1>9
<1> QED
  BY <1>1, <1>5, <1>8, <1>11, <1>12, <1>13, StepCalm

\* Once all has settled the answer of a Connect is there.
LEMMA SettledAnswered ==
  ASSUME CalmInv, Settled
  PROVE  ~AnswerComes
<1>1. Halves = {} /\ requests = <<>> /\ updates = <<>> /\ events = <<>>
  BY NothingToCome DEF CalmInv, Settled, LinkdaveSettled
<1>2. \A x, y : {x} # {} /\ {x, y} # {}
  OBVIOUS
<1>3. ~BothToCome /\ ~StateToCome /\ ~ServerToCome
  BY <1>1, <1>2 DEF BothToCome, StateToCome, ServerToCome
<1> QED
  BY <1>1, <1>3 DEF AnswerComes

LEMMA AwaitCalm ==
  ASSUME Calm, TypeOK, AnswerInv, SessionInv, CalmInv, NEW u \in Users, AwaitAnswer(u)
  PROVE  CalmInv'
<1>1. pc[u] = "wait" /\ UNCHANGED <<player, sent, remote>>
  BY DEF AwaitAnswer
<1>2. /\ Alone(u) /\ \A n \in player.waiters : loc[u].command = n
      /\ IF sent[loc[u].command] = <<>>
           THEN Unanswered(loc[u].command) /\ AnswerComes ELSE requests = <<>>
  BY <1>1, AtWork DEF CalmInv, At
<1>3. Settled => sent[loc[u].command] # <<>>
  BY <1>2, SettledAnswered
<1>4. sent[loc[u].command] # <<>>
  BY <1>3 DEF AwaitAnswer
<1>5. player.waiters = {}
  BY <1>2, <1>4 DEF AnswerInv
<1>6. CASE Goto(u, "idle")
  <2>1. At("idle", loc[u])
    BY <1>2, <1>4 DEF At, UserLabels, BegunLabels, DisconnectLabels
  <2> QED
    BY <1>1, <1>2, <1>5, <1>6, <2>1, StillCalm DEF Goto
<1>7. CASE Settled /\ Move(u, "had_voice", [loc[u] EXCEPT !.next = "idle"])
  <2> DEFINE s == [loc[u] EXCEPT !.next = "idle"]
  <2>1. s.next = "idle"
    BY DEF TypeOK, ControlOK, Locals
  <2>2. Begun
    BY <1>7, SettledBegun
  <2>3. At("had_voice", s)
    BY <2>1, <2>2 DEF At, UserLabels, EnsureLabels, BegunLabels, DisconnectLabels
  <2>4. Move(u, "had_voice", s)
    BY <1>7
  <2> HIDE DEF s
  <2> QED
    BY <1>1, <1>2, <1>5, <2>3, <2>4, StillCalm
<1> QED
  BY <1>6, <1>7 DEF AwaitAnswer

LEMMA ConnectCalm ==
  ASSUME Calm, TypeOK, AnswerInv, SessionInv, CalmInv, NEW u \in Users, Connect(u),
         faults' = faults
  PROVE  CalmInv'
<1>1. pc[u] # "refused"
  BY AtWork DEF CalmInv, At
<1> QED
  BY <1>1, BeginConnectCalm, AskJoinCalm, AwaitCalm DEF Connect, FinishConnect

-----------------------------------------------------------------------------
(* Gateway events.                                                         *)

\* What is left of tryConnectLinkdaveLocked when nothing fails.
Arrives(p) ==
  IF Complete(p)
    THEN player' = Credentials(p) /\ updates' = Append(updates, p.pending.channel)
    ELSE player' = p /\ UNCHANGED updates

GatewayStep(e) ==
  /\ spawned' = SetToBag(Halves \ {e}) /\ Halves' = Halves \ {e}
  /\ e \in {VoiceState(None), VoiceServer(FALSE)} =>
       player' = ResetVoice(player) /\ UNCHANGED updates
  /\ e \notin {VoiceState(None), VoiceServer(FALSE)} =>
       Arrives(IF e.type = "state"
                 THEN [player EXCEPT !.pending.channel = e.channel]
                 ELSE [player EXCEPT !.pending.server = TRUE])
  /\ requests = <<>>
  /\ UNCHANGED <<sent, botChannel, requests, nodeVoice, events, pc, loc>>

LEMMA GatewayFacts ==
  ASSUME Calm, TypeOK, CalmInv, HandleGatewayEvent, faults' = faults
  PROVE  LinkdaveSettled /\ \E e \in Halves : GatewayStep(e)
<1>1. PICK e \in Halves :
        /\ spawned' = spawned (-) SetToBag({e})
        /\ IF e \in {VoiceState(None), VoiceServer(FALSE)}
             THEN player' = ResetVoice(player) /\ UNCHANGED <<sent, updates, faults>>
             ELSE TryConnect(IF e.type = "state"
                               THEN [player EXCEPT !.pending.channel = e.channel]
                               ELSE [player EXCEPT !.pending.server = TRUE])
  BY DEF HandleGatewayEvent, Halves
<1>2. spawned = SetToBag(Halves) /\ (requests # <<>> => Halves = {})
  BY DEF CalmInv, DiscordInv
<1>3. spawned' = SetToBag(Halves \ {e}) /\ Halves' = Halves \ {e}
  <2>1. spawned' = SetToBag(Halves \ {e})
    BY <1>1, <1>2, SetBags
  <2>2. BagToSet(SetToBag(Halves \ {e})) = Halves \ {e}
    BY SetBags
  <2> QED
    BY <2>1, <2>2 DEF Halves
<1>4. ~Fault
  BY VoiceBounds DEF Fault, TypeOK, BoundsOK
<1>5. \A p : TryConnect(p) => Arrives(p) /\ sent' = sent
  BY <1>4 DEF TryConnect, Arrives
<1>6. /\ LinkdaveSettled
      /\ UNCHANGED <<botChannel, requests, nodeVoice, events, pc, loc>>
  BY DEF HandleGatewayEvent, node
<1> HIDE DEF Halves
<1> QED
  BY <1>1, <1>2, <1>3, <1>5, <1>6 DEF GatewayStep

\* The second half has arrived: the credentials are on their way.
CredentialsSent ==
  /\ botChannel # None /\ nodeVoice = None
  /\ updates' = <<botChannel>>
  /\ player'.voice = botChannel /\ player'.channel = botChannel
  /\ player'.connecting = player.connecting /\ player'.waiters = player.waiters

HalfKept ==
  /\ UNCHANGED updates
  /\ player'.voice = player.voice /\ player'.channel = player.channel
  /\ player'.connecting = player.connecting /\ player'.waiters = player.waiters
  /\ AnswerComes => AnswerComes'

Forgotten ==
  /\ UNCHANGED updates
  /\ player' = ResetVoice(player)
  /\ botChannel = None \/ nodeVoice = None
  /\ ~AnswerComes

LEMMA Pending ==
  ASSUME player \in Player
  PROVE  /\ \A c :
              LET p == [player EXCEPT !.pending.channel = c]
              IN  /\ p.pending = [channel |-> c, server |-> player.pending.server]
                  /\ p.voice = player.voice /\ p.channel = player.channel
                  /\ p.connecting = player.connecting /\ p.waiters = player.waiters
                  /\ Credentials(p).pending = NoPending
                  /\ Credentials(p).voice = c /\ Credentials(p).channel = c
                  /\ Credentials(p).connecting = player.connecting
                  /\ Credentials(p).waiters = player.waiters
         /\ LET p == [player EXCEPT !.pending.server = TRUE]
                c == player.pending.channel
            IN  /\ p.pending = [channel |-> c, server |-> TRUE]
                /\ p.voice = player.voice /\ p.channel = player.channel
                /\ p.connecting = player.connecting /\ p.waiters = player.waiters
                /\ Credentials(p).pending = NoPending
                /\ Credentials(p).voice = c /\ Credentials(p).channel = c
                /\ Credentials(p).connecting = player.connecting
                /\ Credentials(p).waiters = player.waiters
BY DEF Player, Credentials, NoPending

LEMMA StateArrives ==
  ASSUME player \in Player, NEW c, c # None, GatewayStep(VoiceState(c))
  PROVE  /\ player'.connecting = player.connecting /\ player'.waiters = player.waiters
         /\ IF player.pending.server
              THEN /\ player'.pending = NoPending /\ updates' = Append(updates, c)
                   /\ player'.voice = c /\ player'.channel = c
              ELSE /\ player'.pending = [channel |-> c, server |-> FALSE]
                   /\ player'.voice = player.voice /\ player'.channel = player.channel
                   /\ UNCHANGED updates
<1> DEFINE p == [player EXCEPT !.pending.channel = c]
<1>1. Arrives(p)
  BY EventsDiffer DEF GatewayStep
<1>2. /\ p.pending = [channel |-> c, server |-> player.pending.server]
      /\ p.voice = player.voice /\ p.channel = player.channel
      /\ p.connecting = player.connecting /\ p.waiters = player.waiters
      /\ Credentials(p).pending = NoPending
      /\ Credentials(p).voice = c /\ Credentials(p).channel = c
      /\ Credentials(p).connecting = player.connecting
      /\ Credentials(p).waiters = player.waiters
  BY Pending
<1> HIDE DEF p
<1>3. Complete(p) <=> player.pending.server
  BY <1>2 DEF Complete
<1>4. player.pending.server \in BOOLEAN /\ p.pending.channel = c
  BY <1>2 DEF Player
<1>5. CASE player.pending.server
  <2>1. player' = Credentials(p) /\ updates' = Append(updates, c)
    BY <1>1, <1>3, <1>4, <1>5 DEF Arrives
  <2> QED
    BY <1>2, <1>5, <2>1
<1>6. CASE ~player.pending.server
  <2>1. player' = p /\ UNCHANGED updates
    BY <1>1, <1>3, <1>6 DEF Arrives
  <2>2. player'.pending = [channel |-> c, server |-> FALSE]
    BY <1>2, <1>4, <1>6, <2>1
  <2> QED
    BY <1>2, <1>6, <2>1, <2>2
<1> QED
  BY <1>4, <1>5, <1>6

LEMMA ServerArrives ==
  ASSUME player \in Player, GatewayStep(VoiceServer(TRUE))
  PROVE  /\ player'.connecting = player.connecting /\ player'.waiters = player.waiters
         /\ IF player.pending.channel # None
              THEN /\ player'.pending = NoPending
                   /\ updates' = Append(updates, player.pending.channel)
                   /\ player'.voice = player.pending.channel
                   /\ player'.channel = player.pending.channel
              ELSE /\ player'.pending = [channel |-> None, server |-> TRUE]
                   /\ player'.voice = player.voice /\ player'.channel = player.channel
                   /\ UNCHANGED updates
<1> DEFINE p == [player EXCEPT !.pending.server = TRUE]
           c == player.pending.channel
<1>1. Arrives(p)
  BY EventsDiffer DEF GatewayStep
<1>2. /\ p.pending = [channel |-> c, server |-> TRUE]
      /\ p.voice = player.voice /\ p.channel = player.channel
      /\ p.connecting = player.connecting /\ p.waiters = player.waiters
      /\ Credentials(p).pending = NoPending
      /\ Credentials(p).voice = c /\ Credentials(p).channel = c
      /\ Credentials(p).connecting = player.connecting
      /\ Credentials(p).waiters = player.waiters
  BY Pending
<1> HIDE DEF p, c
<1>3. Complete(p) <=> c # None
  BY <1>2 DEF Complete
<1>4. p.pending.channel = c
  BY <1>2
<1>5. CASE c # None
  <2>1. player' = Credentials(p) /\ updates' = Append(updates, c)
    BY <1>1, <1>3, <1>4, <1>5 DEF Arrives
  <2> QED
    BY <1>2, <1>5, <2>1 DEF c
<1>6. CASE c = None
  <2>1. player' = p /\ UNCHANGED updates
    BY <1>1, <1>3, <1>6 DEF Arrives
  <2> QED
    BY <1>2, <1>6, <2>1 DEF c
<1> QED
  BY <1>5, <1>6

\* One lemma for each phase.
LEMMA FirstHalf ==
  ASSUME TypeOK, LinkdaveSettled, BothToCome, NEW e \in Halves, GatewayStep(e)
  PROVE  DiscordPhase' /\ (CredentialsSent \/ HalfKept)
<1>1. /\ player \in Player /\ botChannel # None /\ nodeVoice = None
      /\ player.pending.channel = None /\ updates = <<>> /\ events = <<>>
      /\ pc[Reader] = "read"
  BY DEF TypeOK, DataOK, LinkdaveSettled, BothToCome
<1>2. UNCHANGED <<botChannel, nodeVoice, events, pc, requests>> /\ requests = <<>>
  BY DEF GatewayStep
<1>3. /\ Halves' = {VoiceState(botChannel), VoiceServer(TRUE)} \ {e}
      /\ VoiceState(botChannel) # VoiceServer(TRUE)
  BY EventsDiffer DEF BothToCome, GatewayStep
<1>4. CASE e = VoiceState(botChannel)
  <2>1. PICK c : c = botChannel
    OBVIOUS
  <2>2. GatewayStep(VoiceState(c))
    BY <1>4, <2>1
  <2>3. Halves' = {VoiceServer(TRUE)}
    BY <1>3, <1>4
  <2>4. CASE player.pending.server
    <3>1. CredentialsSent
      BY <1>1, <2>1, <2>2, <2>4, StateArrives DEF CredentialsSent
    <3>2. player'.pending.channel = None
      BY <1>1, <2>1, <2>2, <2>4, StateArrives DEF NoPending
    <3> QED
      BY <1>1, <1>2, <2>3, <3>1, <3>2 DEF DiscordPhase
  <2>5. CASE ~player.pending.server
    <3>1. /\ player'.connecting = player.connecting /\ player'.waiters = player.waiters
          /\ player'.pending = [channel |-> c, server |-> FALSE]
          /\ player'.voice = player.voice /\ player'.channel = player.channel
          /\ UNCHANGED updates
      BY <1>1, <2>1, <2>2, <2>5, StateArrives
    <3>2. ServerToCome'
      BY <1>1, <1>2, <2>1, <2>3, <3>1 DEF ServerToCome, NoSession
    <3> QED
      BY <1>2, <3>1, <3>2 DEF DiscordPhase, HalfKept, AnswerComes
  <2> QED
    BY <2>4, <2>5
<1>5. CASE e = VoiceServer(TRUE)
  <2>1. Halves' = {VoiceState(botChannel)}
    BY <1>3, <1>5
  <2>2. /\ player'.connecting = player.connecting /\ player'.waiters = player.waiters
        /\ player'.pending = [channel |-> None, server |-> TRUE]
        /\ player'.voice = player.voice /\ player'.channel = player.channel
        /\ UNCHANGED updates
    BY <1>1, <1>5, ServerArrives
  <2>3. StateToCome'
    BY <1>1, <1>2, <2>1, <2>2 DEF StateToCome, NoSession
  <2> QED
    BY <1>2, <2>2, <2>3 DEF DiscordPhase, HalfKept, AnswerComes
<1> QED
  BY <1>4, <1>5 DEF BothToCome

LEMMA SecondHalf ==
  ASSUME TypeOK, StateToCome \/ ServerToCome, NEW e \in Halves, GatewayStep(e)
  PROVE  DiscordPhase' /\ CredentialsSent
<1>1. player \in Player /\ botChannel # None /\ nodeVoice = None /\ updates = <<>>
  BY DEF TypeOK, DataOK, StateToCome, ServerToCome, NoSession
<1>2. Halves' = {}
  BY DEF StateToCome, ServerToCome, GatewayStep
<1>3. CredentialsSent /\ player'.pending = NoPending
  <2>1. CASE StateToCome
    <3>1. PICK c : c = botChannel
      OBVIOUS
    <3>2. GatewayStep(VoiceState(c)) /\ player.pending.server
      BY <2>1, <3>1 DEF StateToCome
    <3> QED
      BY <1>1, <3>1, <3>2, StateArrives DEF CredentialsSent
  <2>2. CASE ServerToCome
    <3>1. e = VoiceServer(TRUE) /\ player.pending.channel = botChannel
      BY <2>2 DEF ServerToCome
    <3>2. GatewayStep(VoiceServer(TRUE))
      BY <3>1
    <3> QED
      BY <1>1, <3>1, <3>2, ServerArrives DEF CredentialsSent
  <2> QED
    BY <2>1, <2>2
<1> QED
  BY <1>2, <1>3 DEF DiscordPhase, NoPending

LEMMA PhaseOfAnswer ==
  ASSUME LinkdaveSettled, requests = <<>>, AnswerComes
  PROVE  /\ botChannel # None
         /\ \/ VoiceState(botChannel) \in Halves
            \/ Halves = {VoiceServer(TRUE)} /\ player.pending.channel = botChannel
<1>1. BothToCome \/ StateToCome \/ ServerToCome
  BY DEF AnswerComes, LinkdaveSettled
<1> HIDE DEF Halves
<1>2. CASE BothToCome
  BY <1>2 DEF BothToCome
<1>3. CASE StateToCome
  BY <1>3 DEF StateToCome
<1>4. CASE ServerToCome
  BY <1>4 DEF ServerToCome
<1> QED
  BY <1>1, <1>2, <1>3, <1>4

\* One half alone, when the voice server changes.
LEMMA ServerHalf ==
  ASSUME TypeOK, LinkdaveSettled, NEW e \in Halves, GatewayStep(e),
         Halves = {VoiceServer(TRUE)}, player.pending.channel = None, botChannel # None
  PROVE  DiscordPhase' /\ HalfKept
<1>1. e = VoiceServer(TRUE)
  OBVIOUS
<1>2. GatewayStep(VoiceServer(TRUE)) /\ player \in Player
  BY <1>1 DEF TypeOK, DataOK
<1>3. Halves' = {}
  BY DEF GatewayStep
<1>4. /\ player'.connecting = player.connecting /\ player'.waiters = player.waiters
      /\ player'.pending = [channel |-> None, server |-> TRUE]
      /\ player'.voice = player.voice /\ player'.channel = player.channel
      /\ UNCHANGED updates
  BY <1>2, ServerArrives
<1>5. ~AnswerComes
  <2>1. VoiceState(botChannel) \notin Halves /\ requests = <<>>
    BY <1>2, EventsDiffer DEF GatewayStep
  <2> QED
    BY <2>1, PhaseOfAnswer
<1> QED
  BY <1>3, <1>4, <1>5 DEF DiscordPhase, HalfKept

\* The bot is out of the channel, or out of the voice server.
LEMMA OutOfVoice ==
  ASSUME TypeOK, LinkdaveSettled, NEW e \in Halves, GatewayStep(e),
         player.pending.channel = None,
         \/ Halves = {VoiceState(None)} /\ botChannel = None
         \/ /\ Halves \in {{VoiceServer(FALSE)}, {VoiceServer(FALSE), VoiceServer(TRUE)}}
            /\ botChannel # None /\ nodeVoice = None
  PROVE  DiscordPhase' /\ (HalfKept \/ Forgotten)
<1>1. /\ requests = <<>> /\ updates = <<>> /\ player \in Player
      /\ UNCHANGED <<botChannel, nodeVoice>> /\ Halves' = Halves \ {e}
  BY DEF GatewayStep, LinkdaveSettled, TypeOK, DataOK
<1>2. ~AnswerComes
  <2>1. VoiceState(None) \in Halves \/ VoiceServer(FALSE) \in Halves
    OBVIOUS
  <2>2. Halves # {VoiceServer(TRUE)}
    BY <2>1, EventsDiffer
  <2>3. botChannel # None => VoiceState(botChannel) \notin Halves
    <3>1. VoiceState(botChannel) \notin {VoiceServer(TRUE), VoiceServer(FALSE)}
      BY EventsDiffer
    <3>2. botChannel # None => VoiceState(botChannel) # VoiceState(None)
      BY EventsDiffer
    <3> QED
      BY <3>1, <3>2
  <2> QED
    BY <1>1, <2>2, <2>3, PhaseOfAnswer
<1>3. CASE e \in {VoiceState(None), VoiceServer(FALSE)}
  <2>1. player' = ResetVoice(player) /\ UNCHANGED updates
    BY <1>3 DEF GatewayStep
  <2>2. player'.pending.channel = None
    BY <2>1 DEF ResetVoice, NewPlayer, NoPending
  <2>3. Halves' = {} \/ (Halves' = {VoiceServer(TRUE)} /\ botChannel # None)
    <3>1. VoiceState(None) # VoiceServer(FALSE) /\ VoiceServer(TRUE) # VoiceServer(FALSE)
          /\ VoiceState(None) # VoiceServer(TRUE)
      BY EventsDiffer
    <3>2. CASE Halves = {VoiceState(None)} /\ botChannel = None
      BY <1>1, <3>2
    <3>3. CASE Halves = {VoiceServer(FALSE)} /\ botChannel # None
      BY <1>1, <3>3
    <3>4. CASE Halves = {VoiceServer(FALSE), VoiceServer(TRUE)} /\ botChannel # None
      BY <1>1, <1>3, <3>1, <3>4
    <3> QED
      BY <3>2, <3>3, <3>4
  <2>4. DiscordPhase'
    BY <1>1, <2>2, <2>3 DEF DiscordPhase
  <2>5. Forgotten
    BY <1>2, <2>1 DEF Forgotten
  <2> QED
    BY <2>4, <2>5
<1>4. CASE e \notin {VoiceState(None), VoiceServer(FALSE)}
  <2>1. /\ e = VoiceServer(TRUE) /\ Halves = {VoiceServer(FALSE), VoiceServer(TRUE)}
        /\ botChannel # None /\ nodeVoice = None
    BY <1>4
  <2>2. GatewayStep(VoiceServer(TRUE)) /\ Halves' = {VoiceServer(FALSE)}
    BY <1>1, <2>1, EventsDiffer
  <2>3. /\ player'.connecting = player.connecting /\ player'.waiters = player.waiters
        /\ player'.pending = [channel |-> None, server |-> TRUE]
        /\ player'.voice = player.voice /\ player'.channel = player.channel
        /\ UNCHANGED updates
    BY <1>1, <2>2, ServerArrives
  <2>4. DiscordPhase'
    <3>1. /\ Halves' \in {{VoiceServer(FALSE)}, {VoiceServer(FALSE), VoiceServer(TRUE)}}
          /\ botChannel' # None /\ nodeVoice' = None /\ updates' = <<>>
      BY <1>1, <2>1, <2>2, <2>3
    <3>2. player'.pending.channel = None
      BY <2>3
    <3> QED
      BY <3>1, <3>2 DEF DiscordPhase
  <2>5. HalfKept
    BY <1>2, <2>3 DEF HalfKept
  <2> QED
    BY <2>4, <2>5
<1> QED
  BY <1>3, <1>4

LEMMA GatewayOutcome ==
  ASSUME TypeOK, LinkdaveSettled, DiscordInv, NEW e \in Halves, GatewayStep(e)
  PROVE  DiscordInv' /\ (CredentialsSent \/ HalfKept \/ Forgotten)
<1>1. DiscordPhase /\ Halves # {}
  BY DEF DiscordInv
<1>2. DiscordPhase' /\ (CredentialsSent \/ HalfKept \/ Forgotten)
  <2> HIDE DEF Halves, BothToCome, StateToCome, ServerToCome
  <2>1. \/ BothToCome \/ StateToCome \/ ServerToCome
        \/ Halves = {VoiceServer(TRUE)} /\ player.pending.channel = None /\ botChannel # None
        \/ /\ player.pending.channel = None
           /\ \/ Halves = {VoiceState(None)} /\ botChannel = None
              \/ /\ Halves \in {{VoiceServer(FALSE)}, {VoiceServer(FALSE), VoiceServer(TRUE)}}
                 /\ botChannel # None /\ nodeVoice = None
    BY <1>1 DEF DiscordPhase
  <2> QED
    BY <2>1, FirstHalf, SecondHalf, ServerHalf, OutOfVoice
<1>3. requests' = <<>> /\ spawned' = SetToBag(Halves')
  BY DEF GatewayStep
<1> QED
  BY <1>2, <1>3 DEF DiscordInv

\* Steps of the others, seen by the users.
LEMMA OthersCalm ==
  ASSUME TypeOK, UsersInv, player'.waiters \subseteq player.waiters,
         \A u \in Users : pc'[u] = pc[u] /\ loc'[u] = loc[u],
         AllIdle => (requests = <<>> \/ AskedToLeave)',
         \A l, s : At(l, s) /\ s.command \in 1 .. MaxCommands => At(l, s)'
  PROVE  UsersInv'
<1>1. ASSUME NEW u \in Users, pc'[u] # "idle"
      PROVE  Alone(u)' /\ At(pc[u], loc[u])'
  <2>1. Alone(u) /\ At(pc[u], loc[u]) /\ loc[u].command \in 1 .. MaxCommands
    BY <1>1, VoiceBounds DEF UsersInv, TypeOK, ControlOK, Locals
  <2>2. PICK l, s : l = pc[u] /\ s = loc[u]
    OBVIOUS
  <2>3. At(l, s)' /\ l = pc'[u] /\ s = loc'[u]
    BY <2>1, <2>2
  <2> QED
    BY <2>1, <2>3 DEF Alone
<1>2. AllIdle' => (requests = <<>> \/ AskedToLeave)'
  BY DEF AllIdle
<1>3. WaitersInv'
  BY DEF UsersInv, WaitersInv
<1> QED
  BY <1>1, <1>2, <1>3 DEF UsersInv

LEMMA GatewayCalm ==
  ASSUME Calm, TypeOK, CalmInv, HandleGatewayEvent, faults' = faults
  PROVE  CalmInv'
<1>1. LinkdaveSettled /\ \E e \in Halves : GatewayStep(e)
  BY GatewayFacts
<1>2. PICK e \in Halves : GatewayStep(e)
  BY <1>1
<1>3. DiscordInv' /\ (CredentialsSent \/ HalfKept \/ Forgotten)
  BY <1>1, <1>2, GatewayOutcome DEF CalmInv
<1>4. /\ requests = <<>> /\ Halves # {} /\ updates = <<>> /\ events = <<>>
      /\ pc[Reader] = "read"
      /\ UNCHANGED <<sent, botChannel, requests, nodeVoice, events, pc, loc>>
  BY <1>1, <1>2 DEF GatewayStep, LinkdaveSettled
<1>5. Forgotten => /\ player'.voice = None /\ player'.waiters = player.waiters
  BY DEF Forgotten, ResetVoice, NewPlayer
<1>6. LinkInv'
  <2>1. ~LossUnread'
    BY <1>4 DEF LossUnread
  <2>2. player'.voice # None => player'.channel = player'.voice
    BY <1>3, <1>5 DEF CalmInv, LinkInv, CredentialsSent, HalfKept
  <2>3. nodeVoice # None => player'.voice = nodeVoice \/ AskedToLeave \/ botChannel # nodeVoice
    BY <1>3, <1>5 DEF CalmInv, LinkInv, CredentialsSent, HalfKept, Forgotten
  <2>4. updates' # <<>> => /\ Len(updates') = 1 /\ updates'[1] = player'.voice
                           /\ nodeVoice = None
    BY <1>3, <1>4 DEF CredentialsSent, HalfKept, Forgotten
  <2> QED
    BY <1>4, <2>1, <2>2, <2>3, <2>4 DEF LinkInv, AskedToLeave
<1>7. AnswerComes => AnswerComes' /\ player'.connecting = player.connecting
  <2>1. CredentialsSent => AnswerComes'
    BY <1>4 DEF CredentialsSent, AnswerComes
  <2> QED
    BY <1>3, <2>1 DEF CredentialsSent, HalfKept, Forgotten
<1>8. player'.waiters = player.waiters
  BY <1>3, <1>5 DEF CredentialsSent, HalfKept
<1>9. Left => Left' /\ (player.voice = None => player'.voice = None)
  <2>1. Left => botChannel = None
    BY <1>4 DEF Left, AskedToLeave
  <2>2. Left => updates' = <<>> /\ (player.voice = None => player'.voice = None)
    BY <1>3, <1>4, <1>5, <2>1 DEF CredentialsSent, HalfKept, Forgotten
  <2> QED
    BY <1>4, <2>1, <2>2 DEF Left
<1>10. ~Begun /\ ~Clear
  BY <1>4 DEF Begun, Clear
<1>11. ASSUME NEW l, NEW s, At(l, s)
       PROVE  At(l, s)'
  <2>1. sent[s.command] = <<>> /\ l = "wait" => (Unanswered(s.command) /\ AnswerComes)'
    BY <1>4, <1>7, <1>8, <1>11 DEF At, Unanswered
  <2>2. l \notin BegunLabels \cup {"previous", "connect", "ask_join"}
    BY <1>10, <1>11 DEF At
  <2>3. l \in {"idle", "reset", "nap_fresh", "rest", "drop", "wait"}
    BY <1>11, <2>2 DEF At, UserLabels, EnsureLabels, ConnectLabels, DisconnectLabels, BegunLabels
  <2> HIDE DEF Left, AnswerComes, Unanswered, Begun, Clear
  <2> QED
    BY <1>4, <1>9, <1>11, <2>1, <2>2, <2>3 DEF At, BegunLabels
<1>12. UsersInv'
  BY <1>4, <1>8, <1>11, OthersCalm DEF CalmInv
<1> QED
  BY <1>3, <1>6, <1>12 DEF CalmInv

-----------------------------------------------------------------------------
(* The read loop.                                                          *)

\* What the three steps of the read loop have in common.
ReaderStep ==
  /\ UNCHANGED <<botChannel, requests, spawned, updates, nodeVoice, loc>>
  /\ \A u \in Users : pc'[u] = pc[u]
  /\ ~NoSession /\ updates = <<>>
  /\ LossUnread' => nodeVoice = None
  /\ player'.pending \in {player.pending, NoPending}
  /\ \/ player'.voice = player.voice /\ player'.channel = player.channel
     \/ player'.voice = None /\ nodeVoice = None
  /\ player'.waiters \subseteq player.waiters
  /\ \A n \in 1 .. MaxCommands : sent[n] # <<>> => sent'[n] # <<>>
  /\ \A n \in 1 .. MaxCommands :
       Unanswered(n) /\ AnswerComes => requests = <<>> /\ sent'[n] # <<>>

LEMMA NoSessionHalves ==
  ASSUME ~NoSession
  PROVE  ~StateToCome /\ ~ServerToCome /\ ~Clear /\ (Begun => botChannel # None)
BY DEF StateToCome, ServerToCome, Clear, Begun

LEMMA ReaderStepCalm ==
  ASSUME TypeOK, CalmInv, ReaderStep
  PROVE  CalmInv'
<1>1. /\ UNCHANGED <<botChannel, requests, spawned, updates, nodeVoice, loc>>
      /\ \A u \in Users : pc'[u] = pc[u]
      /\ updates = <<>> /\ Halves' = Halves
      /\ ~StateToCome /\ ~ServerToCome /\ ~Clear /\ (Begun => botChannel # None)
  BY NoSessionHalves DEF ReaderStep, Halves
<1>2. player'.voice # None => player'.voice = player.voice /\ player'.channel = player.channel
  BY DEF ReaderStep
<1>3. DiscordInv'
  <2>1. player.pending.channel = None => player'.pending.channel = None
    BY DEF ReaderStep, NoPending
  <2>2. BothToCome => BothToCome'
    BY <1>1, <2>1 DEF BothToCome
  <2>3. DiscordPhase'
    <3> HIDE DEF Halves, BothToCome
    <3> QED
      BY <1>1, <2>1, <2>2 DEF DiscordPhase, CalmInv, DiscordInv
  <2> QED
    BY <1>1, <2>3 DEF CalmInv, DiscordInv
<1>4. LinkInv'
  <2>1. LossUnread' => nodeVoice' = None /\ updates' = <<>>
    BY <1>1 DEF ReaderStep
  <2>2. nodeVoice' # None => (player.voice = nodeVoice \/ AskedToLeave \/ botChannel # nodeVoice)'
    BY <1>1 DEF CalmInv, LinkInv, ReaderStep, AskedToLeave
  <2>3. player'.voice # None => player'.channel = player'.voice
    BY <1>2 DEF CalmInv, LinkInv
  <2> QED
    BY <1>1, <2>1, <2>2, <2>3 DEF LinkInv
<1>5. (Begun => Begun') /\ (Left => Left') /\ (AskedToLeave => AskedToLeave')
  BY <1>1, <1>2 DEF Begun, Left, AskedToLeave
<1>6. ASSUME NEW l, NEW s, At(l, s), s.command \in 1 .. MaxCommands
      PROVE  At(l, s)'
  <2>1. l = "wait" => requests = <<>> /\ sent'[s.command] # <<>>
    BY <1>6 DEF At, ReaderStep
  <2>2. l \notin {"previous", "connect", "ask_join"}
    BY <1>1, <1>6 DEF At
  <2>3. /\ l \in UserLabels \ {"refused", "nap_previous"}
        /\ l \in DisconnectLabels => s.next = "idle"
    BY <1>6 DEF At
  <2> HIDE DEF Left, AnswerComes, Unanswered, Begun, Clear
  <2>4. /\ l \in BegunLabels => Begun'
        /\ l \in {"reset", "nap_fresh", "rest", "drop"} => Left'
        /\ l = "idle" => (requests = <<>> \/ AskedToLeave)'
    BY <1>1, <1>5, <1>6 DEF At
  <2>5. /\ l = "stale" /\ player'.voice # None => botChannel' # s.target
        /\ l = "unknown" => player'.voice = None
        /\ l = "nap_fresh" => player'.voice = None
        /\ l = "leave_connected" => botChannel' = None
    BY <1>1, <1>2, <1>6 DEF At
  <2>6. l = "wait" => requests' = <<>> /\ sent'[s.command] # <<>>
    BY <1>1, <2>1
  <2> QED
    BY <2>2, <2>3, <2>4, <2>5, <2>6 DEF At
<1>7. AllIdle => (requests = <<>> \/ AskedToLeave)'
  BY <1>1, <1>5 DEF CalmInv, UsersInv
<1>8. UsersInv'
  BY <1>1, <1>6, <1>7, OthersCalm DEF CalmInv, ReaderStep
<1> QED
  BY <1>3, <1>4, <1>8 DEF CalmInv

LEMMA ReaderCalm ==
  ASSUME TypeOK, CalmInv, OnVoiceConnect \/ OnVoiceDisconnect \/ ResetAfterDisconnect
  PROVE  CalmInv'
<1>1. /\ UNCHANGED <<botChannel, requests, spawned, updates, nodeVoice, loc>>
      /\ \A u \in Users : pc'[u] = pc[u]
  BY ReaderIsNoUser DEF OnVoiceConnect, OnVoiceDisconnect, ResetAfterDisconnect, remote,
     discord, node, TypeOK, ControlOK
<1>2. ~NoSession
  BY DEF OnVoiceConnect, OnVoiceDisconnect, ResetAfterDisconnect, NoSession
<1>3. pc[Reader] = "reset" \/ events # <<>>
  BY DEF OnVoiceConnect, OnVoiceDisconnect, ResetAfterDisconnect
<1>4. updates = <<>>
  BY <1>3 DEF CalmInv, LinkInv
<1>5. player \in Player /\ sent \in [1 .. MaxCommands -> Seq({"ok", "failed"})]
      /\ events \in Seq(NodeEvent)
  BY DEF TypeOK, DataOK
<1>6. \A r, n : n \in 1 .. MaxCommands /\ Answer(r) =>
        /\ n \in player.waiters => sent'[n] # <<>>
        /\ sent[n] # <<>> => sent'[n] # <<>>
  <2>1. \A r, n : n \in 1 .. MaxCommands => Append(sent[n], r) # <<>>
    <3> SUFFICES ASSUME NEW r, NEW n \in 1 .. MaxCommands PROVE Append(sent[n], r) # <<>>
      OBVIOUS
    <3>1. PICK q \in Seq({"ok", "failed"}) : q = sent[n]
      BY <1>5
    <3>2. Len(Append(q, r)) = Len(q) + 1 /\ Len(q) \in Nat
      OBVIOUS
    <3> QED
      BY <3>1, <3>2
  <2> QED
    BY <1>5, <2>1 DEF Answer
<1>7. AnswerComes => /\ requests = <<>> /\ pc[Reader] = "read" /\ events # <<>>
                     /\ Head(events).type = "connect" \/ Head(events).reason # "requested"
  BY <1>2, <1>4, NoSessionHalves DEF AnswerComes
<1>8. CASE OnVoiceConnect
  <2>1. /\ player'.pending = player.pending /\ player'.waiters = {}
        /\ player'.voice = player.voice /\ player'.channel = player.channel
    BY <1>5, <1>8 DEF OnVoiceConnect, GiveUp, Player
  <2>2. Answer("ok") /\ pc' = pc /\ events' = Tail(events) /\ events # <<>>
    BY <1>8 DEF OnVoiceConnect
  <2>3. LossUnread' => nodeVoice = None
    <3>1. \A i \in DOMAIN events' : i + 1 \in DOMAIN events /\ events'[i] = events[i + 1]
      BY <1>5, <2>2
    <3>2. LossUnread' => LossUnread
      BY <2>2, <3>1 DEF LossUnread
    <3> QED
      BY <3>2 DEF CalmInv, LinkInv
  <2>4. \A n \in 1 .. MaxCommands :
          Unanswered(n) /\ AnswerComes => requests = <<>> /\ sent'[n] # <<>>
    BY <1>6, <1>7, <2>2 DEF Unanswered
  <2>5. \A n \in 1 .. MaxCommands : sent[n] # <<>> => sent'[n] # <<>>
    BY <1>6, <2>2
  <2>6. ReaderStep
    BY <1>1, <1>2, <1>4, <2>1, <2>3, <2>4, <2>5 DEF ReaderStep
  <2> QED
    BY <2>6, ReaderStepCalm
<1>9. CASE OnVoiceDisconnect
  <2>1. /\ player'.pending = player.pending /\ player'.waiters = {}
        /\ player'.voice = player.voice /\ player'.channel = player.channel
    BY <1>5, <1>9 DEF OnVoiceDisconnect, Player
  <2>2. /\ events # <<>> /\ Head(events).type = "disconnect"
        /\ IF player.connecting /\ Head(events).reason # "requested"
             THEN Answer("failed") ELSE UNCHANGED sent
    BY <1>9 DEF OnVoiceDisconnect
  <2>3. nodeVoice = None
    <3>1. 1 \in DOMAIN events /\ events[1].type = "disconnect"
      BY <1>5, <2>2
    <3> QED
      BY <3>1 DEF LossUnread, CalmInv, LinkInv
  <2>4. \A n \in 1 .. MaxCommands :
          Unanswered(n) /\ AnswerComes => requests = <<>> /\ sent'[n] # <<>>
    BY <1>6, <1>7, <2>2 DEF Unanswered
  <2>5. \A n \in 1 .. MaxCommands : sent[n] # <<>> => sent'[n] # <<>>
    BY <1>6, <2>2
  <2>6. ReaderStep
    BY <1>1, <1>2, <1>4, <2>1, <2>3, <2>4, <2>5 DEF ReaderStep
  <2> QED
    BY <2>6, ReaderStepCalm
<1>10. CASE ResetAfterDisconnect
  <2>1. /\ player'.pending = NoPending /\ player'.waiters = player.waiters
        /\ player'.voice = None /\ sent' = sent /\ pc[Reader] = "reset"
    BY <1>10 DEF ResetAfterDisconnect, ResetVoice, NewPlayer
  <2>2. nodeVoice = None
    BY <2>1 DEF LossUnread, CalmInv, LinkInv
  <2>3. ~AnswerComes
    BY <1>7, <2>1
  <2>4. ReaderStep
    BY <1>1, <1>2, <1>4, <2>1, <2>2, <2>3 DEF ReaderStep
  <2> QED
    BY <2>4, ReaderStepCalm
<1> QED
  BY <1>8, <1>9, <1>10

-----------------------------------------------------------------------------
(* Discord.                                                                *)

\* A request on its way to Discord is one to leave, or a Connect's.
LEMMA WhoAsks ==
  ASSUME TypeOK, CalmInv, requests # <<>>
  PROVE  \/ AskedToLeave
         \/ requests[1] # None /\ botChannel = None /\ NoSession
<1>1. CASE AllIdle
  BY <1>1 DEF CalmInv, UsersInv
<1>2. CASE ~AllIdle
  <2>1. PICK u \in Users : pc[u] # "idle"
    BY <1>2 DEF AllIdle
  <2>2. At(pc[u], loc[u])
    BY <2>1, AtWork DEF CalmInv
  <2>3. CASE pc[u] \in {"reset", "nap_fresh", "rest", "drop"}
    BY <2>2, <2>3 DEF At, Left
  <2>4. CASE pc[u] = "wait"
    <3>1. AnswerComes
      BY <2>2, <2>4 DEF At
    <3> QED
      BY <3>1 DEF AnswerComes
  <2>5. CASE pc[u] \notin {"reset", "nap_fresh", "rest", "drop", "wait"}
    <3>1. Begun \/ Clear
      BY <2>1, <2>2, <2>5 DEF At, BegunLabels, UserLabels, EnsureLabels, ConnectLabels,
         DisconnectLabels
    <3> QED
      BY <3>1 DEF Begun, Clear
  <2> QED
    BY <2>3, <2>4, <2>5
<1> QED
  BY <1>1, <1>2

LEMMA NewHalves ==
  ASSUME spawned = SetToBag(Halves), Halves = {}, NEW S, spawned' = spawned (+) SetToBag(S)
  PROVE  Halves' = S /\ spawned' = SetToBag(Halves')
<1>1. spawned' = SetToBag(S)
  BY SetBags
<1> QED
  BY <1>1, SetBags DEF Halves

LEMMA DiscordAnswersCalm ==
  ASSUME TypeOK, CalmInv, DiscordAnswers
  PROVE  CalmInv'
<1>1. /\ requests # <<>> /\ requests' = Tail(requests) /\ SetBotChannel(requests[1])
      /\ UNCHANGED <<player, sent, updates, nodeVoice, events, pc, loc>>
  BY DEF DiscordAnswers, node, TypeOK, DataOK
<1>2. /\ spawned = SetToBag(Halves) /\ Len(requests) = 1 /\ Halves = {} /\ updates = <<>>
      /\ player.pending.channel = None
  BY <1>1, NothingPending DEF CalmInv, DiscordInv
<1>3. requests' = <<>>
  BY <1>1, <1>2 DEF TypeOK, DataOK
<1>4. ~Begun /\ ~Clear
  BY <1>1 DEF Begun, Clear
<1> DEFINE c == requests[1]
           S == CASE c = None       -> IF botChannel = None THEN {} ELSE {VoiceState(c)}
                  [] c = botChannel -> {VoiceState(c)}
                  [] OTHER          -> {VoiceState(c), VoiceServer(TRUE)}
<1>5. botChannel' = c /\ spawned' = spawned (+) SetToBag(S)
  BY <1>1 DEF SetBotChannel
<1>6. Halves' = S /\ spawned' = SetToBag(Halves')
  BY <1>2, <1>5, NewHalves
<1>7. /\ nodeVoice # None => c = None
      /\ c = None => Halves' \in {{}, {VoiceState(None)}}
      /\ c # None => BothToCome' /\ NoSession'
  <2>1. CASE c = None
    <3>1. S \in {{}, {VoiceState(None)}}
      BY <2>1
    <3> HIDE DEF S
    <3> QED
      BY <1>6, <2>1, <3>1
  <2>2. CASE c # None
    <3>1. ~AskedToLeave
      BY <2>2 DEF AskedToLeave
    <3>2. botChannel = None /\ NoSession
      BY <1>1, <3>1, WhoAsks
    <3>3. S = {VoiceState(c), VoiceServer(TRUE)}
      BY <2>2, <3>2
    <3>4. NoSession'
      BY <1>1, <3>2 DEF NoSession
    <3> HIDE DEF S
    <3>5. BothToCome'
      BY <1>1, <1>2, <1>5, <1>6, <2>2, <3>3, <3>4 DEF BothToCome, NoSession
    <3> QED
      BY <2>2, <3>2, <3>4, <3>5 DEF NoSession
  <2> QED
    BY <2>1, <2>2
<1> HIDE DEF c, S
<1>8. DiscordInv'
  <2>1. CASE c = None
    BY <1>1, <1>2, <1>3, <1>5, <1>6, <1>7, <2>1 DEF DiscordInv, DiscordPhase
  <2>2. CASE c # None
    BY <1>3, <1>6, <1>7, <2>2 DEF DiscordInv, DiscordPhase
  <2> QED
    BY <2>1, <2>2
<1>9. LinkInv'
  <2>1. LossUnread' <=> LossUnread
    BY <1>1 DEF LossUnread
  <2>2. nodeVoice # None => botChannel' # nodeVoice
    BY <1>5, <1>7
  <2> QED
    BY <1>1, <1>2, <2>1, <2>2 DEF LinkInv, CalmInv
<1>10. Left => Left'
  <2>1. Left => c = None
    BY <1>1 DEF Left, AskedToLeave, c
  <2> QED
    BY <1>1, <1>2, <1>3, <1>5, <2>1 DEF Left
<1>11. AnswerComes => AnswerComes'
  <2>1. AnswerComes => c # None
    BY <1>1 DEF AnswerComes, c
  <2> QED
    BY <1>3, <1>7, <2>1 DEF AnswerComes
<1>12. ASSUME NEW l, NEW s, At(l, s)
       PROVE  At(l, s)'
  <2>1. sent[s.command] = <<>> /\ l = "wait" => (Unanswered(s.command) /\ AnswerComes)'
    BY <1>1, <1>11, <1>12 DEF At, Unanswered
  <2>2. l \notin BegunLabels \cup {"previous", "connect", "ask_join"}
    BY <1>4, <1>12 DEF At
  <2>3. l \in {"idle", "reset", "nap_fresh", "rest", "drop", "wait"}
    BY <1>12, <2>2 DEF At, UserLabels, EnsureLabels, ConnectLabels, DisconnectLabels, BegunLabels
  <2> HIDE DEF Left, AnswerComes, Unanswered, Begun, Clear
  <2> QED
    BY <1>1, <1>3, <1>10, <1>12, <2>1, <2>2, <2>3 DEF At, BegunLabels
<1>13. UsersInv'
  BY <1>1, <1>3, <1>12, OthersCalm DEF CalmInv
<1> QED
  BY <1>8, <1>9, <1>13 DEF CalmInv

\* At rest only what Discord and Linkdave have counts.
LEMMA RestCalm ==
  ASSUME CalmInv, AtRest, DiscordInv', LinkInv', UNCHANGED <<player, requests, pc, loc>>
  PROVE  CalmInv'
<1>1. AllIdle /\ player.waiters = {} /\ requests = <<>>
  BY NobodyWaits DEF CalmInv, AtRest, AllIdle, Settled
<1>2. UsersInv'
  BY <1>1 DEF UsersInv, WaitersInv, AllIdle
<1> QED
  BY <1>2 DEF CalmInv

LEMMA RestFacts ==
  ASSUME CalmInv, AtRest
  PROVE  /\ Halves = {} /\ spawned = SetToBag(Halves) /\ requests = <<>> /\ updates = <<>>
         /\ events = <<>> /\ pc[Reader] = "read" /\ nodeVoice \in {None, botChannel}
         /\ player.pending.channel = None /\ LinkInv /\ ~LossUnread
<1>1. /\ requests = <<>> /\ updates = <<>> /\ spawned = EmptyBag
      /\ events = <<>> /\ pc[Reader] = "read" /\ nodeVoice \in {None, botChannel}
  BY DEF AtRest, Settled, LinkdaveSettled
<1>2. Halves = {} /\ spawned = SetToBag(Halves) /\ LinkInv /\ DiscordInv
  BY <1>1, NothingToCome DEF CalmInv, DiscordInv
<1> QED
  BY <1>1, <1>2, NothingPending DEF LossUnread

LEMMA ModeratorCalm ==
  ASSUME Calm, CalmInv, ModeratorMoves
  PROVE  CalmInv'
<1>1. /\ AtRest /\ botChannel # None
      /\ UNCHANGED <<player, requests, updates, nodeVoice, events, pc, loc>>
  BY DEF ModeratorMoves, node
<1>2. PICK c : c # botChannel /\ SetBotChannel(c)
  BY DEF ModeratorMoves
<1> DEFINE S == IF c = None THEN {VoiceState(None)} ELSE {VoiceState(c), VoiceServer(TRUE)}
<1>3. botChannel' = c /\ spawned' = spawned (+) SetToBag(S)
  BY <1>1, <1>2 DEF SetBotChannel
<1> HIDE DEF S
<1>4. Halves' = S /\ spawned' = SetToBag(Halves')
  BY <1>1, <1>3, RestFacts, NewHalves
<1>5. DiscordPhase'
  <2>1. CASE c = None
    <3>1. S = {VoiceState(None)}
      BY <2>1 DEF S
    <3> QED
      BY <1>1, <1>3, <1>4, <2>1, <3>1, RestFacts DEF DiscordPhase
  <2>2. CASE c # None
    <3>1. S = {VoiceState(c), VoiceServer(TRUE)}
      BY <2>2 DEF S
    <3>2. nodeVoice # c
      BY <1>1, <1>2, <2>2, RestFacts
    <3>3. BothToCome'
      BY <1>1, <1>3, <1>4, <2>2, <3>1, <3>2, RestFacts DEF BothToCome
    <3> QED
      BY <3>3 DEF DiscordPhase
  <2> QED
    BY <2>1, <2>2
<1>6. DiscordInv'
  BY <1>1, <1>4, <1>5, RestFacts DEF DiscordInv
<1>7. LinkInv'
  <2>1. LossUnread' <=> LossUnread
    BY <1>1 DEF LossUnread
  <2>2. nodeVoice # None => botChannel' # nodeVoice
    BY <1>1, <1>2, <1>3, RestFacts
  <2> QED
    BY <1>1, <2>1, <2>2, RestFacts DEF LinkInv
<1> QED
  BY <1>1, <1>6, <1>7, RestCalm

LEMMA ServerCalm ==
  ASSUME Calm, CalmInv, ServerMoves
  PROVE  CalmInv'
<1>1. /\ AtRest /\ botChannel # None /\ nodeVoice' = None
      /\ UNCHANGED <<player, botChannel, requests, updates, pc, loc>>
  BY DEF ServerMoves, EndSession
<1> DEFINE S == {VoiceServer(FALSE), VoiceServer(TRUE)}
<1>2. spawned' = spawned (+) SetToBag(S)
  BY DEF ServerMoves
<1> HIDE DEF S
<1>3. Halves' = S /\ spawned' = SetToBag(Halves')
  BY <1>1, <1>2, RestFacts, NewHalves
<1>4. DiscordPhase'
  <2>1. Halves' \in {{VoiceServer(FALSE)}, {VoiceServer(FALSE), VoiceServer(TRUE)}}
    BY <1>3 DEF S
  <2> QED
    BY <1>1, <2>1, RestFacts DEF DiscordPhase
<1>5. DiscordInv'
  BY <1>1, <1>3, <1>4, RestFacts DEF DiscordInv
<1>6. LinkInv'
  BY <1>1, RestFacts DEF LinkInv
<1> QED
  BY <1>1, <1>5, <1>6, RestCalm

-----------------------------------------------------------------------------
(* Linkdave.                                                               *)

LEMMA NodeConnectsCalm ==
  ASSUME TypeOK, CalmInv, NodeConnects
  PROVE  CalmInv'
<1>1. /\ updates # <<>> /\ updates' = Tail(updates)
      /\ UNCHANGED <<player, sent, botChannel, requests, spawned, pc, loc>>
  BY DEF NodeConnects, discord
<1>2. /\ Len(updates) = 1 /\ updates[1] = player.voice /\ nodeVoice = None
      /\ events = <<>> /\ pc[Reader] = "read"
  BY <1>1 DEF CalmInv, LinkInv
<1>3. updates' = <<>> /\ Head(updates) = player.voice
  BY <1>1, <1>2 DEF TypeOK, DataOK
<1>4. \/ nodeVoice' = player.voice /\ events' = <<VoiceConnected(player.voice)>>
      \/ nodeVoice' = None /\ events' = <<VoiceDisconnected("connection_failed")>>
  BY <1>2, <1>3 DEF NodeConnects
<1>5. Halves' = Halves /\ requests = <<>>
  BY <1>1 DEF Halves, CalmInv, DiscordInv
<1>6. ~Begun /\ ~Left /\ ~Clear
  BY <1>1 DEF Begun, Left, Clear, NoSession
<1>7. DiscordInv'
  <2>1. DiscordPhase'
    <3>1. ~BothToCome /\ ~StateToCome /\ ~ServerToCome
      BY <1>1 DEF BothToCome, StateToCome, ServerToCome, NoSession
    <3> HIDE DEF Halves, BothToCome, StateToCome, ServerToCome
    <3> QED
      BY <1>1, <1>5, <3>1 DEF DiscordPhase, CalmInv, DiscordInv
  <2> QED
    BY <1>1, <1>5, <2>1 DEF CalmInv, DiscordInv
<1>8. LinkInv'
  <2>1. LossUnread' => nodeVoice' = None
    <3>1. CASE events' = <<VoiceConnected(player.voice)>>
      BY <1>1, <1>2, <3>1 DEF LossUnread, VoiceConnected
    <3> QED
      BY <1>4, <3>1
  <2>2. nodeVoice' # None => player'.voice = nodeVoice'
    BY <1>1, <1>4
  <2> QED
    BY <1>1, <1>3, <2>1, <2>2 DEF LinkInv, CalmInv
<1>9. AnswerComes'
  <2>1. events' # <<>> /\ (Head(events').type = "connect" \/ Head(events').reason # "requested")
    BY <1>4 DEF VoiceConnected, VoiceDisconnected
  <2> QED
    BY <1>1, <1>2, <1>5, <2>1 DEF AnswerComes
<1>10. ASSUME NEW l, NEW s, At(l, s)
       PROVE  At(l, s)'
  <2>1. l \notin BegunLabels \cup {"previous", "connect", "ask_join",
                                   "reset", "nap_fresh", "rest", "drop"}
    BY <1>6, <1>10 DEF At
  <2>2. l \in {"idle", "wait"}
    BY <1>10, <2>1 DEF At, UserLabels, EnsureLabels, ConnectLabels, DisconnectLabels,
       BegunLabels
  <2>3. sent[s.command] = <<>> /\ l = "wait" => Unanswered(s.command)'
    BY <1>1, <1>10 DEF At, Unanswered
  <2> HIDE DEF Left, AnswerComes, Unanswered, Begun, Clear
  <2> QED
    BY <1>1, <1>5, <1>9, <2>2, <2>3 DEF At, UserLabels, ConnectLabels, BegunLabels, DisconnectLabels
<1>11. UsersInv'
  BY <1>1, <1>5, <1>10, OthersCalm DEF CalmInv
<1> QED
  BY <1>7, <1>8, <1>11 DEF CalmInv

LEMMA NodeLosesCalm ==
  ASSUME TypeOK, CalmInv, NodeLoses
  PROVE  CalmInv'
<1>1. /\ nodeVoice # None /\ nodeVoice' = None
      /\ events' = Append(events, VoiceDisconnected("connection_lost"))
      /\ UNCHANGED <<player, sent, botChannel, requests, spawned, updates, pc, loc>>
  BY DEF NodeLoses, EndSession, discord
<1>2. updates = <<>> /\ ~NoSession /\ Halves' = Halves
  BY <1>1 DEF CalmInv, LinkInv, NoSession, Halves
<1>3. ~StateToCome /\ ~ServerToCome /\ ~Clear /\ (Begun => botChannel # None)
  BY <1>2, NoSessionHalves
<1>4. DiscordInv'
  <2>1. BothToCome => BothToCome'
    BY <1>1, <1>2 DEF BothToCome
  <2>2. DiscordPhase'
    <3> HIDE DEF Halves, BothToCome
    <3> QED
      BY <1>1, <1>2, <1>3, <2>1 DEF DiscordPhase, CalmInv, DiscordInv
  <2> QED
    BY <1>1, <1>2, <2>2 DEF CalmInv, DiscordInv
<1>5. LinkInv'
  BY <1>1, <1>2 DEF CalmInv, LinkInv
<1>6. (Begun => Begun') /\ (Left => Left')
  BY <1>1, <1>2, <1>3 DEF Begun, Left, AskedToLeave
<1>7. AnswerComes => AnswerComes'
  <2>1. events # <<>> => events' # <<>> /\ Head(events') = Head(events)
    BY <1>1 DEF TypeOK, DataOK
  <2> QED
    BY <1>1, <1>2, <1>3, <2>1 DEF AnswerComes
<1>8. ASSUME NEW l, NEW s, At(l, s)
      PROVE  At(l, s)'
  <2>1. sent[s.command] = <<>> /\ l = "wait" => (Unanswered(s.command) /\ AnswerComes)'
    BY <1>1, <1>7, <1>8 DEF At, Unanswered
  <2>2. AskedToLeave' <=> AskedToLeave
    BY <1>1 DEF AskedToLeave
  <2>3. l \notin {"previous", "connect", "ask_join"}
    BY <1>3, <1>8 DEF At
  <2> HIDE DEF Left, AnswerComes, Unanswered, Begun, Clear, AskedToLeave
  <2> QED
    BY <1>1, <1>6, <1>8, <2>1, <2>2, <2>3 DEF At
<1>9. UsersInv'
  BY <1>1, <1>8, OthersCalm DEF CalmInv, UsersInv, AskedToLeave
<1> QED
  BY <1>4, <1>5, <1>9 DEF CalmInv

-----------------------------------------------------------------------------

LEMMA SameCalm ==
  ASSUME TypeOK, CalmInv, UNCHANGED vars
  PROVE  CalmInv'
<1>1. SameState /\ UNCHANGED <<player, sent, botChannel, requests, pc, loc>>
  BY DEF vars, remote, discord, node, SameState
<1>2. ASSUME NEW l, NEW s, At(l, s)
      PROVE  At(l, s)'
  <2>1. /\ Begun' <=> Begun
        /\ Left' <=> Left
        /\ Clear' <=> Clear
        /\ AskedToLeave' <=> AskedToLeave
        /\ AnswerComes' <=> AnswerComes
        /\ \A n : Unanswered(n)' <=> Unanswered(n)
    BY <1>1, SamePhase
  <2> HIDE DEF Begun, Left, Clear, AskedToLeave, AnswerComes, Unanswered
  <2> QED
    BY <1>1, <1>2, <2>1 DEF At
<1>3. UsersInv'
  BY <1>1, <1>2, OthersCalm DEF CalmInv, UsersInv, AskedToLeave
<1> QED
  BY <1>1, <1>3, SameRemote DEF CalmInv

LEMMA InitCalm ==
  ASSUME Init
  PROVE  CalmInv
<1>1. Halves = {} /\ spawned = SetToBag(Halves)
  <2>1. spawned = EmptyBag
    BY DEF Init
  <2>2. EmptyBag = SetToBag({})
    BY SetBags
  <2>3. BagToSet(EmptyBag) = {}
    BY <2>2, SetBags
  <2> QED
    BY <2>1, <2>2, <2>3 DEF Halves
<1>2. /\ player = NewPlayer /\ requests = <<>> /\ updates = <<>> /\ events = <<>>
      /\ nodeVoice = None /\ pc[Reader] = "read"
      /\ \A u \in Users : pc[u] = "idle"
  BY ReaderIsNoUser DEF Init
<1>3. DiscordInv
  BY <1>1, <1>2 DEF DiscordInv, DiscordPhase, NewPlayer, NoPending
<1>4. LinkInv
  BY <1>2 DEF LinkInv, LossUnread, NewPlayer
<1>5. UsersInv
  BY <1>2 DEF UsersInv, WaitersInv, AllIdle, NewPlayer
<1> QED
  BY <1>3, <1>4, <1>5 DEF CalmInv

LEMMA CalmInvariant ==
  ASSUME Calm
  PROVE  Spec => [](faults = 0 => CalmInv)
<1>1. Init => (faults = 0 => CalmInv)
  BY InitCalm
<1>2. TypeOK /\ AnswerInv /\ SessionInv /\ (faults = 0 => CalmInv) /\ [Next]_vars
        => (faults = 0 => CalmInv)'
  <2> SUFFICES ASSUME TypeOK, AnswerInv, SessionInv, faults = 0 => CalmInv, [Next]_vars,
                      faults' = 0
               PROVE  CalmInv'
    OBVIOUS
  <2>1. faults' = faults /\ CalmInv
    BY FaultsCounted DEF TypeOK, BoundsOK
  <2>2. CASE \E u \in Users : Begin(u)
    BY <2>1, <2>2, BeginCalm
  <2>3. CASE \E u \in Users : EnsureVoice(u) \/ Leave(u)
    BY <2>1, <2>3, EnsureVoiceCalm, LeaveCalm
  <2>4. CASE \E u \in Users : Connect(u) \/ Disconnect(u)
    BY <2>1, <2>4, ConnectCalm, DisconnectCalm
  <2>5. CASE HandleGatewayEvent
    BY <2>1, <2>5, GatewayCalm
  <2>6. CASE OnVoiceConnect \/ OnVoiceDisconnect \/ ResetAfterDisconnect
    BY <2>1, <2>6, ReaderCalm
  <2>7. CASE DiscordAnswers \/ ModeratorMoves \/ ServerMoves
    BY <2>1, <2>7, DiscordAnswersCalm, ModeratorCalm, ServerCalm
  <2>8. CASE NodeConnects \/ NodeLoses
    BY <2>1, <2>8, NodeConnectsCalm, NodeLosesCalm
  <2>9. CASE UNCHANGED vars
    BY <2>1, <2>9, SameCalm
  <2> QED
    BY <2>2, <2>3, <2>4, <2>5, <2>6, <2>7, <2>8, <2>9 DEF Next
<1> QED
  BY <1>1, <1>2, VoiceTypes, AnswersHeld, SessionInvariant, PTL DEF Spec

\* When users and moderators leave the bot, Discord and Linkdave the time to
\* settle, then as long as no call has failed, Connected() and ChannelID() tell
\* the session Linkdave has, whatever was moved or lost before, and no Connect
\* is left over: Disconnect forgets the player's voice state only when the bot
\* has asked to leave, and a join leaves no half of the credentials behind.
THEOREM VoiceAgreesInCalm ==
  ASSUME Calm
  PROVE  Spec => [](faults = 0 => VoiceAgrees)
<1>1. TypeOK /\ SessionInv /\ ConnectingInv /\ (faults = 0 => CalmInv)
        => (faults = 0 => VoiceAgrees)
  <2> SUFFICES ASSUME TypeOK, SessionInv, ConnectingInv, CalmInv, faults = 0, AtRest
               PROVE  /\ player.voice = nodeVoice
                      /\ player.voice # None => player.channel = player.voice
                      /\ ~player.connecting /\ player.waiters = {}
    BY DEF VoiceAgrees
  <2>1. AllIdle /\ LinkInv /\ ~LossUnread /\ updates = <<>> /\ requests = <<>>
        /\ nodeVoice \in {None, botChannel} /\ pc[Reader] = "read"
    BY RestFacts DEF AtRest, AllIdle
  <2>2. player.voice # None => nodeVoice = player.voice
    BY <2>1 DEF SessionInv
  <2>3. nodeVoice # None => player.voice = nodeVoice
    BY <2>1 DEF LinkInv, AskedToLeave
  <2>4. ~player.connecting
    BY <2>1 DEF ConnectingInv, TakesDown, AllIdle, DisconnectLabels
  <2>5. player.waiters = {}
    BY <2>1, NobodyWaits DEF CalmInv
  <2> QED
    BY <2>1, <2>2, <2>3, <2>4, <2>5 DEF LinkInv
<1> QED
  BY <1>1, VoiceTypes, SessionInvariant, ConnectingInvariant, CalmInvariant, PTL

\* Under the same hypotheses no Connect needs its timeout: it begins only after
\* an earlier join was undone, so that both halves come, and the read loop
\* answers it with Linkdave's event.
THEOREM ConnectsAnsweredInCalm ==
  ASSUME Calm
  PROVE  Spec => [](faults = 0 => ConnectsAreAnswered)
<1>1. TypeOK /\ (faults = 0 => CalmInv) => (faults = 0 => ConnectsAreAnswered)
  <2> SUFFICES ASSUME CalmInv, NEW u \in Users, pc[u] = "wait", Settled
               PROVE  sent[loc[u].command] # <<>>
    BY DEF ConnectsAreAnswered
  <2>1. At(pc[u], loc[u])
    BY AtWork DEF CalmInv
  <2>2. sent[loc[u].command] = <<>> => AnswerComes
    BY <2>1 DEF At
  <2> QED
    BY <2>2, SettledAnswered
<1> QED
  BY <1>1, VoiceTypes, CalmInvariant, PTL
=============================================================================
