------------------------------- MODULE Panel --------------------------------
(***************************************************************************)
(* The now-playing panel of one guild (internal/commands/playerpanel.go):  *)
(* the message that shows the player and carries its buttons, kept up by   *)
(* the playback events that music.Service emits and by the handlers of     *)
(* commands and buttons (internal/commands/music.go).                      *)
(*                                                                         *)
(* Each command, press or track end is a task: it changes the player and   *)
(* then works through a list of steps, todo.  A step is one look at the    *)
(* player, one access to the panel map or one call to Discord, so tasks    *)
(* interleave between any two of them.  What a task does to queue, clock   *)
(* and node step by step is the subject of Playback; here it is one step.  *)
(***************************************************************************)
EXTENDS Naturals, Sequences, FiniteSets

CONSTANTS
  None,       \* no message
  MaxTasks,   \* bound on commands, presses and track ends
  MaxAtWork,  \* bound on tasks at the same time
  MaxFaults,  \* bound on failed calls, failed operations and restarts
  Regimes     \* what may happen in a behaviour, a set of subsets of Trouble

\* "handlers": tasks run at the same time; "answers": the node tells that it
\* paused or resumed only after its reply; "calls": calls to Discord fail;
\* "operations": operations of the service fail; "restarts": the bot restarts.
Trouble == {"handlers", "answers", "calls", "operations", "restarts"}

ASSUME BoundsAssumption == {MaxTasks, MaxAtWork, MaxFaults} \subseteq Nat
ASSUME NoneIsNoMessage == None \notin Nat
ASSUME RegimesAssumption == Regimes \subseteq SUBSET Trouble

VARIABLES
  regime,    \* the kinds of trouble of this behaviour
  now,       \* the track that plays, numbered in the order of their starts, or 0
  upcoming,  \* length of the queue
  frozen,    \* whether frozenElapsed has the guild
  node,      \* whether the node's player is paused
  mirror,    \* whether linkdave.Player.state is paused
  started,   \* tracks started so far
  lingers,   \* whether the node may still play a track that the queue let go
  messages,  \* the panel messages in the channel, oldest first
  ref,       \* PlayerPanel.panel[guildID], an index of messages
  tasks,     \* one record per task so far
  faults

player == <<now, upcoming, frozen, node, mirror, started, lingers>>
vars   == <<regime, player, messages, ref, tasks, faults>>

\* What a message shows.
Face == [now |-> now, paused |-> mirror \/ frozen, upcoming |-> upcoming]
Idle == [now |-> 0, paused |-> FALSE, upcoming |-> 0]

Done == \A p \in DOMAIN tasks : tasks[p].todo = <<>>

\* clicked is the message whose button was pressed, track what the handler
\* publishes; held and seen are the locals ref and state.  Two fields only
\* record: alone that no other task was at work, serves that the button's
\* handler is to bring the message it was pressed on up to date.
SpawnTask(serves, clicked, todo, track) ==
  tasks' = Append(tasks, [todo |-> todo, clicked |-> clicked, held |-> None,
                          seen |-> Idle, track |-> track, alone |-> Done,
                          serves |-> serves])
Spawn(clicked, todo, track) == SpawnTask(TRUE, clicked, todo, track)
AtWork == {p \in DOMAIN tasks : tasks[p].todo # <<>>}
Ready  == /\ Len(tasks) < MaxTasks
          /\ Cardinality(AtWork) < IF "handlers" \in regime THEN MaxAtWork ELSE 1

Fault(kind) == kind \in regime /\ faults < MaxFaults /\ faults' = faults + 1

-----------------------------------------------------------------------------
(* The operations of the service, each with the emission it ends in:       *)
(* "fresh" for emitPlayback(false), "refresh" for emitPlayback(true).      *)

\* The node has paused or resumed; unless answers are slow, the read loop has
\* the news by the time the operation goes on.
Tell(paused) ==
  /\ node' = paused
  /\ mirror' = IF "answers" \in regime THEN mirror ELSE paused

Hear ==
  /\ mirror # node
  /\ mirror' = node
  /\ UNCHANGED <<regime, now, upcoming, frozen, node, started, lingers, messages, ref, tasks,
                 faults>>

\* Track number started + 1 begins, leaving n in the queue.
Begin(n) ==
  /\ started' = started + 1
  /\ now' = started + 1
  /\ upcoming' = n
  /\ frozen' = FALSE
  /\ lingers' = FALSE
  /\ Tell(FALSE)

Cease(left) ==
  /\ now' = 0 /\ upcoming' = 0
  /\ frozen' = FALSE
  /\ lingers' = left
  /\ Tell(FALSE)
  /\ UNCHANGED started

Empty == Cease(FALSE)

\* The next track, or none.
Advance == IF upcoming > 0 THEN Begin(upcoming - 1) ELSE Empty

Act == Ready /\ UNCHANGED <<regime, messages, ref>>

\* Publishing from an interaction: /play that starts a track, /nowplaying.
Publish == <<"strip", "compose", "send">>

PlayStarts ==
  /\ Act /\ now = 0 /\ ~mirror
  /\ Begin(upcoming)
  /\ Spawn(None, <<"fresh">> \o Publish, started + 1)
  /\ UNCHANGED faults

\* /play, and a play button under a suggestion, behind what plays.
PlayAppends ==
  /\ Act /\ (now # 0 \/ mirror \/ lingers)
  /\ upcoming' = upcoming + 1
  /\ Spawn(None, <<"refresh", "update">>, 0)
  /\ UNCHANGED <<now, frozen, node, mirror, started, lingers, faults>>

NowPlaying ==
  /\ Act /\ now # 0
  /\ Spawn(None, Publish, now)
  /\ UNCHANGED <<player, faults>>

\* onTrackEnd; when the next track does not start, the queue is emptied.
TrackEnds ==
  /\ Act /\ now # 0 /\ ~node
  /\ \/ Advance /\ UNCHANGED faults
     \/ Cease(TRUE) /\ Fault("operations")
  /\ Spawn(None, <<"fresh">>, 0)

\* The part of a task that follows the service's operation when a button of
\* message m was pressed (m = None: a command).
Reply(m, steps) == IF m = None THEN <<>> ELSE steps

\* Skip fails after it took the next track, Leave, Clear and a start after
\* they emptied the queue, without an emission.
SkipFails ==
  \/ /\ upcoming > 0
     /\ now' = started + 1 /\ started' = started + 1
     /\ upcoming' = upcoming - 1
     /\ UNCHANGED <<frozen, lingers>>
  \/ /\ upcoming = 0
     /\ now' = 0 /\ lingers' = TRUE
     /\ UNCHANGED <<upcoming, frozen, started>>

StopFails ==
  /\ now' = 0 /\ upcoming' = 0
  /\ frozen' = FALSE /\ lingers' = TRUE
  /\ UNCHANGED started

\* An operation fails; a button's handler then redraws its message, the
\* handler of a command only answers (handleControlError).
Fails(m) ==
  /\ Fault("operations")
  /\ Spawn(m, Reply(m, <<"redraw">>), 0)
  /\ SkipFails \/ StopFails \/ UNCHANGED <<now, upcoming, frozen, started, lingers>>
  /\ UNCHANGED <<node, mirror>>

\* Mutant: acknowledgeControl leaves the buttons alone.
SkipTrack_KeepsButtons(m) ==
  /\ Advance
  /\ Spawn(m, <<"fresh">>, 0)
  /\ UNCHANGED faults

SkipTrack(m) ==
  /\ Advance
  /\ Spawn(m, <<"fresh">> \o Reply(m, <<"acknowledge">>), 0)
  /\ UNCHANGED faults

\* Leave and /clear.
Stop(m) ==
  /\ Empty
  /\ Spawn(m, <<"fresh">> \o Reply(m, <<"forget", "blank">>), 0)
  /\ UNCHANGED faults

PauseOrResume(m) ==
  /\ now # 0 \/ lingers
  /\ \E paused \in BOOLEAN :
       /\ m # None => paused = ~messages[m].face.paused   \* transportButton
       /\ frozen' = paused
       /\ Tell(paused)
  /\ Spawn(m, <<"refresh">> \o Reply(m, <<"redraw">>), 0)
  /\ UNCHANGED <<now, upcoming, started, lingers, faults>>

\* A vote that is recorded, or the one that skips.  The handler answers with
\* a message of its own and updates the guild's panel: a vote serves the
\* message that it was pressed on only if that is the panel.
VoteSkip(m) ==
  /\ now # 0
  /\ \/ UNCHANGED player /\ SpawnTask(m = ref, m, <<"refresh", "update">>, 0)
     \/ Advance /\ SpawnTask(m = ref, m, <<"fresh", "update">>, 0)
  /\ UNCHANGED faults

\* A vote whose skip fails is only answered.
VoteFails(m) ==
  /\ now # 0 /\ Fault("operations")
  /\ SkipFails
  /\ SpawnTask(FALSE, m, <<>>, 0)
  /\ UNCHANGED <<node, mirror>>

\* The fact and queue buttons, and a vote when nothing plays: an answer that
\* leaves the message as it is.
Answers(m) ==
  /\ SpawnTask(FALSE, m, <<>>, 0)
  /\ UNCHANGED <<player, faults>>

\* The node refuses to pause or resume nothing.
Refused(m) ==
  /\ now = 0
  /\ Spawn(m, Reply(m, <<"redraw">>), 0)
  /\ UNCHANGED <<player, faults>>

Operation(m) ==
  /\ Act
  /\ \/ SkipTrack(m) \/ Stop(m) \/ PauseOrResume(m) \/ Fails(m) \/ Refused(m)
     \/ m # None /\ (VoteSkip(m) \/ VoteFails(m) \/ Answers(m))

Command == Operation(None)
Press   == \E m \in DOMAIN messages : messages[m].buttons /\ Operation(m)

-----------------------------------------------------------------------------
(* The steps of a task.                                                    *)

\* Task p's next step is l; it goes on with steps and then with the rest,
\* with the locals in t.
At(p, l) == tasks[p].todo # <<>> /\ Head(tasks[p].todo) = l

\* The locals of a task end with it.
GoOn(p, steps, t) ==
  LET todo == steps \o Tail(t.todo)
  IN  tasks' = [tasks EXCEPT ![p] =
        IF todo = <<>> THEN [t EXCEPT !.todo = <<>>, !.held = None, !.seen = Idle]
                       ELSE [t EXCEPT !.todo = todo]]

Holding(p, m) == [tasks[p] EXCEPT !.held = m]
Seeing(p, f)  == [tasks[p] EXCEPT !.seen = f]

Look(p, l) == At(p, l) /\ UNCHANGED <<regime, player, messages, ref, faults>>

\* onPlaybackEvent: nothing plays any more, or an update of what is shown, or
\* a new panel.
OnFresh(p) ==
  /\ Look(p, "fresh")
  /\ IF now = 0 THEN GoOn(p, <<"find">>, tasks[p])
                ELSE GoOn(p, <<"repost">>, Seeing(p, Face))

\* Mutant: RefreshOnly is taken for nothing to do.
OnRefresh_Ignored(p) ==
  /\ Look(p, "refresh")
  /\ GoOn(p, IF now = 0 THEN <<"find">> ELSE <<>>, tasks[p])

OnRefresh(p) ==
  /\ Look(p, "refresh")
  /\ GoOn(p, IF now = 0 THEN <<"find">> ELSE <<"update">>, tasks[p])

\* Mutant: the idle panel is rendered though there is none.
Find_Unguarded(p) ==
  /\ Look(p, "find")
  /\ GoOn(p, <<"idle", "forget">>, Holding(p, ref))

Find(p) ==
  /\ Look(p, "find")
  /\ GoOn(p, IF ref = None THEN <<"forget">> ELSE <<"idle", "forget">>, Holding(p, ref))

\* A panel is replaced only where there is one.
Repost(p) ==
  /\ Look(p, "repost")
  /\ GoOn(p, IF ref = None THEN <<>> ELSE <<"strip", "send">>, tasks[p])

\* UpdateGuildPanel
Update(p) ==
  /\ Look(p, "update")
  /\ GoOn(p, IF ref = None THEN <<>> ELSE <<"consider">>, Holding(p, ref))

Consider(p) ==
  /\ Look(p, "consider")
  /\ GoOn(p, IF now = 0 THEN <<"idle", "forget">> ELSE <<"render">>, Seeing(p, Face))

\* Mutant: the old panel is left as it is.
Strip_Nothing(p) ==
  /\ Look(p, "strip")
  /\ GoOn(p, <<>>, tasks[p])

\* stripOldPanelButtons
Strip(p) ==
  /\ Look(p, "strip")
  /\ GoOn(p, IF ref = None THEN <<>> ELSE <<"unbutton">>, Holding(p, ref))

\* PublishFromInteraction: the handler's track with the state of now.
Compose(p) ==
  /\ Look(p, "compose")
  /\ GoOn(p, <<>>, Seeing(p, [Face EXCEPT !.now = tasks[p].track]))

\* refreshPanel
Redraw(p) ==
  /\ Look(p, "redraw")
  /\ IF now = 0 THEN GoOn(p, <<"forget", "blank">>, tasks[p])
                ELSE GoOn(p, <<"paint">>, Seeing(p, Face))

\* Mutant: the idle panel stays the guild's panel.
Forget_Keeps(p) ==
  /\ At(p, "forget")
  /\ GoOn(p, <<>>, tasks[p])
  /\ UNCHANGED <<regime, player, messages, ref, faults>>

\* clearRef, whatever the map holds by now
Forget(p) ==
  /\ At(p, "forget")
  /\ ref' = None
  /\ GoOn(p, <<>>, tasks[p])
  /\ UNCHANGED <<regime, player, messages, faults>>

\* setRef
Adopt(p) ==
  /\ At(p, "adopt")
  /\ ref' = tasks[p].held
  /\ GoOn(p, <<>>, tasks[p])
  /\ UNCHANGED <<regime, player, messages, faults>>

\* A message is edited, or the call fails, which is at most logged.
EditMessage(p, m, message) ==
  /\ GoOn(p, <<>>, tasks[p])
  /\ \/ messages' = [messages EXCEPT ![m] = message] /\ UNCHANGED faults
     \/ Fault("calls") /\ UNCHANGED messages
  /\ UNCHANGED <<regime, player, ref>>

Unbutton(p, m) == EditMessage(p, m, [messages[m] EXCEPT !.buttons = FALSE])
ShowIdle(p, m) == EditMessage(p, m, [face |-> Idle, buttons |-> FALSE])
ShowSeen(p, m) == EditMessage(p, m, [face |-> tasks[p].seen, buttons |-> TRUE])

Edit(p) ==
  \/ At(p, "unbutton")    /\ Unbutton(p, tasks[p].held)
  \/ At(p, "idle")        /\ ShowIdle(p, tasks[p].held)
  \/ At(p, "render")      /\ ShowSeen(p, tasks[p].held)
  \/ At(p, "acknowledge") /\ Unbutton(p, tasks[p].clicked)
  \/ At(p, "blank")       /\ ShowIdle(p, tasks[p].clicked)
  \/ At(p, "paint")       /\ ShowSeen(p, tasks[p].clicked)

\* The new panel is posted and adopted; when the call fails, the panel may be
\* there or not, and the old one stays the guild's.
Send(p) ==
  /\ At(p, "send")
  /\ LET posted == Append(messages, [face |-> tasks[p].seen, buttons |-> TRUE])
     IN  \/ /\ messages' = posted
            /\ GoOn(p, <<"adopt">>, Holding(p, Len(posted)))
            /\ UNCHANGED faults
         \/ /\ Fault("calls")
            /\ messages' \in {messages, posted}
            /\ GoOn(p, <<>>, tasks[p])
  /\ UNCHANGED <<regime, player, ref>>

\* The panel map and the queue are gone, the messages are not.
Restart ==
  /\ Fault("restarts")
  /\ ref' = None
  /\ tasks' = [p \in DOMAIN tasks |-> [tasks[p] EXCEPT !.todo = <<>>, !.clicked = None]]
  /\ now' = 0 /\ upcoming' = 0 /\ lingers' = FALSE
  /\ frozen' = FALSE /\ node' = FALSE /\ mirror' = FALSE
  /\ UNCHANGED <<regime, started, messages>>

-----------------------------------------------------------------------------

Init ==
  /\ regime \in Regimes
  /\ now = 0 /\ upcoming = 0 /\ started = 0 /\ lingers = FALSE
  /\ frozen = FALSE /\ node = FALSE /\ mirror = FALSE
  /\ messages = <<>>
  /\ ref = None
  /\ tasks = <<>>
  /\ faults = 0

Step(p) ==
  \/ OnFresh(p) \/ OnRefresh(p) \/ Find(p) \/ Repost(p) \/ Update(p)
  \/ Consider(p) \/ Strip(p) \/ Compose(p) \/ Redraw(p) \/ Forget(p)
  \/ Adopt(p) \/ Edit(p) \/ Send(p)

\* Nothing is at work: the bot waits for events.
Rest == Done /\ mirror = node /\ UNCHANGED vars

Next ==
  \/ PlayStarts \/ PlayAppends \/ NowPlaying \/ TrackEnds \/ Command \/ Press
  \/ \E p \in DOMAIN tasks : Step(p)
  \/ Hear \/ Restart \/ Rest

Spec == Init /\ [][Next]_vars

-----------------------------------------------------------------------------
(* Properties.                                                             *)

Steps == {"fresh", "refresh", "find", "repost", "update", "consider", "strip",
          "compose", "redraw", "forget", "adopt", "unbutton", "idle", "render",
          "acknowledge", "blank", "paint", "send"}

Faces == [now : 0 .. MaxTasks, paused : BOOLEAN, upcoming : 0 .. MaxTasks]

\* Every variable has its type; a task that is about to edit a message has
\* one to edit.
TypeOK ==
  /\ regime \in Regimes
  /\ now \in 0 .. MaxTasks /\ upcoming \in 0 .. MaxTasks /\ started \in 0 .. MaxTasks
  /\ {frozen, node, mirror, lingers} \subseteq BOOLEAN
  /\ messages \in Seq([face : Faces, buttons : BOOLEAN])
  /\ ref \in DOMAIN messages \cup {None}
  /\ \A p \in DOMAIN tasks :
       /\ tasks[p] \in [todo : Seq(Steps), clicked : DOMAIN messages \cup {None},
                        held : DOMAIN messages \cup {None}, seen : Faces,
                        track : 0 .. MaxTasks, alone : BOOLEAN, serves : BOOLEAN]
       /\ At(p, "unbutton") \/ At(p, "idle") \/ At(p, "render") => tasks[p].held # None
       /\ At(p, "acknowledge") \/ At(p, "blank") \/ At(p, "paint") => tasks[p].clicked # None
  /\ faults \in 0 .. MaxFaults

\* When tasks come one after another and calls to Discord succeed, the only
\* message with buttons is the guild's panel, even when operations fail or
\* the node is slow: whatever replaced, redrew or blanked a panel also took
\* the buttons from the one before.
OnePanel ==
  regime \subseteq {"answers", "operations"} /\ Done
    => \A m \in DOMAIN messages : messages[m].buttons => m = ref

\* When nothing goes wrong, the guild's panel shows the player as it is.
PanelShows ==
  regime = {} /\ Done /\ ref # None => messages[ref] = [face |-> Face, buttons |-> TRUE]

\* When tasks come one after another and operations succeed, a guild where
\* nothing plays has no panel to update, even after failed calls and restarts.
NoPanelOfNothing ==
  regime \subseteq {"answers", "calls", "restarts"} /\ Done /\ ref # None => now # 0

\* A press that has the guild to itself leaves its message honest: it shows
\* the player as it is, or it has lost its buttons.  That is so whatever
\* happened before; the message may be a leftover of a race or from before a
\* restart.  For the control buttons it is so whether the operation succeeds
\* or not, for a vote that is counted only on the guild's own panel.
PressIsHonest ==
  regime \subseteq {"handlers", "operations", "restarts"} /\ Done /\ tasks # <<>>
    => LET last == tasks[Len(tasks)]
           m    == last.clicked
       IN  m # None /\ last.alone /\ last.serves
             => ~messages[m].buttons \/ messages[m].face = Face

=============================================================================
