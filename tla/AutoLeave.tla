----------------------------- MODULE AutoLeave ------------------------------
(***************************************************************************)
(* Leaving a voice channel nobody listens in: Service.ConsiderAutoLeave,   *)
(* its timer and cancelAutoLeave (internal/music/service.go), called by    *)
(* bot.onVoiceStateUpdate for every voice event of the guild.              *)
(*                                                                         *)
(* discordgo updates its cache when an event arrives and then starts a     *)
(* goroutine for it.  Event e is followed from there to its end: pc[e] is  *)
(* the next step of its goroutine, then the phase of the timer that the    *)
(* goroutine armed, then the next step of the timer's callback.  A step is *)
(* one critical section of leaveMu or one look at the cache.               *)
(***************************************************************************)
EXTENDS Naturals

CONSTANTS
  Humans,     \* members whose voice states count
  Channels,   \* voice channels of the guild
  None,       \* no channel, no timer
  MaxMoves,   \* bound on voice events that people cause
  MaxFaults   \* bound on failed departures

ASSUME NoneIsNoChannel == None \notin Channels /\ None \notin Nat
ASSUME BoundsAssumption == MaxMoves \in Nat /\ MaxFaults \in Nat

VARIABLES
  overlap,     \* what may overlap in this behaviour, a subset of Overlaps
  botChannel,  \* the bot's voice state in the cache
  place,       \* the voice state of every human in the cache
  leaving,     \* whether Discord still has to carry out a departure
  pc,          \* next step of every event
  chan,        \* channelID, the local of the goroutine and of its callback
  entry,       \* leaveTimers[guildID], the event whose timer it is
  moves, faults

world  == <<overlap, botChannel, place, leaving, moves>>
vars   == <<world, pc, chan, entry, faults>>

\* Departures are events too; each of them follows a join.
Events == 1 .. 2 * MaxMoves
Maybe  == Channels \cup {None}

\* "handlers": goroutines of different events run at once, in any order.
\* "callbacks": a callback that has begun can be overtaken by anything.
\* A timer takes a minute and a goroutine milliseconds, so neither is usual.
Overlaps == {"handlers", "callbacks"}

HandlerLabels  == {"look", "count", "cancel", "schedule"}
CallbackLabels == {"delete", "in_voice", "alone", "leave"}

Handling == {e \in Events : pc[e] \in HandlerLabels}
Firing   == {e \in Events : pc[e] \in CallbackLabels}

\* May anything but a callback happen now?
Unimpeded == Firing = {} \/ "callbacks" \in overlap

Goto(e, l) == pc' = [pc EXCEPT ![e] = l]

\* The goroutine of a new event.
Spawn == \E e \in Events :
  /\ pc[e] = "none"
  /\ \A f \in 1 .. e - 1 : pc[f] # "none"
  /\ Goto(e, "look")

-----------------------------------------------------------------------------
(* Discord.                                                                *)

Move == /\ Unimpeded
        /\ moves < MaxMoves
        /\ moves' = moves + 1
        /\ Spawn
        /\ UNCHANGED <<overlap, leaving, chan, entry, faults>>

\* Somebody joins, leaves or changes channel, or a voice state is updated
\* without a move (muted, say).
HumanMoves ==
  /\ \E h \in Humans, c \in Maybe :
       /\ {place[h], c} # {None}
       /\ place' = [place EXCEPT ![h] = c]
  /\ UNCHANGED botChannel
  /\ Move

\* A command or a moderator puts the bot into another channel or out.
BotMoves ==
  /\ \E c \in Maybe \ {botChannel} : botChannel' = c
  /\ UNCHANGED place
  /\ Move

BotDeparts ==
  /\ Unimpeded
  /\ leaving
  /\ leaving' = FALSE
  /\ IF botChannel = None
       THEN UNCHANGED <<botChannel, pc>>
       ELSE botChannel' = None /\ Spawn
  /\ UNCHANGED <<overlap, place, moves, chan, entry, faults>>

-----------------------------------------------------------------------------
(* ConsiderAutoLeave.                                                      *)

HumansIn(c) == {h \in Humans : place[h] = c}

\* Goroutine e goes on; without overlaps, only when those before it are done.
Turn(e, l) ==
  /\ pc[e] = l
  /\ Unimpeded
  /\ "handlers" \in overlap \/ \A f \in Handling : e <= f
  /\ UNCHANGED <<world, faults>>

\* Mutant: no early return when the bot is in no channel.
Look_Unguarded(e) ==
  /\ Turn(e, "look")
  /\ Goto(e, "count")
  /\ chan' = [chan EXCEPT ![e] = botChannel]
  /\ UNCHANGED entry

Look(e) ==
  /\ Turn(e, "look")
  /\ IF botChannel = None
       THEN Goto(e, "cancel") /\ UNCHANGED chan
       ELSE Goto(e, "count") /\ chan' = [chan EXCEPT ![e] = botChannel]
  /\ UNCHANGED entry

\* Mutant: listeners keep the goroutine from arming, but cancel nothing.
Count_NoCancel(e) ==
  /\ Turn(e, "count")
  /\ Goto(e, IF HumansIn(chan[e]) # {} THEN "done" ELSE "schedule")
  /\ UNCHANGED <<chan, entry>>

Count(e) ==
  /\ Turn(e, "count")
  /\ Goto(e, IF HumansIn(chan[e]) # {} THEN "cancel" ELSE "schedule")
  /\ UNCHANGED <<chan, entry>>

\* Mutant: the timer of the entry runs on.
StopAnd_RunsOn(e, l) == pc' = [pc EXCEPT ![e] = l]

\* Timer.Stop on the guild's entry, and e goes on to l.  A callback that has
\* begun is not stopped.
StopAnd(e, l) ==
  pc' = [f \in Events |->
           IF f = e THEN l
           ELSE IF f = entry /\ pc[f] = "armed" THEN "stopped" ELSE pc[f]]

CancelAutoLeave(e) ==
  /\ Turn(e, "cancel")
  /\ StopAnd(e, "done")
  /\ entry' = None
  /\ UNCHANGED chan

\* Mutant: a timer that is already there is left alone.
Schedule_OnlyOnce(e) ==
  /\ Turn(e, "schedule")
  /\ IF entry = None THEN StopAnd(e, "armed") /\ entry' = e
                     ELSE Goto(e, "done") /\ UNCHANGED entry
  /\ UNCHANGED chan

Schedule(e) ==
  /\ Turn(e, "schedule")
  /\ StopAnd(e, "armed")
  /\ entry' = e
  /\ UNCHANGED chan

-----------------------------------------------------------------------------
(* The timer and its callback.                                             *)

\* The minute is over.
Fire(e) ==
  /\ pc[e] = "armed"
  /\ "callbacks" \in overlap \/ (Handling = {} /\ Firing = {} /\ ~leaving)
  /\ Goto(e, "delete")
  /\ UNCHANGED <<world, chan, entry, faults>>

\* Mutant: the callback cancels instead of deleting.
DeleteEntry_Cancels(e) ==
  /\ pc[e] = "delete"
  /\ entry' = None
  /\ StopAnd(e, "in_voice")
  /\ UNCHANGED <<world, chan, faults>>

\* The guild's entry goes, whichever timer it is by now.
DeleteEntry(e) ==
  /\ pc[e] = "delete"
  /\ entry' = None
  /\ Goto(e, "in_voice")
  /\ UNCHANGED <<world, chan, faults>>

StillInVoice(e) ==
  /\ pc[e] = "in_voice"
  /\ Goto(e, IF botChannel = None THEN "done" ELSE "alone")
  /\ UNCHANGED <<world, chan, entry, faults>>

\* The channel is the one of the time when the timer was set.
StillAlone(e) ==
  /\ pc[e] = "alone"
  /\ Goto(e, IF HumansIn(chan[e]) # {} THEN "done" ELSE "leave")
  /\ UNCHANGED <<world, chan, entry, faults>>

\* Service.Leave; when it fails, Discord may have got the request or not.
Leave(e) ==
  /\ pc[e] = "leave"
  /\ Goto(e, "done")
  /\ \/ leaving' = (leaving \/ botChannel # None) /\ UNCHANGED faults
     \/ faults < MaxFaults /\ faults' = faults + 1 /\ UNCHANGED leaving
  /\ UNCHANGED <<overlap, botChannel, place, moves, chan, entry>>

-----------------------------------------------------------------------------

Init ==
  /\ overlap \in SUBSET Overlaps
  /\ botChannel = None
  /\ place \in [Humans -> Maybe]
  /\ leaving = FALSE
  /\ pc = [e \in Events |-> "none"]
  /\ chan = [e \in Events |-> None]
  /\ entry = None
  /\ moves = 0 /\ faults = 0

Handler(e)  == Look(e) \/ Count(e) \/ CancelAutoLeave(e) \/ Schedule(e)
Callback(e) == DeleteEntry(e) \/ StillInVoice(e) \/ StillAlone(e) \/ Leave(e)

\* Nothing runs and nothing is armed: the bot waits for events.
Rest ==
  /\ ~leaving
  /\ \A e \in Events : pc[e] \in {"none", "stopped", "done"}
  /\ UNCHANGED vars

Next ==
  \/ HumanMoves \/ BotMoves \/ BotDeparts
  \/ \E e \in Events : Handler(e) \/ Fire(e) \/ Callback(e)
  \/ Rest

Spec == Init /\ [][Next]_vars

\* Goroutines run, timers fire and Discord carries out what it is asked.
\* Nobody is obliged to move.
Fairness ==
  /\ \A e \in Events : WF_vars(Handler(e)) /\ WF_vars(Fire(e)) /\ WF_vars(Callback(e))
  /\ WF_vars(BotDeparts)

FairSpec == Spec /\ Fairness

-----------------------------------------------------------------------------
(* Properties.                                                             *)

Labels == HandlerLabels \cup CallbackLabels
            \cup {"none", "armed", "stopped", "done"}

\* Events whose channelID is in use.
Located == {e \in Events : pc[e] \in {"count", "schedule", "armed"} \cup CallbackLabels}

\* Every variable has its type, and a goroutine that goes on past its first
\* look, its timer and its callback have a channel to look at.
TypeOK ==
  /\ overlap \subseteq Overlaps
  /\ botChannel \in Maybe
  /\ place \in [Humans -> Maybe]
  /\ leaving \in BOOLEAN
  /\ pc \in [Events -> Labels]
  /\ chan \in [Events -> Maybe]
  /\ \A e \in Located : chan[e] # None
  /\ entry \in Events \cup {None}
  /\ moves \in 0 .. MaxMoves
  /\ faults \in 0 .. MaxFaults

\* However goroutines and callbacks meet, the guild's entry is a timer that
\* is armed, or one whose callback is about to take the entry down: a stopped
\* or finished timer never stays behind in leaveTimers.
EntryIsLive == entry # None => pc[entry] \in {"armed", "delete"}

\* As long as no callback is overtaken, an armed timer is the guild's entry,
\* where cancelAutoLeave finds it.  (An overtaken callback deletes the entry
\* of the next timer, which then nobody can stop: service.go 684.)
ArmedIsEntry ==
  "callbacks" \notin overlap => \A e \in Events : pc[e] = "armed" => entry = e

Alone == botChannel # None /\ HumansIn(botChannel) = {}

\* As long as goroutines run in the order of their events, a bot that is
\* alone and whose last event was handled has a timer for its channel, or a
\* callback is at work: whatever was stopped, deleted or overtaken.
AloneIsTimed ==
  "handlers" \notin overlap /\ Alone /\ Handling = {} /\ ~leaving /\ faults = 0
    => \E e \in Events : pc[e] \in CallbackLabels \cup {"armed"} /\ chan[e] = botChannel

\* Without overlaps the bot never leaves a channel in which somebody listens,
\* although the callback looks for listeners in the channel of a minute ago.
LeavesNobodyBehind ==
  [][overlap = {} /\ leaving' /\ ~leaving => HumansIn(botChannel) = {}]_vars

\* A bot that stays alone leaves in the end, unless leaving fails: there is
\* always another moment at which it is not alone.
AloneLeaves == []<>(~Alone \/ faults > 0 \/ "handlers" \in overlap)

=============================================================================
