# dcBot in TLA+

A model of the music bot: what happens to a guild's queue, its player and
its listeners' view of them while users, track ends and a remote audio node
act at once; how the bot joins and leaves a voice channel; what its panel, its
documents and its status then show; the processes behind a track; and the life of the
bot process around all this. The modules are model-checked with TLC, and
their safety properties are proved with TLAPS for all values of the constants, five of them
as long as commands come one at a time and no call has failed.

## The system

The bot is one Go process. discordgo runs every interaction (slash command or
button) in a goroutine of its own; one further goroutine, the *read loop* of
`internal/linkdave/client.go`, reads events from Linkdave, the audio node that
streams into the voice channel, over a WebSocket. Commands go to the node as
REST calls. All shared state sits behind small mutexes that are held for a few
lines each, so a command is a sequence of critical sections and calls, and
commands and track ends interleave between any two of them.

| Component | State | Operations | Where it can go wrong |
|---|---|---|---|
| Guild queue, `music/queue.go` | upcoming tracks, current track, active flag, loop mode | one locked method each | callers combine several methods |
| Playback service, `music/service*.go` | playback clock, skip votes, leave timers | Enqueue, Skip, VoteSkip, Pause, Resume, Clear, queue edits, Join, Leave, track-end hook | check-then-act across locks, failed calls, stale player state |
| Linkdave player, `linkdave/player.go` | mirror of the node's state, voice session, connect waiters | Connect, Disconnect, Play, Stop, Pause, event handlers | the mirror lags; waiters of a failed connection |
| Linkdave client, `linkdave/client.go` | WebSocket, session id, players | Connect, Close, read loop | no reconnection, the session outlives the socket |
| Auto-leave, `service.go` 661-710 | one timer per guild | schedule, cancel, fire | a callback that races with its cancellation |
| Persistence, `service.go` 200-236, `store/store.go` | one document per guild | Upsert, Get, ListRecent | unordered, partial writes |
| Panel, `commands/playerpanel.go` | the panel message of each guild | publish, update, strip, buttons | two updates at once, restarts, failed calls |
| Resolver, `music/resolver.go`, `ytdlp.go` | search cache, child processes | Resolve, ResolvePlaylist, Search, audio streams | full pipes, children that fail or stay |
| Stream proxy, `music/streamproxy.go` | sources by track | one pipeline of processes per request | hang-ups, order of waits and kills |
| Start-up and shutdown, `bot/bot.go` | session, link, API, store | Run | order of shutdown, a signal at any moment |
| Suggestions, AI client | small maps | - | limits |

How they interact: a command resolves a track, changes the queue and calls the
player, which calls the node. The node's events come back through the read
loop into the player's mirrored state; a track that ended by itself calls the
service's hook, which advances the queue and plays the next track. After every
change the service *emits*: it notifies the panel and persists the state.

What makes each correct: the queue keeps its order and is active only with a
current track; the mirror agrees with the node; the clock agrees with the mirror;
votes lead to a skip; waiting tracks get played; every Connect is answered; a bot that is
alone leaves; the document and the panel settle on the last state; no process stays
behind a track; and a signal ends the bot.

## Modules

**GuildQueue** - `music/queue.go` as a value: a record of `items`, `now`,
`active` and `loop`, and one operator per method. Every method holds the
queue's mutex throughout, hence each operator is one atomic step of its user.

**Playback** - one guild's playback: the service's methods, the mirror and the
read loop, composed with the queue and with the external node. A step is one
critical section or one REST call. `pc[p]` names a process's next step and
`arg[p]` carries the tracks it has in its local variables.

| Variable | Code |
|---|---|
| `queue` | the guild's `Queue` |
| `player` | `Player.state` |
| `clock` | `playbackStart` / `frozenElapsed`: none, running or frozen (the number of seconds is left out) |
| `votes` | `voteSkip[guildID]` |
| `node`, `nodePaused`, `events` | the node and its events on their way (external) |
| `pc`, `arg`, `ended` | control and locals; `ended` is the track of the end the hook is handling |
| `requests`, `commands`, `faults` | how much of the bounds is spent |

| Actions | Code |
|---|---|
| `Begin` | an interaction arrives (`registry.go`) |
| `ResetStaleQueue`, `Resolve`, `EnqueueItems` | `Service.Enqueue` |
| `SkipTrack` (`CastVote`, `ClearVotes`, `SkipPop`) | `VoteSkip`, `Skip` |
| `PauseResume`, `ClearAll`, `EditQueue` | the methods of these names; `EditQueue` is remove, play-next, shuffle and loop |
| `PlayCall`, `StopCall`, `PauseCall` | the player's REST calls, with failures |
| `MarkStart`, `MarkPaused`, `ClearClock` | the playback clock |
| `Receive` | the read loop and the player's event handlers |
| `OnTrackEnd`, `AdvanceQueue` | `Service.onTrackEnd` |
| `NodeFinish`, `NodePlay`, `NodeStop`, `NodeSetPaused` | the node |

Two evaluations of `player.State()` in one condition are two steps, as they
take the lock twice. `markPlaybackStart` is one step although it takes a second
lock inside the first: nobody reads both maps under both locks.

**MCPlayback** - the instance for TLC: tracks are named by their request and
their position in it.

**VoiceConnect** - joining and leaving one guild's voice channel: `ensureVoice` and
`Leave` over the player's `Connect`, `Disconnect` and voice handlers. Joining takes
three parties. The bot asks Discord for a channel; Discord answers with two gateway
events; their halves together are the credentials the bot sends to Linkdave; Linkdave
connects and confirms, and the read loop answers whoever waits in `Connect`.

| Variable | Code |
|---|---|
| `player` | `channelID`, `connecting`, `pending`, `voiceState`, `connectWaiters` of `Player`; `voiceState` by its channel, a waiter by the number of its command |
| `sent` | what was sent on each waiter channel |
| `spawned` | the bag of goroutines that discordgo started for a gateway event and that have not run yet |
| `botChannel`, `requests` | where Discord has the bot, as `BotVoiceChannel` reads it, and requests on their way (external) |
| `updates`, `nodeVoice`, `events` | credentials on their way to Linkdave, its session, its events (external) |
| `pc`, `loc` | control and locals of each command, of `Disconnect` when it is called, and of the read loop |

| Actions | Code |
|---|---|
| `Begin` | `/join`, `/leave`, or a `/play` that first joins |
| `EnsureVoice` (`CheckDiscord`, `CallDisconnect`, `Nap`) | `Service.ensureVoice`; each condition that reads the player or Discord is a step |
| `Leave` | `Service.Leave`, its voice part |
| `Connect` (`BeginConnect`, `FinishConnect`, `AwaitAnswer`) | `Player.Connect`; the select may take its timeout although an answer is there |
| `Disconnect` | `Player.Disconnect`, each of its calls with failure |
| `HandleGatewayEvent` (`TryConnect`) | `handleVoiceStateUpdate`, `handleVoiceServerUpdate`, `tryConnectLinkdaveLocked` |
| `OnVoiceConnect`, `OnVoiceDisconnect`, `ResetAfterDisconnect` | the read loop's voice handlers |
| `DiscordAnswers`, `ModeratorMoves`, `ServerMoves` | Discord |
| `NodeConnects`, `NodeLoses` | Linkdave |

Left out: `voiceReady` (nothing reads it), `state` and `current` (Playback's), the
session id of the credentials (it comes with the channel), the queue that `Leave` clears,
and the client's session id, which is never empty once the client has connected.

**MCVoiceConnect** - its instance for TLC, symmetric in users and channels.

**Jukebox** - the abstract queue: tracks join the line at its end, become current from
its head, may be taken out, and none ever joins twice. `Playback` implements it
(`QueueIsJukebox`) with the refinement mapping `line <- queue.items`,
`current <- queue.now`, `fresh <- Unqueued`: the tracks of requests to come and those that
handlers still hold in their variables.

**AutoLeave** - `ConsiderAutoLeave` and its timers. Every voice event of the guild is followed
from its goroutine over the timer it may arm to the end of the timer's callback.

| Variable | Code |
|---|---|
| `botChannel`, `place` | discordgo's cache, which changes when an event arrives |
| `pc`, `chan` | each event's next step and its `channelID` |
| `entry` | `leaveTimers[guildID]` |
| `leaving` | a departure Discord still has to carry out (external) |
| `overlap` | whether goroutines run out of order, and whether callbacks are overtaken |

| Actions | Code |
|---|---|
| `HumanMoves`, `BotMoves`, `BotDeparts` | Discord, and `onVoiceStateUpdate` being started |
| `Look`, `Count`, `CancelAutoLeave`, `Schedule` | `ConsiderAutoLeave`, `cancelAutoLeave` |
| `Fire`, `DeleteEntry`, `StillInVoice`, `StillAlone`, `Leave` | the callback |

**Panel** - the now-playing panel of a guild. Each command, press or track end is a task:
it changes the player in one step (how that happens is Playback's) and then works
through its list of steps, one look at the player, one access to the panel map or one call to Discord
at a time.

| Variable | Code |
|---|---|
| `now`, `upcoming`, `frozen`, `mirror`, `node` | what `PlaybackState` reads, and the node behind it |
| `messages`, `ref` | the panel messages in the channel and `PlayerPanel.panel[guildID]` |
| `lingers` | the node may still play what the queue let go: a failed `Stop` or `Play`, or an answer that was lost |
| `tasks` | handlers and emissions at work, with their locals; `clicked` is the pressed message, `serves` whether the handler is to bring it up to date |

| Actions | Code |
|---|---|
| `Command`, `TrackEnds`, presses (`Operation`) | the handlers in `music.go`, the button handlers, `onTrackEnd`, each with the panel steps that follow |
| `VoteSkip`, `VoteFails`, `Answers` | the vote button, whose handler updates the guild's panel and not the message it is on; the fact and queue buttons and a vote on nothing only answer |
| `Fails` (`SkipFails`, `StopFails`) | an operation that fails, with what it had taken from the queue |
| `OnFresh`, `OnRefresh`, `Find`, `Repost`, `Update`, `Consider` | `onPlaybackEvent` and the branches behind it |
| `Strip`, `Compose`, `Send`, `Redraw`, `Forget`, `Adopt`, `Edit` | `PublishFromInteraction`, `stripOldPanelButtons`, `refreshPanel`, `clearRef`, `setRef`, and the edits of the pressed message |
| `Hear`, `Restart` | the read loop; a new process, which has forgotten the panel |

**Document** - what the outside sees: `persistGuild` with the store's upsert, and the bot's
status. A task changes a guild's player and then takes the steps of `emitPlayback`:
`ReadState`, `ReadQueue`, `ReadClock` and `Write` for the document, `LookAt` each guild and
`UpdateStatus` for the status. `doc[g]` is the document, `past[g]` remembers every queue the guild
has had, `epoch[g]` which start the clock counts from; `reports[g]` is the mirror, `Player.state`, followed by
what the node has reported since and the read loop has not taken yet (`Hear`). `whole` and `timely` say whether the last write
carried a track, and whether all reports had been read for it; `emitted` are the guilds whose last
change was written, and a task's `told` that its status reached Discord.

An operation is `Change` followed by these steps, or it `Fails`: the node's error makes `Skip`, `Clear`, `Leave` and
`enqueueItems` return before `emitPlayback`, with the queue already changed. A write may fail, which is
logged, and so may `UpdateStatusComplex`, whose error is ignored. Of the player's resets only that of `Disconnect` is
here (`Forgets`); that voice events set `state` to idle, too, is in none of the modules.

**Lifecycle** - composed with Document: `Bot.Run` from `session.Open` to its last return, with a
signal, a deadline or a kill at any moment.

| Variable | Code |
|---|---|
| `run` | the next step of `Run`, whether the signal came and the shutdown context is over, whether the API listens |
| `link` | `linkdave.Client`: WebSocket, read loop, `readyCh`, `sessionID` (greetings read) |
| `voice` | each guild's player: out, joining (`Connect` waits for credentials), sent (for the confirmation) or in; `Connected()` is true from sent on |
| `present` | where Discord shows the bot in voice, whatever the player says (external) |
| `stranded` | those of them where no Disconnect is to be expected: the session was lost, a call failed, or an earlier life joined |
| `request` | requests to the HTTP API |
| `open`, `doc`, ... | Document's |

| Actions | Code |
|---|---|
| `Boot`, `OpenSession`, `RegisterCommands`, `Dial`, `AwaitReady`, `StartApi` | `New` and the first half of `Run`, `Client.Connect` |
| `Online`, `StopApi`, `CloseStore`, `ListGuilds`, `LeaveNext`, `CloseLink`, `CloseSession` | the second half of `Run`, `DisconnectAll`, `Client.Close` |
| `ReadReady`, `ReadFails` | `readLoop` |
| `Handler`, `Report`, `Emit`, `Ask`, `Answer` | commands, the node's reports, emissions and API requests, which go on meanwhile |
| `Join`, `Credentials`, `Confirmed`, `GiveUp`, `Removed`, `Lost` | a join from `Connect` over the gateway's credentials to Linkdave's confirmation or the timeout; leaving; the end of a session with the bot still in the channel |
| `Signal`, `Deadline`, `Kill` | the surroundings |

**TrackStream** - the processes behind one track. A lookup runs yt-dlp with one client after
another and copies its two pipes with two goroutines; when the node asks the proxy for the track, a
pipeline yt-dlp, feeder goroutine, ffmpeg, node is built. Pipes have a capacity, and who
writes into a full one waits.

| Variable | Code |
|---|---|
| `lookup`, `copiers` | `resolveMetadata`, `captureYTDLPOutput` |
| `stream` | `handleStream` over `OpenAudioStream` |
| `source`, `encoder` | yt-dlp and ffmpeg with their pipes, the goroutine behind ffmpeg's `Stdin` |
| `node` | the HTTP client and the request's context |
| `offers` | how much audio each of `streamArgVariants` has for this track |

| Actions | Code |
|---|---|
| `StartLookup`, `LookupFails`, `CopyErr`, `CopyOut`, `EndLookup` | the lookup; `LookupWrites`, `LookupExpires` are its process and context |
| `StartSource`, `NoAudio`, `HasAudio`, `Discard` | `OpenAudioStream`: `startAudioStream`, `Peek(1)`, `killProcess` |
| `StartEncoder`, `Copy`, `WaitEncoder`, `CloseSource` | `handleStream` |
| `Feed`, `Cancel`, `KillSource`, `KillEncoder` | what `os/exec` and `net/http` do behind it |
| `SourceRuns`, `EncoderRuns`, `Break`, `HangUp`, `Shutdown` | processes, the node, `StreamProxy.Close` |

**MCAutoLeave**, **MCPanel**, **MCDocument**, **MCLifecycle**, **MCTrackStream** - the instances
for TLC. `MCPanel` names the combinations of trouble that a behaviour may have.

**PlaybackProofs**, **PlaybackSafetyProofs**, **PlaybackOrderProofs**, **VoiceConnectProofs**,
**AutoLeaveProofs**, **PanelProofs**, **LifecycleProofs**, **TrackStreamProofs** - the proofs.

### What is assumed of the node

Linkdave's code is not part of the repository. From the calls in `rest.go` and
the events in `protocol.go` we take: events arrive in the order the node sends
them; playing over a track ends it with `replaced` and starts the new one;
stopping ends it with `stopped` and reports idle; pausing and resuming report
the new state; a track that ends by itself ends with `finished` or `error`. A call
that fails may or may not have reached the node. The voice session stays up in
this module: joining and leaving are VoiceConnect's.

### What is assumed of Discord and of Linkdave's voice sessions

A join of another channel yields a voice state event and a voice server event; a join
of the channel the bot is in yields the first only, a departure a state event without a
channel. The comment in `ensureVoice` (`service.go` 363) relies on the same. discordgo
updates its cache when an event arrives and starts a goroutine for the handler, so
handlers run in any order. Requests are not lost once they are sent. Moderators may move
the bot or throw it out, and the voice server may change (an event without endpoint, then
one with), as often as `MaxUpsets` allows.

Linkdave connects with credentials for the channel the bot is in and may fail, which
counts as an upset; credentials for another channel always fail. It reports each session
that ends, with the reason, and loses the session when the bot has left the channel.
Events arrive in order.

## Runs

| Run | Question | Instance |
|---|---|---|
| `playback_race` | what survives every interleaving? | two users, at most three of play, skip, vote, pause, resume, clear, remove, two requests of one or two tracks, one failed or lost call; symmetric in the users |
| `playback_calm` | is the sequential behaviour right? | all ten commands, at most five, each begun when nothing is in flight; tracks finish or fail |
| `playback_double_advance` | does Advance drop the finished track? | no: a skip that meets a track's own end |
| `voice_race` | do joins and leaves survive each other? | two users, two commands, two channels, timeouts at any moment, gateway events in any order |
| `voice_calm` | does a join work when nothing interferes? | two users, six commands, two upsets, each begun at rest; Discord may start with the bot in a channel |
| `voice_upsets` | and what of failures? | one command, two upsets and one failing call at any moment |
| `auto_leave` | does the bot leave when, and only when, it is alone? | one listener, two channels, three moves with the departures they cause, one failed leave, every overlap |
| `panel` | is there one panel, and does it tell the truth? | four tasks, two at a time, one fault, ten combinations of trouble |
| `document` | what do document and status say? | four changes of two guilds' players one after another, or two that overlap; two failed operations, writes or status updates; reports of the node as late as they like |
| `stale_document` | is the document the latest snapshot? | no: it keeps the last track of an idle guild |
| `lifecycle` | does the bot start, run and stop in order? | two lives, one guild, two changes of its player, one API request, three greetings of the node; joins that fail, sessions that are lost, Disconnects that fail, the bot still in voice after a restart |
| `track_stream` | is a track heard whole, and does everything end? | two clients, three variants of up to two chunks, pipes of one chunk, one failure |

`playback_race` checks

- `TypeOK`: types, control inside each process's own code, no head of an empty list;
- `ActiveHasTrack`: a queue that drives playback has a current track, but for
  the gap between `SetActive` and `SetNowPlaying`;
- `RequestOrder`: the tracks of one request stay in order, also relative to the
  current track, with other commands and ends between the appends;
- `MirrorCaughtUp`: with no event on its way, the mirrored state is the node's;
- `VotesAreActedOn`: enough votes for any audience are never left lying;
- `QueueIsJukebox`: in every interleaving the queue, with what handlers still have to append
  to it, takes steps of the abstract `Jukebox` only: no track is queued or played a second
  time, and none enters but at the end of the line or as the current one.

`playback_calm` checks

- `HeardIsShown`, `ClockAgrees`: at rest, now-playing is what the node streams,
  and the clock runs, is frozen or absent as the node plays, is paused or idle;
- `NothingStranded`: at rest, tracks wait only behind a playing one in an active queue;
- `QueueDrains`: if in the end the node is neither left paused nor told to repeat
  one track, a waiting track is eventually played or removed.

The properties of `playback_calm` are false under arbitrary interleavings, and
that is how the code is. In `playback_double_advance` the hook does not compare the track that
ended with the current one, so a `/skip` between a track's end and its hook makes the hook drop
the track it skipped to from the queue. And `resetStaleQueue` mistakes a queue that has just been started
for a stale one, because the mirrored state is not yet *playing*: a second /play before the
first TrackStart is read wipes the queue and then appends to it while inactive
(`NothingStranded` fails).

`voice_race` checks

- `TypeOK`: above all, that only complete credentials are sent;
- `AnsweredOnce`: no waiter channel is sent to twice. It has room for one value and is
  closed after it; four places answer waiters, in three kinds of goroutines;
- `ConnectingIsUnderWay`: the flag that refuses a Connect does not outlive the Connect
  or Disconnect that takes it down.

`voice_upsets` checks

- `CredentialsAreSent`: complete credentials do not wait for another event;
- `ConnectedHasSession`: at rest, a player that says Connected() has a session in that channel.

`voice_calm` checks

- `VoiceAgrees`: at rest, Connected() and ChannelID() tell Linkdave's session, and
  nothing of any Connect is left over;
- `ConnectsAreAnswered`: no Connect has to time out, also right after a restart.

*Calm* means: users and moderators begin when nothing is in flight, the waits of
`ensureVoice` are long enough for Discord to catch up, Connect times out only when
no answer can come any more, and Linkdave's events are read before the gateway
events that follow them. Without it the properties of `voice_calm` fail, in three ways. A second
user passes the checks of `ensureVoice` while the first is still connecting, and begins its own
Connect when that one has been confirmed: the channel is joined again, which brings no
credentials, nobody answers, and after its timeout the Connect disconnects the bot. The
goroutine with the event of a departure runs after the credentials of the next join were
sent, and wipes its session from the player. And a Connect times out while its confirmation
is on its way, and the confirmation answers the next one.

`auto_leave` checks

- `ArmedIsEntry`: where no callback is overtaken, `cancelAutoLeave` finds every armed timer. An
  overtaken callback deletes the entry of the next timer (`service.go` 684), which nobody
  can stop then;
- `AloneIsTimed`: where goroutines run in the order of their events, a bot that is alone has a
  timer or a callback for its channel, even with overtaken callbacks;
- `LeavesNobodyBehind`: without overlaps the callback, which looks for listeners in the channel of a minute
  ago, does not leave people in another one. With overtaken callbacks it does;
- `AloneLeaves`: a bot that stays alone leaves, unless leaving fails.

`panel` checks, under the combinations of trouble that each property names

- `OnePanel`: the only message with buttons is the guild's panel. Handlers at the same time
  strip the same message and post one each, and a restart forgets the panel: then it is false;
- `PanelShows`: the panel shows the player. With slow answers it is false: `PlaybackState`
  reads the mirror, which still says paused after a resume;
- `NoPanelOfNothing`: where nothing plays, there is no panel to update. When `Leave` or `Clear`
  fails after emptying the queue, nothing is emitted and it is false;
- `PressIsHonest`: pressing a control (pause, resume, skip, stop) of whatever message, also of one left over by a race or
  from before a restart, leaves it true or without buttons, whether the operation succeeds or fails. The other buttons
  do not do that: a vote that is counted updates the guild's panel, which is all the property claims of votes, so on a
  leftover it leaves an old face and its buttons; a vote on nothing, a vote whose skip fails, and
  the fact and queue buttons only answer.

`document` checks

- `PairWasTrue`: however tasks overlap and writes fail, the track and the queue length of a document belonged
  together at some moment, although `persistGuild` reads the player twice;
- `DocumentKeepsUp`: without overlaps the document of a guild whose last change was written shows the queue, the
  track while one plays, a pause of the clock and, unless it says paused, the track's start. Whether the node is paused it shows
  only if the node's reports had been read: after a `Resume`, or a `Skip` while paused, whose report comes late the
  document stays paused, without a start, until the next change. Overlapping tasks write in any order and
  leave older documents, and so does an operation or a write that fails;
- `PresenceIsTrue`: without overlaps, once the last change has told Discord, the status names a track that plays
  somewhere, or all guilds are idle. An operation that fails before its emission and an update whose error is
  ignored leave the old status.

`stale_document` shows what `omitempty` and `$set` do together: the field `now` of an idle guild keeps
the last track (`store.go` 32 and 94), and the website's `!doc.now` never sees it idle.

`lifecycle` checks

- `ApiBeforeStore`: an accepted API request never meets a closed store, unless the shutdown gave up waiting;
- `ReaderListens`: two greetings of the node do not hang the read loop. `readyCh` has room for
  one value and only `Connect` takes one, so a third hangs it for good;
- `LeavesVoice`: when an orderly shutdown closes the link, the bot is out of voice wherever a player had a
  session. `DisconnectAll` passes over players that are not `Connected()`, which they are as soon as the credentials are
  sent, and only logs an error. So the bot may stay where a join was under way (hence *without overlap*), where Linkdave
  had lost the session while Discord kept the bot in the channel, where a Disconnect failed, and where an
  earlier life of the process had joined, for which the new one has no player (`service.go` 363); `stranded` records the last three;
- `SignalEnds`: a signalled process ends, whether it is starting, waiting for the node or
  answering requests that never finish.

After a shutdown the documents keep showing what played, as the store is closed before the
players are disconnected, and after a kill as well.

`track_stream` checks

- `WholeTrack`: without failures the node reads the whole of the first variant that has audio, whatever
  order the three pipes and the ends of their writers are seen in;
- `NothingLeftBehind`: when the handler returns, its processes have ended and were waited for;
- `LookupEnds`: a lookup ends without its deadline, though its process may wait for either pipe;
- `StreamEnds`: a request and its processes end, with failures, hang-ups and the bot's shutdown.

Each `TypeOK` also says what the next step relies on: a channel to look at, a message to edit, a pipe
that does not overflow, no reader left at the pipe of a process that was waited for.

*Bounds of Playback.* Two requests of two tracks give three waiting tracks behind one that
plays, enough for every branch of the queue; two users are enough for every
pair of methods to overlap with each other and with the hook, and for a vote that
needs two voters; three commands are two requests and whatever meets them, or a
request and two votes, and with them the ends of up to four tracks; one fault, at
any call. Five commands in the calm run let any three commands follow two
requests. The bounds `MaxRequests`, `MaxCommands` and
`MaxFaults` are guards of `Begin` and `Fault`. The system may rest for ever when
nothing is in flight (`Rest`), so deadlock is checked everywhere else.

*Bounds of VoiceConnect.* Two commands of two users are two Connects, or a Connect and
a Disconnect, that overlap in every way, and two channels are enough for a right and a
wrong one. Six calm commands allow every sequence of three joins and three leaves. Two
upsets are a move and a loss, or a session lost twice, during one command; with two commands
as well the state space is too large, which is why failures have a run of their own. A
Connect that times out calls Disconnect by itself, so one command already has both.
`MaxCommands`, `MaxUpsets` and `MaxFaults` are guards of `Begin`, `Upset` and `Fault`.

*Bounds of AutoLeave.* Three moves are enough for the bot to come in, be left alone, have its timer
armed and stopped or overtaken, and change channel; each departure is an event too, so up to six
goroutines and timers exist. One listener is enough, as only the emptiness of a channel is read.

*Bounds of Panel.* Four tasks: one starts a track, two meet, and one looks at what they left. Trouble
comes alone and in four pairs. Handlers at the same time come alone: together with restarts they triple the states, and
that a press is honest after both is proved (`PressesAreHonest`). More kinds at once only add behaviours that
no property speaks about.

*Bounds of Document and Lifecycle.* Four changes one after another (`MaxTasks`) are a start, a pause, a resume or
skip and what comes after it; two that overlap (`MaxTogether`) are all that tearing and outdated writes need; two
faults (`MaxFaults`) are a failed operation and a failed write behind it; two waiting tracks (`MaxWaiting`). Two guilds are
needed by the status, which looks at all of them. Lifecycle needs one change to have an emission that meets
the shutdown, a second for a pause whose report does, two lives for a restart, and three greetings to block the read loop.
It has one guild: a second, with its player, voice and document, makes ten times the states, and that `DisconnectAll` goes
on to the next guild is proved (`ShutdownLeavesVoice`). Without overlaps emissions that have begun go on
through the shutdown; with them there is one change (`MaxTogether`), among joins and losses in any order. Its
Disconnects and sessions fail without a bound; failed writes are Document's (`MaxFaults` is 0).

*Bounds of TrackStream.* Pipes of one chunk and tracks of two make every writer wait; three variants and two
clients are a failure, another one, and a success; one failure at any place. A track without any audio and
a lookup without output are among the cases. `MaxFaults` is the guard of `Fault`.

*Fairness.* In `playback_calm`, weak fairness of each handler that
is inside a method (the Go scheduler runs every goroutine, and every call has a
timeout), of the read loop, and of a playing track coming to its end. In `auto_leave`, goroutines
run, timers fire and Discord carries out a departure it was asked for. In `lifecycle`, the main
goroutine runs and a context with a timeout ends. In `track_stream`, goroutines and processes
run (yt-dlp has a socket timeout, so it writes or ends), a cancelled context kills, and the
node reads or hangs up. Nothing obliges users to act, members to move, a signal to come, a
process to fail, or a deadline to be needed.

## Proofs

`PlaybackProofs` begins with the lemmas about the queue: what its methods return and
what removing by index leaves. It proves for every set of handlers
and tracks and all bounds, from the named assumptions in `Playback` and
`GuildQueue`:

- `TypeCorrect`: `Spec => []TypeOK`. `TypeOK` is inductive because it records
  which labels carry tracks (`Carrying`): that is what makes each `Head`
  well-defined. One lemma per method, over lemmas for the shared step forms
  (`QueueStep`, `Branch`, `ClearClock`, ...).
- `ActiveQueueHasTrack`: `Spec => []ActiveHasTrack`, with `TypeOK` as its
  strengthening: steps that change the queue either leave it inactive, or give it a
  track, or open the gap at `set_now`, which only the handler in it closes.

`PlaybackSafetyProofs`:

- `MirrorCatchesUp`: `Spec => []MirrorCaughtUp`. The property speaks only of an empty
  event queue, so it says nothing about the step before. `MirrorInv` adds that
  the last event on its way reports the node's state (`LastReports`), and that a
  track's own end always follows a report of playing (`OwnEndsFollow`): the mirror
  keeps *paused* at an own end, and only this makes that harmless.
- `CompletedVotesAct`: `Spec => []VotesAreActedOn`, with the finiteness of the vote
  set, without which its size would say nothing.
- `HeardShownInCalm`, `ClockAgreesInCalm`, `NothingStrandedInCalm`: under `OneAtATime`,
  `Spec => [](faults = 0 => ...)` of the three properties about rest. `CalmInv`: either all are idle and a
  track's own end has still to be read (`EndUnread`), or at most one process is at work; `At` says what it relies on at
  each of its labels about queue, mirror, clock and node, so that at rest they agree (`Sound`). What the
  read loop will make of the events is `MirrorInv`.

`PlaybackOrderProofs` proves `RequestsStayInOrder`: `Spec => []RequestOrder`. The queue
alone is not inductive, since tracks that will be appended are still in the handlers'
variables. `OrderInv` says of those: they are in order, of one request, which no
other handler carries (`Apart`), and lie behind everything queued of that request
(`LineOK`); and all tracks seen belong to requests that have begun (`Minted`).

The same module proves the refinement, `PlaybackImplementsJukebox`:
`NoReordering => (Spec => QueueIsJukebox)`, where `NoReordering` leaves out shuffle, play-next and loop
modes, which reorder by design. It rests on `OrderInvariant`: the tracks a
handler carries are in no other handler and nowhere in the queue, so what it appends or plays was `fresh`. One
lemma per method shows that each step is a step of `Jukebox` or leaves its variables alone.

`VoiceConnectProofs`, for any users, channels and bounds:

- `VoiceTypes`: `Spec => []TypeOK`, over lemmas for bags and for the shared steps.
- `ConnectAnsweredOnce`: `Spec => []AnsweredOnce`. `AnswerInv` adds that no waiter on
  the list has been answered, that commands in progress have different numbers, and
  that a command which has yet to call Connect (`Fresh`) is neither on the list nor
  answered; a step that answers empties the list (`Harmless`).
- `ConnectingEnds`: `Spec => [](faults = 0 => ConnectingIsUnderWay)`. `ConnectingInv` narrows
  down who takes the flag down: the read loop, a Disconnect, or a Connect whose waiter
  is still on the list; an answered Connect does not count. After a failed
  call this is false: a Disconnect that fails leaves the flag up until a voice
  event or `ensureVoice` resets it.
- `CredentialsNeverStay`: `Spec => []CredentialsAreSent`, which is inductive by itself.
- `ConnectedHaveSessions`: `Spec => []ConnectedHasSession`. The property speaks only of rest; `SessionInv` says of every
  state that the credentials the player holds are the last on their way to Linkdave, or their session is there, or
  the event of its end has still to be read (`LossUnread`), and that event makes the player forget them.
- `VoiceAgreesInCalm`, `ConnectsAnsweredInCalm`: under `Calm`, `Spec => [](faults = 0 => ...)` of the two
  properties about rest. `CalmInv` lists the sets of gateway events that can be on their way together and the half of the
  credentials the player has meanwhile (`DiscordPhase`), what the bot believes of its session (`LinkInv`), and what the one user
  at work may rely on at each label (`At`): a Connect starts with nothing left of an earlier join (`Clear`), and from
  then on its answer is somewhere on the way (`AnswerComes`).

`AutoLeaveProofs`, for any members, channels and number of events, with the inductive `IInv`:

- `TypeCorrect`, and `EntryLive`: `leaveTimers` never keeps a stopped or finished timer;
- `ArmedFound`: `Spec => []ArmedIsEntry`. `PendingIsEntry` adds that the timer whose callback has begun,
  but has not deleted the entry yet, is the entry too;
- `AloneTimed`: `Spec => []AloneIsTimed`. It is the newest goroutine that knows the cache
  (`NewestKnows`); the others may arm or cancel what they like, as long as it comes after them
  (`InOrder`);
- `NobodyLeft`: `Spec => LeavesNobodyBehind`, from `CallbackKnows`: a timer fires when all
  goroutines are done, for the channel the bot is in, and nothing moves until its callback ends.

`TrackStreamProofs`, for any clients and variants, tracks and pipes of any length:

- `TypeCorrect`, from what the places in the code say of the processes: which copier still has
  something to find (`LookupInv`), which process exists and was waited for (`ProcessInv`). That no pipe
  overflows needs `NothingAdded`: what is on its way and what was heard is never more than the track.
- `WholeTrackHeard`: `Spec => []WholeTrack`. What was sent, what is in the pipes, what the feeder holds
  and what is left to write make up the variant, and nothing ends before what feeds it (`NothingLost`); this
  holds while nothing has failed and the node listens (`Fine`), and a later failure does not matter,
  since the property says so too.
- `NoProcessStays`: `Spec => []NothingLeftBehind`, from `ProcessInv`.

`LifecycleProofs` is about Document and about Lifecycle, which has Document's steps among its own: each lemma
about a step of Document is used for both. For any guilds and bounds:

- `DocumentPairs`, `PairsAcrossLives`: `[]PairWasTrue` of either specification. `PairInv` says of each task
  about to write that what it read is in `past`, the pairs that the player has shown.
- `DocumentFollows`: `[]DocumentKeepsUp`. Without overlaps the task at work is the last one, and what it has
  read is still so, but for the mirror, which a report may change: only `timely` reads keep their meaning (`Fresh`). The
  document of a guild in `emitted` is true, and each change takes its guild out of `emitted` (`KeepsInv`).
- `StatusIsTrue`: `[]PresenceIsTrue`. The guilds that the search for a playing guild has passed are idle,
  the status about to be set names a track that plays, and so does the one that the last task has told (`PresenceInv`).
- `TypeCorrect`; `RequestsHaveStore`: `[]ApiBeforeStore`. `RequestInv` adds that the API is only served while the
  store is open and the phase is before its closing, and that a request which has nothing is one the shutdown
  gave up on.
- `TwoGreetings`: `[]ReaderListens`. Each value in `readyCh`, and the one that a blocked read loop holds, stands for
  a greeting, and `Connect` has taken one more (`LinkInv`); so a third greeting is needed to block it.
- `ShutdownLeavesVoice`: `[]LeavesVoice`. Wherever the bot is, the player has or awaits a session or the guild is
  stranded (`Voiced`); without overlaps nobody begins to join after the signal and sessions are only lost, and in the
  guilds that `DisconnectAll` has visited the bot is out of voice or stranded (`VoiceInv`).

`PanelProofs`, for any number of tasks and any set of combinations of trouble. Its first half shows that each step is
a *turn*: the first step of a task's list is replaced by others, one message or the map changes as that
step says, and nothing else (`NextIs`). All invariants are about turns and new tasks.

- `TypeCorrect`: a task about to edit a message has one, because the lists that can occur are those in
  which each step is followed by one that may follow it (`Planned`): the panel is looked up before it is edited.
- `NoPanelWhenIdle`: `[]NoPanelOfNothing`. A panel of nothing has a task that will forget it (`ClearInv`), which needs
  `OneInv`: with tasks one after another no step that posts or keeps a panel runs while nothing plays.
- `OnePanelOnly`: `[]OnePanel`. `ButtonsInv` gives, for each point of a task, the messages that may still have
  buttons: the guild's panel, the one just posted, the one that was pressed, or none. What the rest of the
  list will do to them is decided by its kind (`KinInv`): one that redraws the pressed message does not post.
- `PanelShowsPlayer`: `[]PanelShows`. `ShowsInv` adds what a task will paint: once it has looked, the player
  does not change under it, and a message that is to lose its buttons after a track was skipped is not the new panel.
- `PressesAreHonest`: `[]PressIsHonest`. The last step of a pressed control's task is about its message, whatever
  has happened before, and a step that paints has the player of now; the task of a counted vote updates the guild's panel,
  and where that is the message of the vote its last step is about it too (`HonestInv`, `TellInv`).

Every invariant and action property of the passing runs is stated by a theorem. The five properties about rest are
proved under the constants of their runs, `OneAtATime` and `Calm`, and until a call has failed: without calm a
handler may act on what a read loop or a gateway event is about to change, and after a failed call what
the bot shows may differ from what Linkdave does. Liveness
(`QueueDrains`, `AloneLeaves`, `SignalEnds`, `LookupEnds`, `StreamEnds`) stays with TLC, as the prover has no
support for fairness and ENABLED.

## Not modelled, and the plan

Not modelled, because it is text, layout or pure I/O: the player UI, help, song facts, command replies,
the parsing of yt-dlp's output, the JSON views of the API, the website, deployment scripts, the
configuration. Not modelled, because it is one map under one lock whose operations do not interact with anything
else: the search cache, the suggestions, the AI client's cooldown. The queue view is a message of its own
(`handleQueueEdit`): its index may be outdated, so that another track is removed than the one that was picked,
and no statement of the code excludes it.

Next: the queue view, with indices that may be outdated.
