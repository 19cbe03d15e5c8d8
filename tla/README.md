# Nebula: a TLA+ model of the device farm

Nebula lets users occupy real phones over the network. A **server** keeps a
registry of devices and hands them out; an **agent** on each host with phones
keeps one outbound WebSocket ("tunnel") to the server, executes commands on the
phones' **controllers** (an XCUITest runner or an Android instrumentation) and
pushes mirroring frames; **users** (web console, CLI, client library) talk HTTP
to the server and watch the screen over a viewer WebSocket.

The promise at the centre of the system is exclusive use: while a user holds a
device nobody else controls or watches it, when the occupation ends everything
done under it ends too, and no device stays taken for ever. The specifications
follow that promise from the button in the browser, through the database and the
tunnel, to the thread on the phone that performs the input; and they follow the
child processes, ports and forwards an agent owes to the phones it has lost.

## 1. Inventory

Server (`src/packages/server`)

| component | state | operations | talks to |
|---|---|---|---|
| Device registry (`devices/`, `storage/`) | one row per device in SQLite: status, agent, occupant, heartbeat and activity timestamps; survives restarts | upsert, occupy, release, renew, heartbeat, mark agent offline, two sweeps; all synchronous transactions | publishes "occupation ended" synchronously |
| Sweep monitors (`heartbeat.monitor`, `occupancy-expiry.monitor`) | an interval timer | idle sweep, heartbeat sweep | registry |
| Occupancy events and listeners (`occupancy/`) | subscriptions | close the viewers, fail the commands and notify the agent of the ended generation | relay, gateway |
| Agents gateway (`agents/`) | current socket per agent, action spec per agent, waiting commands with timers | connect (replaces), disconnect, register, heartbeat, result, frame, send command, demand snapshot | registry, relay, agents |
| Commands (`commands/`) | none | check the occupant, renew, send, translate the outcome | registry, gateway |
| Streams (`streams/`) | viewers per device with their generation | admit, remove, close, broadcast, 0-1 and 1-0 demand edges | registry, gateway, viewers |
| Authentication and rate limits (`auth/`, `config/`) | failures per address and window | check, record, clean up | gateways |

Agent (`src/packages/agent`)

| component | state | operations | hard part |
|---|---|---|---|
| Server tunnel | one socket, backoff counter, four timers | connect, lose, ping, reconnect, send, dispatch | either side may notice a loss first |
| Command executor | per device: promise queue, depth, current generation | accept, refuse, start, discard, finish, revoke one, revoke all | generations checked when a command starts, not when it arrives |
| Main loop and discovery | list and failure counter per source, in-flight flag | discover, register, heartbeat, shut down | overlapping asynchronous steps, one source failing alone |
| iOS supervisor | per device: two processes, port, generation, restart timer | sync, launch, poll health, restart, stop | late exits and health answers of an old launch; port reuse |
| Android supervisor | per device: one process, port, generation, restart timer; adb calls under way | prepare, install, forward, force-stop, spawn, poll, restart, stop, clean up | a launch waits for adb for up to a minute while all else moves on |
| Mirroring streams | helper or daemon, socket, parser, timers | start, stop, restart, parse | stop during an asynchronous start; late pipes of a dead helper |
| Demand gate | demanded devices, "snapshot seen" | apply, reset, should send | reset on reconnection |

Phone (`src/android-controller`, `src/controller-ios`): a small HTTP server with
a queue in front of the one thread that may touch the screen; an action may
hang. Clients (`src/packages/web`, `cli`, `client`): the session a tab or the
session file holds, a keepalive, requests answered late or never. Each component
has an entry under `components` in `PROJECT.json`, with what is modelled of it
and why the rest is not.

What is hard here, and hard to test: four ways an occupation or a command can
end racing each other (release, two sweeps, tunnel loss, timeout, answer);
sockets replaced while the old one still has a close event and messages under
way; a tunnel whose loss the two ends notice at different times; a queue in the
agent that outlives the occupation, and the connection, its commands came from;
adb calls and child processes that outlive the session that made them; answers
that reach a browser tab after its user went on to another device. The list with
the lines is under `hazards` in `PROJECT.json`.

What makes each component correct: the registry grants a device to one
generation at a time, never revives an ended one, never ends one early, always
ends it at last; the server keeps viewers and waiting commands only for the
current occupation and answers every caller; the path to the agent, and the
queue on the phone, never perform input of a past occupant after the hand-over
or after its sender was told it failed; the agent drives every discovered phone
by exactly one thing at a time, and leaves nothing behind of those it lost; a
client keeps the device its user works with, and no other.

## 2. Modules

| module | models | how |
|---|---|---|
| `Occupancy` | the abstract promise: generations are granted once, to a free device, and end for good | state `lease`: unissued, ended, or the device held |
| `DeviceRegistry` | `SqliteDevicesRepository` behind `DevicesService`, with the sweeps | one action per transaction; implements `Occupancy` (`Lease`, `leaseMap`) |
| `FarmServer` | the server process: registry, gateway, commands, viewers, listeners, restart | one action per event handler, with everything it calls synchronously; implements `DeviceRegistry` by instantiation |
| `CommandPath` | the server, the tunnel and the agent's `CommandExecutor` | instantiates `FarmServer` without viewers and adds what it writes to sockets, the wire, and the executor |
| `StreamDemand` | viewers, the demand snapshots of the gateway, and each agent's `StreamDemandGate` | instantiates `FarmServer` without commands and adds the snapshots on the wire and the gates |
| `ServerTunnel` | the reconnection, keepalive and close of the agent's `ServerTunnel` | sockets, the timers that run, and the fields that hold them |
| `AgentLoop` | `discoverAndRegister`, the two discovery sources, `DiscoveryState`, `DiscoveryAggregator`, the shutdown | a discovery is a start, one answer per source, and a finish |
| `ControllerSupervisor` | the iOS supervisor with its child processes, and the shutdown of the agent | `Session` objects, processes, polls under way, the port pool |
| `AndroidSupervisor` | the Android supervisor, its adb calls, and what they do to the adb server and the phone | as above, with every adb call under way as an element of `calls` |
| `AndroidStream`, `H264Stream` | one mirroring stream of each platform | stream objects and the launches they made, each with its own process, socket and call |
| `StreamManager` | the map of streams, `syncAlwaysOn`, `stopAll`, `awaitTermination` | instantiates both streams; one device of either platform |
| `DeviceRunner` | the controller on a phone, the agent's `ControllerClient` and health poll | the backlog of the serving thread, the action it performs, three time limits |
| `FarmApi` | the server as an HTTP client can tell: owner, age, answers | one operator per request; an abstract specification, `ApiSpec`, which `DeviceRegistry` implements (`ImplementsApi`) |
| `FarmDevices` | the constant `Devices` | extended by `DeviceRegistry` and `FarmApi`, so that one module can prove about both |
| `WebConsole`, `CliSession` | a tab of the web console; the session file of the CLI | extend `FarmApi`; a request is sent, served, and answered in three steps |
| `Clients` | a tab and a command line with one server | conjoins the two with both sweeps and the clock; its names begin with `Clients` where those of the registry would clash |
| `DeviceRegistryProofs` (registry, API and clients), `FarmServerProofs`, `CommandPathProofs`, `StreamDemandProofs`, `AgentProofs` (tunnel, main loop, phone), `ControllerSupervisorProofs`, `AndroidSupervisorProofs`, `StreamManagerProofs` | theorems | section 5 |
| `MC...` | instances for TLC | constants, symmetry |

**State and code, server and tunnel.** `status`, `agentOf`, `occupant` are
columns. A timestamp column is its *age*, saturated one tick above the timeout it
is compared with; a NULL timestamp is the saturated age, because every query of
the code treats the two alike (`last_activity_at IS NULL OR last_activity_at < ?`).
`nextGen` stands for `randomUUID()`: identifiers are compared for equality only,
and numbering them in order of issue lets properties speak of earlier and later
occupations. `agentSocket`, `pending`, `capabilities`, `viewers` are the maps of
the gateway and the relay; `open` is the set of sockets with
`readyState === OPEN`, so that a socket between `close()` and its close event
exists in the model; `answer` is what the promise of `sendCommand` was resolved
with. In `CommandPath`, `link` is the agent's own idea of its socket, `wire` the
frames the server has written and the agent has not read, `results` the frames
in the other direction, `occupations`, `queue`, `running` the executor's maps. In
`StreamDemand`, `demanded` and `hasSnapshot` are the fields of
`StreamDemandGate`; `Announce` sends one snapshot for each edge in the order the
edges happen, so the lists in between are on the wire as well. A restart of an
agent is `LoseTunnel`, which leaves the same state. `newest`, `revoked` and the
`conn` field of a queued command are history and are read by no guard. In
`ServerTunnel`, `timers` are the timers the event loop holds, each bound to the
socket its callback closes over, and `field` the four `...Timer` fields: clearing
a field stops the timer it holds and no other, so a timer whose field was
overwritten would run on, as it would in the code.

**State and code, agent.** In both supervisors a session object lives on in
`session` after it left the map (`isStopping`), because callbacks still hold it;
`procs` are the child processes whose exit event the agent has not seen, each
with its generation, whether it is alive, and its escalation timer; `polls` are
health checks that await an answer. A `syncDevices` call that starts and stops
several devices is the sequence of its steps: a step for one device reads and
writes nothing of another but the port pool. In `AndroidSupervisor`, `calls` are
the `runAdb` promises not yet settled. `prepare` is `stayon` and `install`, which
have no effect the properties see but their duration; `forward`, `clear` (the
`force-stop` of a launch), `forceStop`, `remove` and `undo` act on `forwards`,
the adb server's table, and on `runner`, the phones that serve. A call takes
effect when it returns, or fails with or without effect. `am instrument` is spawned
first (`starting`) and its runner serves some time later (`RunnerComesUp`), also when
the child has ended meanwhile; a force-stop ends the runner that is up, and
`outran` remembers the devices whose last one came too early. `late`, in both
supervisors, are the sessions begun after the shutdown: `discoverAndRegister` does
not look again after `discovery.refresh()`, so `StartSession` is possible until
the exit. Only one discovery can come so late, because `isDiscoveryInFlight` admits
one at a time, the shutdown has cleared the timer, and after `tunnel.close` no
connection starts another; hence no late session is stopped again, nor a late
stream. `outran` and `late` are history, and only `StopSession` looks at the latter,
to say this. In the streams,
`session` and `helper` are indexed by launch, so that a push, a forward, a socket
or a pipe of an earlier launch is an object of its own whose callback compares
itself with the present one, as the code does. In `AgentLoop`, `results` are what
each source will resolve with, seen at the moment it looked at the bus.

**State and code, phone and clients.** In `DeviceRunner`, `backlog` is the single
worker's queue on Android and the serial dispatch queue on iOS, health polls
included there; `ranFor` and `overran` exist for the property only. In
`WebConsole`, `heeded` is the `isActive` of the effect that sent a keepalive;
answers to buttons have no such flag and act on the session there is by then.
`steady` and the CLI's `aimed` record what a later step asks: whether this tab has
kept its session alive, and whether the flags of the command named the stored
session. `FarmApi` numbers occupant ids as `DeviceRegistry` does. Its 200 for an
action also stands for the errors of the agent (400, 502, 504), which neither
client takes for a statement about its session; its 409 for an
action of the occupant is the offline device of `CommandsService.execute`, which
renews nothing; `Sweep` ends all idle occupations of one sweep, `Reclaim` those of
the heartbeat sweep, which a client cannot foresee.

**Atomicity.** The server is one event loop and better-sqlite3 is synchronous.
No handler modelled here suspends before it has made all of its changes, so a
handler with all it calls, including the listeners of `publishEnded`, is one
action. `sendCommand` suspends only to wait for the answer, which is a later
action. In the agent every `await` ends an action: accepting a command and
starting it are different actions, as are the calls of a launch. Exit events are
later than the exits.

**Environment.** Any agent may connect, register and send heartbeats for any
devices in `FarmServer`; in `CommandPath` for those `Attached` to its host. Any
user may send any request with any generation. Sockets start to close, or close,
at any time. The server restarts up to `MaxCrashes` times, keeping only the
database. The agent restarts at any time. Whether a controller is ready is
nondeterministic. Processes may ignore SIGTERM, die at any time, or fail to
spawn; devices come and go; adb fails up to `MaxFailures` times. An action on a
phone may hang for ever. Users click, or leave, at any time; requests and answers
are lost up to `MaxLosses` times.

## 3. Runs

| run | question | bounds |
|---|---|---|
| `registry` | exclusive use, no revived generation, no early end, everything reclaimed at last | 2 devices, 2 agents that may claim either, 3 occupations, timeouts of 1 and 2 ticks |
| `server` | do viewers, commands and sockets stay with the present occupation, is every command answered, does the server implement the registry | 1 device, 2 agents, 2 sockets, 2 occupations, 1 command, 1 viewer, 1 restart |
| `command_path` | no ghost input, notices cover the hand-over | 1 device, 2 sockets, 2 occupations, 2 commands, queue of 2, 1 restart |
| `demand` | is the last snapshot right, does the gate follow, for a device that changes hosts | 1 device, 2 agents, 2 sockets, 1 viewer, 1 occupation, 2 snapshots on the wire, no restart |
| `tunnel` | one connection at a time, no fast loop, silence noticed, always another attempt | 2 sockets that are used again, the code's own delays in seconds |
| `supervisor` | ports, leaks, restarts and shutdown of the iOS supervisor | 1 device, 2 sessions, 2 launches in all |
| `android` | is an Android device driven by one thing at a time, is every forward and child accounted for | 1 device, 2 sessions, 1 restart, 1 failure |
| `android_ports` (violated) | does the port of a serving runner lead to its device | as `android`, without failures |
| `mirror` | is a wanted stream driven, does a child leak, does a frame carry another helper's size | 1 device of either platform, 2 stream objects, 3 launches |
| `agent_loop` | is a device dropped without cause, does the server's picture converge | 1 iPhone, 2 Android devices, one of them unusable, 1 static device, 4 changes or failures |
| `clients` | is an active user's device kept and an absent user's freed, does a void session end, is a valid one forgotten | 1 device, 1 tab, 1 command line, 2 occupations, 1 request of the tab under way, 1 loss |
| `runner` | is input performed after its sender was told it failed, does a health poll fail without cause | 4 commands, either platform, 1 crash, time limits in the code's order |

**Why the bounds suffice.** The properties relate at most two generations of one
device (past and present), two sockets of one agent (replaced and current), two
commands (one running, one waiting), two sessions on one port. Two devices are
needed only to see that they do not disturb each other; for the server, the
command path and the supervisors, where one device fills the run, the theorems
of section 5 say so for any number of them. (The iOS supervisor with two devices
and its inductive invariants was checked once, 2 153 944 states; so were the
invariants of `demand` with a restart of the server, 530 570 states.)
Timeouts are one or two ticks: every comparison has an age below, at and above
its limit, and `CommandTimeout < OccupationTtl` and `CommandTimeout <= QueueStale`
are kept as in the code (15 s, at least 60 s, 15 s). In `command_path` the
heartbeat timeout is 0 ticks: its length does not matter there, only that the
sweep can come. `MaxGenerations`, `Requests`, `MaxCrashes`, `MaxSessions`,
`MaxLaunches`, `MaxRestarts`, `MaxFailures`, `MaxStreams`, `MaxChanges`, `MaxIds`,
`MaxRequests`, `MaxLosses`, `MaxCommands`, `MaxInFlight` bound histories that are
unbounded in the code. Symmetry over requests and sockets is used in
`command_path` only, a safety run; both are compared for equality only.

Two runs have a `VIEW`, which takes as one the states that differ in
what neither a guard nor a property of the run reads. In `command_path` that is
with which failure a caller was answered, and on which socket a queued command
came. In `android` (`EssentialOrLeft`) it is the health answers and exit events of an
earlier generation, whose arrival changes nothing but that they are gone, how long
ago a session that is ready by now was launched, and which of the launches of a
device ordered the runner on its way up. After the exit nothing happens, and only
what `CleanExit` reads is kept.

In `tunnel` a tick is a second and no delay is shortened (backoff 1 to 30 s,
stable after 30 s, ping every 30 s, pong within 10 s); `MaxAttempt` is where the
delay reaches its maximum and the counter stops to matter. Two sockets are
enough, since a socket may be used again once its close event came. In the
supervisors ticks are shortened, keeping
`RestartBase <= KillEscalation < PortCooldown` for iOS (1, 3 and 5 s in the
code), which is what its races depend on; for Android one tick each, where what
matters is that one adb call (10 s, an install 60 s) may last as long as the
cooldown of a port and the agent's grace. `MaxFailures = 1` suffices because
`ForwardsAccounted` and the second half of `CleanExit` are claimed for no
failure, and the others must survive one. In `mirror`, three launches give an
earlier one, the present one, and one of the next stream object; `FirstOutput`
stands for both first-output deadlines. In `agent_loop`, four changes let one
source fail twice in a row (the limit, `MaxConsecutiveFailures`, is 5 in the
code) while a device or the tunnel changes. In `clients` a tick is the keepalive
interval (30 s), longer than the client's time limit, and the TTL outlasts one
lost keepalive. One request of the tab is under way at a time, keepalive or
button: what its late answer meets are the clock, the sweep, the command line, a
lost connection and a page loaded again. With two, so that a button races a
keepalive, `KeptAlive` and `CliForgetsForCause` were checked once with the
invariants that prove them (842 411 states); liveness would take too long for
every day, and findings 5 and 6 need two. In `runner` the ticks keep the order of the limits: the
queue's (9 s) below the agent's (10 s), the poll's (5 s) at most half of it. The
last is an assumption of `DeviceRunner` that `FailsOnlyWhenBlocked` rests on: with limits of
3 and 4 ticks TLC shows a poll that fails behind two actions, neither of which
lasted as long as the poll waits.

**Fairness.** The sweeps are `setInterval` callbacks, the command timer is a
`setTimeout`, time passes: weak fairness on each. Nothing is assumed of users,
agents, or sockets, which may stay half-closed for ever. In `demand` only
delivery on a tunnel that both ends see as working is fair. In `tunnel`, time and
timers are fair, a handshake succeeds or fails (`handshakeTimeout`), and a socket
that is closing gets its close event, which `ws` guarantees by destroying it; the
peer owes nothing. In `supervisor`, time, timers and the health interval are
fair, an answer comes (the check times out after 5 s), and the exit event of a
dead process is delivered; processes owe nothing, not even to end on SIGTERM. In
`agent_loop` the discovery timer goes on, the tunnel reconnects (which
`TriesAgain` shows) and every source answers (`devicectl` and adb have time
limits). In `clients` time, the idle sweep, the server and the keepalive timer are
fair, and an answer or a time limit comes; users owe nothing. In `runner` the
threads and timers are fair; an action need not end. `android` and `mirror` check
safety only, where a wait for nothing is a state (`OneDriver`, `StreamIsDriven`),
so no fairness is needed to refute it. `Tick` may not pass a due timer in any
module: timers are late by less than a tick.

**What the properties say**

- `ImplementsOccupancy`, `NoEarlyEnd`, `OccupationsAreReclaimed`: the registry, in
  any order of operations, grants each generation once and ends it for cause; no
  occupation without activity, or without heartbeat, lasts.
- `OnlyForOccupant`: no result and no frame to a past occupant, whichever path
  ended the occupation. `EveryCommandIsAnswered`: even when nobody can be reached.
- `PendingNeverIdle`: a running command protects its occupation from the sweep,
  the reason for renewing before sending.
- `OfflineOnlyWhenGone`: replaced sockets have no effect, late or otherwise.
- `NoticeCovers`: on a working tunnel a generation the executor takes for
  current is current, or its end notice is on the wire. That flight time is the
  whole window for ghost input of a past occupant on a working tunnel. On a
  tunnel only the server knows to be dead, nothing can be promised until the
  agent's ping notices.
- `HandoverOrder`, `RevokedStaysRevoked`: after the new occupant's first command
  is accepted, or the notice taken, nothing older starts.
- `LatestIsRight`: the last snapshot sent to an agent on a working tunnel is
  right about each device the agent owns, although nothing is sent when a device
  changes hands, and intermediate ones are wrong. `GateFollowsDemand`: the gate
  then agrees with it, in both directions, as long as the tunnel works and the
  agent stays the owner.
- `OneConnection`, `NoFastLoop`, `SilenceIsNoticed`, `TriesAgain`: at most one
  socket or scheduled attempt; the pause before a connection grows with the closes
  in a row of connections that did not last 30 s, and is the longest one after a
  terminal close code (`streak` recomputes this independently of
  `reconnectAttempt`); a stale ping or pong timer keeps no connection from
  noticing silence; no close code ends the retries.
- `RoutesToOwnDevice` (iOS): whatever listens on a session's port is its own
  forwarder. This rests on the cooldown being longer than the escalation, the
  assumption of the module. `NothingLeaks`, `NoOrphans`: a process that no session
  holds has been signalled, also when the second spawn of a launch throws, and
  none outlives the agent but those of the sessions that a discovery began after the
  shutdown (`late`, finding 4). `ReadyIsSupervised`, `RestartsHaveCause`,
  `NeverStuck`: late answers and exits change nothing, and nothing leaves a session
  without a next step.
- `OneDriver` (Android): a session in the map has exactly one of a launch under
  way, a restart timer, and health polls of a child it holds; two would start the
  runner twice, none is stuck for good. `ForwardsAccounted`: a forward that no
  session wants is on its way out. `CleanExit`: what goes on
  when the agent is gone, a child or, unless adb failed or the grace ran out, a
  runner that serves or is still to come up, belongs to a late session, or its
  force-stop came before it was up (finding 4). Everything else is waited for, also
  the force-stop of a session stopped before the shutdown.
- `NoChildLeaks`, `StreamIsDriven`, `FramesInOwnSize`, `AwaitedAreGone`: no stop,
  failure or late adb answer leaves a daemon or helper that nobody ends; a wanted
  stream waits for something that will come; what an old helper left in its pipe
  is not shown in the size of the next; the shutdown kills what ignores SIGTERM.
- `DroppedForCause`, `PictureConverges`: only a device's own source, by not
  listing it or by failing too often in a row, takes it away; once the
  surroundings are at rest the server knows what is plugged in and what is ready,
  whatever was skipped or lost before.
- `KeptAlive`, `AbandonedIsFreed`, `StaleSessionEnds`, `CliForgetsForCause`: see the
  comments in `Clients`. `KeptAlive` fails when an effect restarts on every
  render, the accident the comment at `App.tsx:116` warns of.
- `NoGhostInput`, `FailsOnlyWhenBlocked`, `HungIsRestarted`: on Android an action
  begins only while its sender waits; a poll fails on iOS only, behind an action
  as long as the poll's own limit; and such a hang ends in a restart.

Each property also has a *mutant*: an operator, marked so in the modules, that
changes the modelled code the way a plausible mistake would, and under which the
property fails. `TypeOK` of each module and some invariants that the theorems
cover (`OneDevicePerGeneration`, `SocketsConsistent`, `AnsweredOnce`,
`OnlineIsConnected`, `TimersFollowConnection`) are stated but belong to no run.

## 4. Findings

1. **The clean-up of a stale launch removes the forward of another session**
   (`android_ports`). `stopSession` returns the port to the pool 5 s later
   (`android-supervisor.ts:339`), whether or not a launch is still waiting for
   `install`, which may take 60 s. When it returns, line 174 removes the forward of
   the port, which the next session may have made. Its runner stays unreachable
   until the health polls give it up and the relaunch forwards again. The comments
   at lines 172 and 338 say the removal and the cooldown are there to keep a
   reused port clean.

Other disagreements of code and comments, shown by properties that hold in no
run, or under constants that no run uses:

2. *A command queued before a disconnection can run after the reconnection*
   (`CommandPath!OnlyCommandsOfThisTunnel`, with 3 requests).
   `revokeAllOccupations` clears the generations, not the queue. The next command
   of the same occupation restores the generation (`command-executor.ts:52`), and
   the old command, already answered `agent_disconnected`, passes the check if its
   turn comes within 15 s. `main.ts:148` says only new commands are valid.
3. *`agentId` is not null for a device the heartbeat sweep took offline*
   (`sqlite-devices.repository.ts:230`), against `device.types.ts:17`. A late
   heartbeat of that agent brings the row back online, and end notices still reach
   it; both rely on the column being kept, so the comment is what is wrong.
4. *The exit of the agent leaves orphans in two cases* (`NothingSurvives`, of
   `ControllerSupervisor` and of `AndroidSupervisor`). First, `shutdown` stops all
   sessions, but `discoverAndRegister` does not look again after
   `discovery.refresh()`: it calls `syncDevices` on both emptied supervisors
   (`main.ts:169` and `170`), which start `xcodebuild`, `iproxy` and `am instrument`
   again, detached and unknown to `awaitTermination`. `main.ts:218` says the wait is
   there to prevent orphans. `AgentLoop!Finish` has the same step. Second, on Android,
   the force-stop of a session that stops (`android-supervisor.ts:333`) finds nothing to
   end while the instrumentation spawned just before is not up yet; the runner that
   comes up then may serve until the next agent's launch, although
   `awaitTermination` waited for that force-stop. The comment at line 330 says the
   clean-up is tracked for the runner's sake.
5. *Two occupations from one tab* (`Clients!OneSessionAtATime`). A second click on
   the card of another device while the first `occupy` is under way overwrites the
   session with the later answer, and the earlier occupant id is lost
   (`App.tsx:103`). `DeviceCard.tsx:6` says a card is disabled for this reason. The
   idle sweep frees the device after its TTL, because nobody renews it.
6. *A late answer to a second `release` drops the next session* (`App.tsx:137`): two
   clicks, the first succeeds, the user occupies again, and the 403 or 409 of the
   second clears the new session, which the server honours, against the comment at
   `App.tsx:132`.
7. *The CLI's clean-up ignores `NEBULA_OCCUPANT_ID`* (`cli.ts:47`): with `EnvSet` for
   `EnvIds`, `CliForgetsForCause` fails. A refused command whose occupant id came
   from the environment clears a valid stored session; the comment at lines 33 to
   36 speaks of flags only.
8. *iOS has ghost input of its own*: `DeviceRunner!NoGhostInput` without
   `platform = "android"` fails. A request that was read before its connection was
   aborted is performed when the main thread is free again.
9. *A stream that was stopped shortly before the shutdown is not awaited*
   (`StreamManager!NoOrphans`). `stop` takes it out of the map (`stream-manager.ts:33`),
   `stopAll` waits only for what is in the map, and the SIGKILL of a helper or
   daemon that ignores SIGTERM is an unref'd timer that `process.exit` drops.
   `main.ts:219` says helpers must be waited for, for this very reason.
   `AwaitedAreGone` is the half that holds.

Limits of the code met while modelling, no comment says otherwise: on Android a
UiAutomation call that never returns makes every later action a 503 while
`/health` goes on saying ok, and no supervisor restarts the runner;
`ActionTimeout < ClientTimeout` holds for the default of
`NEBULA_ANDROID_ACTION_TIMEOUT_MS` only; a helper that ignores the SIGTERM of
`h264-stream.ts:142` or `:210` is never killed before its stream stops; a forward
that returns after the stream's stop stays in the adb server
(`android-stream.ts:152`), to be replaced by the next stream of that device; of two
commands of the CLI that share the session file at one time, the refused one may
clear a valid session that the other has just stored, since
`cleanupInvalidSession` loads the store after the answer (`cli.ts:45`), while
`CliSession` has one command at a time. The comment at `device-discovery.ts:54` counts
`disconnected` among the states of a phone that is not usable, line 62 only
`unavailable`; the model's lists are the phones the code calls usable.

## 5. Proofs

Checked by TLAPS for every value of the constants, from the modules' named
assumptions only. These say that numbers are natural and sentinels are not
members; that the command timeout is below the occupation TTL; that the
iOS supervisor kills before a port has cooled down (3 s and 5 s); and for the
phone that the queue's time limit is below the agent's, as in the code by default,
and the poll's at most half of it (5 s and 10 s). `DelaysGrow`, in the four modules with a
backoff, says that doubling never shrinks a delay: arithmetic whose proof is an
induction on the exponent, evaluated by TLC for the constants of each run. Three
hypotheses are not assumptions of a module. Three theorems about `CommandPath`
say `OneHostPerDevice`: a phone is on the cable of one host. `SessionKeptAlive` says
`MaxLosses < Ttl`: who loses as many requests as the TTL has keepalive intervals
(20, with 600 s and 30 s) may lose the device. `CliKeepsValidSession` says
`EnvIds = {Nobody}`: with `NEBULA_OCCUPANT_ID` set it is false (finding 7).

Each inductive invariant was checked by TLC before it was proved, on the bounds of
its run unless others are named; the counts below are those checks.

`DeviceRegistryProofs`:

- `RegistryInvariant`: the inductive invariant `RegistryInv`, of `TypeOK` (which
  is inductive alone), `OneDevicePerGeneration` (which needs the types) and
  `OnlineHasAgent`. `OccupantSteps` reduces the operations to the three things
  that happen to the occupant column: issue, free, nothing.
- `TypeCorrect`, `GenerationsExclusive`, `OnlineOwned`: its parts.
- `NeverEndedEarly`: `NoEarlyEnd` from the invariant, action by action.
- `RefinesOccupancy`: every step maps to a grant, an end, or a stutter of
  `Occupancy`. It assumes that "unissued" and "ended" are not device ids.
- `RefinesApi`: every step of the registry is, for who holds what since when, a step
  of `FarmApi` or invisible (`ApiSteps`, operation by operation). Registrations,
  heartbeats and lost tunnels are invisible; a heartbeat sweep is `Reclaim`. TLC
  checked `ImplementsApi` once on the bounds of `registry` (13 317 states).

The second half is about `Clients`: one tab, one command line and one server.

- `ClientsInvariant`: the inductive invariant `ClientsInv`. Besides the types, it
  says how old the session a tab keeps alive may be: as many intervals as requests
  were lost, and one more only while the next keepalive is due or on its way
  (`AgeBounded`). That needs to know that a session begins new although its `occupy`
  may have been answered late, because no tick passes a request under way
  (`GrantsFresh`); and that the command line knows only ids the server has granted
  (`IdsGranted`). The proof has one side for the server, which between two ticks
  only makes occupations new, used, or over (`ApiCalm`: `ServeCalm`, `EndCalm`), and
  one for the tab, of which every step and every answer ends the session's claim,
  leaves what renews it in place, or begins a new one (`WebEffect`, `AnswerEffect`).
- `SessionKeptAlive`: `KeptAlive` for any devices, any number of requests under way,
  any TTL and idle limit.
- `CliKeepsValidSession`: `CliForgetsForCause`, from `CommandSound`: a command that
  says it is aimed at the stored session is about its device and its id, and an
  answer that ends the session was given after the session was over on the server,
  which it then stays, since ids are granted once (`OverForGood`).
- `ClientsUseApi`: whatever the clients send, and whenever they give up, every step
  of the server they share is one `ApiSpec` allows. That needs every request but
  `occupy` to name an occupation (`AllNamed`): a tab sends only ids it was given, the
  command line one it was given or configured with. With `RefinesApi`, what is
  proved of the clients is about the registry.

`FarmServerProofs`:

- `ServerInvariant`: the inductive invariant `ServerInv`. It adds `PendingRecent`
  to the invariants of the run: a device was used at least as recently as its
  waiting commands were sent. `PendingNeverIdle` follows from it with
  `CommandTimeout < OccupationTtl`, and is not inductive itself, since it says
  nothing of an age just below the TTL. Two lemmas carry the proof, one for each
  side of the tables: `CommandSteps` (a step fails commands, sends one, refuses
  one, or lets all age) and `OccupationSteps` (a step begins an occupation, ends
  some with all that lives under them, or keeps all).
- `TypeCorrect`, `OccupantOnly`, `WaitersMatched`, `SocketsAgree`,
  `CommandsKeepOccupation`: its parts and consequences.
- `OnlineMeansConnected`: with the strengthening that an online row has an owner.
  It holds until the first restart: afterwards rows say online until the agent
  returns or the heartbeat sweep comes.
- `NoSecondAnswer`, `NoSpuriousOffline`: the two action properties.
- `RefinesRegistry`: every step of the server is an operation of the registry or
  leaves the table alone, so `Spec => Registry!Spec`. The run `server`
  checks the fair version, `ImplementsRegistry`.

`CommandPathProofs`. The 30 or so steps of server, tunnel and executor do one of
eight things to what the invariants read: they close sockets or nothing, claim
devices, grant an occupation, end some, send a command, connect, cut a tunnel, or
take a message from the wire. `StepEffect` proves that; each part of an
invariant is then carried over the effects by one lemma (`FieldsKept`,
`TunnelsKept`, ... `InOrderKept`).

- `PathInvariant`: the inductive invariant `PathInv`. Besides the types: only a
  socket that one agent reads holds messages (`Tunnels`); a generation belongs to
  one device, wherever it is met (`OneDeviceEach`); an end notice is the last word
  on its generation (`NoticeIsLast`); what an agent took the notice of is over,
  and no command on its way revives it (`RevokedIsOver`).
- `RevokedForGood`: `RevokedStaysRevoked`, which is not inductive: it needs that
  nothing behind the notice, and nothing later on the same socket, names the
  generation again, and that a new socket starts empty.
- `HostInvariant`, under `OneHostPerDevice`: only a device's host hears of it
  (`HostKnown`); whatever the executor takes for current *or will read* is the
  occupation or has its notice behind it (`Covering`); commands travel in the
  order of their generations (`InOrder`).
- `NoticesCoverHandover` (`NoticeCovers`) and `NoGhostAfterHandover`
  (`HandoverOrder`) follow. The hypothesis is needed: when two
  agents may report one device, TLC shows the second claim it, and the notice of
  the first agent's occupation go to the second (`NoticeCovers` fails).
- `RefinesServer`: `Spec => Server!Spec`, so all that `FarmServerProofs` says of
  the server holds of it in the middle of the path.

  TLC: `PathInv` and `HostInv` on the run's bounds (331 521 states) and with one
  agent and two devices (106 500); `PathInv` with two agents that share a device
  (787 845).

`StreamDemandProofs`:

- `DemandInvariant`: the inductive invariant `DemandInv`. `LatestIsRight` is not
  inductive: a close or a connection seen by one side only could leave snapshots
  where the other looks for them. `Tunnels` says that it cannot: a socket has one
  reader, which the server knows as its agent or not at all, a socket without a
  reader holds nothing, an agent without a tunnel has an open gate. Most steps leave
  owners and viewers alone or only take tunnels away (`QuietKeeps`). The exception is
  `Announce`: whatever the order in which the viewers of several devices change, the
  last list of an agent is that after all of its devices have changed
  (`OrderLists`, `AnnounceUpdates`, `LastSent`).
- `LatestSnapshotIsRight`: `LatestIsRight`, for any agents and sockets and any finite
  set of devices.
- `RefinesServer`: `Spec => Server!Spec`, as for `CommandPath`.

  TLC: `DemandInv` on the run's bounds, and with two devices.

`AgentProofs`, about the tunnel (`ServerTunnel`), the main loop (`AgentLoop`) and the
phone (`DeviceRunner`); definitions of the last two are called `Loop...` and
`Runner...` where the tunnel has the plain name:

- `TunnelInvariant`: the inductive invariant `TunnelInv`. `OneConnection` and
  `TimersFollowConnection` are not inductive: a close event needs to know that
  `clearTimer` reaches every timer there is. `StepOfLife` says so (a scheduled
  attempt is the only timer), and `NoneKept` draws the conclusion. `Counting`
  ties `reconnectAttempt`, the stable-reset timer and the reconnect timer to the
  history: the counter is at least the streak until the connection is stable,
  and what is left of a timer plus the time since the close is at least the
  pause. One lemma per action. `TunnelAssumption` says that the counter
  saturates where the delay does.
- `TypeCorrect`, `NeverTwoConnections`, `NoStrayTimer`, `NothingAfterClose`,
  `BackoffIsServed`: its consequences. The counter may exceed the streak, when a
  connection breaks between becoming stable and the timer's callback, so
  `BackoffIsServed` needs `BackoffMonotonic`.
- `LoopInvariant`: `LoopInv` adds to the types that a list names devices of its
  own source only (`OwnDevices`), and that what is supervised is what the lists
  name until the shutdown (`SupervisedIsFound`). Without the first, a device could
  vanish with the list of the other source; without the second, for no list at all.
- `LoopTypeCorrect`, and `DropsHaveCause`: `DroppedForCause`, for any devices and any
  limit of failures.
- `RunnerInvariant`: the inductive invariant `RunnerInv`, one half per platform. On
  Android the backlog is the command the agent waits for, or empty
  (`OneCommandWaits`), because the queue's time limit comes before the agent's and
  cancels what has not begun; and no poll is ever a tick old. On iOS every request
  has one place (`Queued`), behind a poll there is at most the command sent after
  it (`BehindPoll`), and until an action has lasted as long as a poll waits,
  nothing is performed or waits but what the agent waits for (`Calm`). What a
  runner removes from the middle of its backlog are lemmas about `Without`.
- `RunnerTypeCorrect`, `NoGhostOnAndroid` (`NoGhostInput`) and
  `OnlyBlockedRunnersFail` (`FailsOnlyWhenBlocked`, both platforms).

`ControllerSupervisorProofs`:

- `SupervisorInvariant`: the inductive invariant `SupervisorInv`. A session holds
  both processes and is polled, or neither and is not (`HeldOrNot`). A live
  process that was not told to end is held by its session (`Vouched`). One whose
  session is gone is killed before the cooldown of its port is over
  (`DoomedBeforePort`), which is where `KillEscalation < PortCooldown` enters. A
  port has one session, one place in the pool, or one timer (`OneUseOfPort`).
- `ReadySessionsAreSupervised`, `NoProcessLeaks`, `PortsRouteToOwnDevice`:
  consequences. None is inductive; the last needs all parts.
- `ExitLeavesNoOrphans`: `NoOrphans`, by a second invariant (`ShutdownInv`): from the
  shutdown on only late sessions are in the map, and once the agent has waited only
  their processes run, since nothing but a launch brings one to life
  (`OnlyLaunchesGiveLife`) and only sessions in the map launch (`LaunchesAreActive`).
- `EveryRestartHasItsCause`: `RestartsHaveCause`, action by action.

  TLC: `SupervisorInv` and `ShutdownInv` on the run's bounds (457 270 states) and with
  two devices (2 153 944).

`AndroidSupervisorProofs`:

- `AndroidInvariant`: the inductive invariant `AndroidInv`. What drives a session,
  without counting (`Driven`); a child or a health check of the present generation
  belongs to a session that is polled (`OfGeneration`), and a child that was not
  told to end matters (`Vouched`); every forward and every serving runner has a
  session in the map or a call on its way that removes it, until adb has failed
  (`ForwardsOwned`; `RunnersOwned`, which counts the runners on their way up and
  excuses those that come after their force-stop); from the shutdown on, what is in
  the map is late, and what is not late is being waited for (`Ending`). A step changes one session and the calls that serve it, or it is a
  restart, or the clock: `EditKeeps`, `RestartKeeps`, `TickKeeps`.
- `SessionsHaveOneDriver` (`OneDriver`: exactly one of the three, from `Driven` by
  counting), `ReadySessionsAreSupervised`, `NoForwardIsForgotten`
  (`ForwardsAccounted`), `ExitIsClean` (`CleanExit`).

  TLC: `AndroidInv` without the run's view, with one restart and no failure of adb
  (10 951 656 states), and with one failure and no restart (3 609 829).

`StreamManagerProofs`, about the streams of either platform and their manager:

- `StreamsInvariant`: the inductive invariant `StreamsInv`. An active iOS stream
  has a child, whose end starts the restart timer (`MirrorInv`); every other
  helper of it is gone *with all its output* (`HelperInv`): a restart waits at least
  a tick (`DelaysGrow`), by which the pipe of the old helper has closed. A stream
  of Android without a session has its restart timer, one with a session waits for
  adb, for the preamble with a deadline, or reads an open socket (`StreamInv`); a
  daemon serves the present session or will be killed (`SessionInv`). Only the
  stream in the map is active (`ManagerInv`).
- `TypeCorrect`, `NoChildIsForgotten` (`NoChildLeaks`), `NoStreamIsStuck`
  (`StreamIsDriven`), `FramesKeepTheirSize` (`FramesInOwnSize`), `ExitWaitsForChildren`
  (`AwaitedAreGone`).

  TLC: `StreamsInv`, 1 704 800 states.

**Only model-checked.** Liveness, `ENABLED`, and the fair half of the refinements
are outside this prover's reach (`OccupationsAreReclaimed`, `EveryCommandIsAnswered`,
`GateFollowsDemand`, `SilenceIsNoticed`, `TriesAgain`, `NeverStuck`,
`PictureConverges`, `AbandonedIsFreed`, `StaleSessionEnds`, `HungIsRestarted`, and the
fairness of `ImplementsRegistry`); so is `DelaysGrow`, an induction over data. Every
safety property of a passing run is a theorem. The theorems hold for every value of the
bounds on histories (`MaxGenerations`, `MaxLaunches` and the like), as of the other
constants.


## 6. Not modelled

Authentication, the rate limiter and input validation: checks of one message
without state the rest reads, but for one failure counter per address.
Configuration: its values are the constants. Names, tags and the occupy filter
(which free device is chosen is nondeterministic); wording. The bytes of a frame,
of a packet and of `devicectl`'s or adb's output: a packet is a resolution, whole,
or damaged, a list is the set of usable devices. What is dropped on a full uplink
or for a slow viewer: whether a picture results depends on the decoder. Drawing
and pointer coordinates of the web console, and the one screenshot it asks for when
a screen is opened (`ScreenView.tsx:225`), which renews an occupation once; arguments and output of the CLI. The
capture daemon and helper on either platform, XCTest and UiAutomation: they are
processes that answer, hang or end. Generated code (`api-schema.ts`), build files
and scripts. Two agents with one id both alive beyond the replacement of their
sockets; the clock going backwards. A sweep that never comes because the server
restarts more often than its interval is excluded by the fairness, as is a bound
on `Crash`. Of the iOS supervisor a resolution of a port that another device was
given while a command waited in the executor's queue: it takes a command that is
still under way when the cooldown is over, although its forwarder was killed
before.

## 7. Plan

Done: registry, server, tunnel, command path, demand snapshots, both supervisors,
streams, main loop, phone and clients modelled and checked, and every safety
property of their runs proved. What would extend the project, in order:

1. The command path composed with a supervisor, for the one hazard that needs both:
   a queued command whose port went to another device (first by proof, since its
   product is beyond TLC).
2. The frames dropped on a full uplink and for slow viewers.
3. Rate limiter, frame codec and packet parser as operators against reference
   definitions.
