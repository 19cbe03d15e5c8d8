--------------------------- MODULE AndroidSupervisor ---------------------------
(***************************************************************************)
(* The supervisor of the Android runners in an agent: for every discovered *)
(* device a session that installs the runner, forwards a local port to it  *)
(* with adb, starts it with `am instrument`, polls its health and restarts *)
(* it with backoff.  The port returns to a pool after the session.         *)
(*                                                                         *)
(* Every adb command is a call of its own that returns later, perhaps with *)
(* an error, with or without having taken effect.  A launch that is still  *)
(* waiting for one goes on when its session has long been stopped.         *)
(***************************************************************************)
EXTENDS Integers, Sequences, FiniteSets

CONSTANTS
  Devices, NoDevice,
  RestartBase, RestartMax, KillEscalation, PortCooldown, ReadyDeadline,   \* ticks
  AdbTimeout, Grace,              \* ticks: of one adb call, of awaitTermination
  HealthFailThreshold, ReinstallAfterFailures, MaxAttempt,
  MaxSessions, MaxRestarts, MaxFailures   \* bounds: sessions, restarts of all, failures

ASSUME AndroidSupervisorAssumption ==
  /\ NoDevice \notin Devices
  /\ {RestartBase, RestartMax, KillEscalation, PortCooldown, ReadyDeadline, AdbTimeout,
      Grace, HealthFailThreshold, MaxSessions} \subseteq Nat \ {0}
  /\ {MaxAttempt, MaxRestarts, MaxFailures, ReinstallAfterFailures} \subseteq Nat
  /\ ReinstallAfterFailures <= MaxAttempt /\ RestartBase * 2^MaxAttempt >= RestartMax

(* Doubling never shrinks a delay: true for every base, and stated because no
   prover at hand does the induction on the exponent. *)
ASSUME DelaysGrow == \A i \in 0..MaxAttempt : RestartBase <= RestartBase * 2^i

Sessions == 1..MaxSessions
Off == -1
LaunchOps == {"prepare", "forward", "clear"}
CleanupOps == {"forceStop", "remove", "undo"}

VARIABLES
  session,       \* the Session objects, also those no longer in the map
  procs,         \* `am instrument` children whose exit the agent does not know of
  calls,         \* adb calls that have not returned
  polls,         \* health checks waiting for an answer
  nextPort, freePorts,
  cooling,       \* ports that return to freePorts: port, ticks left
  forwards,      \* of the adb server: the device a local port leads to
  runner,        \* the devices on which a runner serves
  starting,      \* instrumentations that were ordered and are not up yet
  shutdown,      \* "no", "terminating", "cleaning" (awaitTermination), "exited"
  deadline,      \* of awaitTermination, ticks left
  awaited,       \* the cleanups that awaitTermination took from the list
  outran,        \* history: the devices whose last force-stop met such an instrumentation
  failures,      \* history: how many adb calls or spawns failed
  late           \* history: the sessions that began after the shutdown had

vars == <<session, procs, calls, polls, nextPort, freePorts, cooling, forwards, runner,
          starting, shutdown, deadline, awaited, outran, failures, late>>
pool == <<nextPort, freePorts, cooling>>
world == <<forwards, runner, outran>>
ending == <<shutdown, deadline>>
past == <<failures, late>>

SessionType ==
  [device : Devices \union {NoDevice}, port : Nat, instrument : BOOLEAN, isReady : BOOLEAN,
   isInstalled : BOOLEAN, healthFailCount : 0..HealthFailThreshold,
   restartAttempt : 0..MaxAttempt, polling : BOOLEAN,
   restartTimer : {Off} \union 0..RestartMax, isStopping : BOOLEAN,
   generation : 0..(MaxRestarts + 1), age : 0..ReadyDeadline]

CallType ==
  [op : LaunchOps \union CleanupOps, session : Sessions, left : {Off} \union 0..AdbTimeout]

TypeOK ==
  /\ session \in [Sessions -> SessionType]
  /\ \A p \in procs : /\ p.session \in Sessions /\ p.generation \in 0..MaxRestarts
                      /\ p.alive \in BOOLEAN /\ p.escalation \in {Off} \union 0..KillEscalation
  /\ calls \subseteq CallType /\ awaited \subseteq CallType
  /\ polls \subseteq [session : Sessions, generation : 0..MaxRestarts]
  /\ nextPort \in 1..(MaxSessions + 1) /\ freePorts \in Seq(1..MaxSessions)
  /\ cooling \subseteq [port : 1..MaxSessions, left : 0..PortCooldown]
  /\ forwards \in [1..MaxSessions -> Devices \union {NoDevice}]
  /\ runner \subseteq Devices /\ outran \subseteq Devices
  /\ starting \subseteq [session : Sessions, generation : 0..MaxRestarts]
  /\ shutdown \in {"no", "terminating", "cleaning", "exited"}
  /\ deadline \in 0..Grace /\ failures \in 0..MaxFailures /\ late \subseteq Sessions

NoSession ==
  [device |-> NoDevice, port |-> 0, instrument |-> FALSE, isReady |-> FALSE,
   isInstalled |-> FALSE, healthFailCount |-> 0, restartAttempt |-> 0, polling |-> FALSE,
   restartTimer |-> Off, isStopping |-> FALSE, generation |-> 0, age |-> 0]

Init ==
  /\ session = [s \in Sessions |-> NoSession]
  /\ procs = {} /\ calls = {} /\ polls = {}
  /\ nextPort = 1 /\ freePorts = <<>> /\ cooling = {}
  /\ forwards = [port \in 1..MaxSessions |-> NoDevice] /\ runner = {} /\ starting = {}
  /\ shutdown = "no" /\ deadline = Grace /\ awaited = {}
  /\ outran = {} /\ failures = 0 /\ late = {}

-------------------------------------------------------------------------------
(* The sessions in the map. *)
Active(s) == session[s].device # NoDevice /\ ~session[s].isStopping
Supervised == {session[s].device : s \in {t \in Sessions : Active(t)}}

Running == shutdown # "exited"
Saturated(n, bound) == IF n < bound THEN n ELSE bound

Delay(attempt) == Saturated(RestartBase * 2^attempt, RestartMax)

Call(op, s) == [op |-> op, session |-> s, left |-> IF op = "prepare" THEN Off ELSE AdbTimeout]

(* The child that session s holds. *)
Instrument(s) ==
  {p \in procs : p.session = s /\ session[s].instrument /\ p.generation = session[s].generation}

(* signalProcessTree(SIGTERM) and the timer that escalates to SIGKILL. *)
Signalled(ps) == {[p EXCEPT !.escalation = KillEscalation] : p \in ps}

(* Mutant: the health timer of the old generation goes on. *)
TornDownButPolled(r) == [r EXCEPT !.instrument = FALSE]

TornDown(r) == [r EXCEPT !.polling = FALSE, !.instrument = FALSE]

(* teardownProcesses, of the sessions S; known are the children not known to
   have exited. *)
Terminated(S, known) ==
  LET held == UNION {Instrument(s) : s \in S}
  IN  (known \ held) \union Signalled(held \intersect known)

MayRestart(r) == ~r.isStopping /\ r.restartTimer = Off

(* scheduleRestart *)
Restarting(r) ==
  [TornDown(r) EXCEPT !.generation = @ + 1, !.isReady = FALSE, !.healthFailCount = 0,
                      !.restartTimer = Delay(r.restartAttempt),
                      !.restartAttempt = Saturated(@ + 1, MaxAttempt)]
ScheduleRestart(s, r, known) ==
  IF MayRestart(r)
  THEN session' = [session EXCEPT ![s] = Restarting(r)] /\ procs' = Terminated({s}, known)
  ELSE session' = [session EXCEPT ![s] = r] /\ procs' = known

Restarts[n \in 0..MaxSessions] ==
  IF n = 0 THEN 0 ELSE Restarts[n - 1] + session[n].generation
MayLaunch == Restarts[MaxSessions] <= MaxRestarts

(* allocatePort *)
Allocate(port) ==
  IF freePorts # <<>>
  THEN port = Head(freePorts) /\ freePorts' = Tail(freePorts) /\ UNCHANGED nextPort
  ELSE port = nextPort /\ nextPort' = nextPort + 1 /\ UNCHANGED freePorts

(* launch, up to its first await: prepareDevice begins. *)
Launched(r) == [r EXCEPT !.age = 0, !.restartTimer = Off]

(* syncDevices for a device that appeared: startSession.  A discovery that was under
   way at the shutdown comes here as well: main.ts does not look again. *)
StartSession(d) ==
  /\ Running
  /\ d \notin Supervised
  /\ \E s \in Sessions, port \in 1..MaxSessions :
       /\ session[s].device = NoDevice
       /\ \A t \in 1..(s - 1) : session[t].device # NoDevice
       /\ Allocate(port)
       /\ session' = [session EXCEPT ![s] = Launched([NoSession EXCEPT !.device = d, !.port = port])]
       /\ calls' = calls \union {Call("prepare", s)}
       /\ late' = IF shutdown = "no" THEN late ELSE late \union {s}
  /\ UNCHANGED <<procs, polls, cooling, world, starting, ending, awaited, failures>>

CleanupOf(s) == {Call("forceStop", s), Call("remove", s)}

(* stopSession, for one session or, in stopAll, for all.  Of the object no field
   but these is read again. *)
Stop(S) ==
  /\ session' = [s \in Sessions |->
       IF s \in S THEN [NoSession EXCEPT !.device = session[s].device, !.port = session[s].port,
                                         !.generation = session[s].generation, !.isStopping = TRUE]
       ELSE session[s]]
  /\ procs' = Terminated(S, procs)
  /\ calls' = calls \union UNION {CleanupOf(s) : s \in S}
  /\ cooling' = cooling \union {[port |-> session[s].port, left |-> PortCooldown] : s \in S}

(* syncDevices for a device that is gone.  Only one discovery can return after the
   shutdown, and it stops none of the sessions it has just started. *)
StopSession(d) ==
  /\ Running
  /\ \E s \in Sessions \ late : Active(s) /\ session[s].device = d /\ Stop({s})
  /\ UNCHANGED <<polls, nextPort, freePorts, world, starting, ending, awaited, past>>

PortReturns ==
  /\ Running
  /\ \E c \in cooling :
       /\ c.left = 0
       /\ freePorts' = Append(freePorts, c.port)
       /\ cooling' = cooling \ {c}
  /\ UNCHANGED <<session, procs, calls, polls, nextPort, world, starting, ending, awaited, past>>

RestartFires(s) ==
  /\ Running
  /\ session[s].restartTimer = 0 /\ MayLaunch
  /\ session' = [session EXCEPT ![s] = Launched(@)]
  /\ calls' = calls \union {Call("prepare", s)}
  /\ UNCHANGED <<procs, polls, pool, world, starting, ending, awaited, past>>

-------------------------------------------------------------------------------
(* `am instrument` was ordered for device d, and has not brought its runner up. *)
Ordered(d) == \E i \in starting : session[i.session].device = d

(* What an adb command does to the adb server and to the device.  A force-stop ends
   the runner that is up, and not one that comes up later. *)
Takes(c) ==
  LET r == session[c.session]
      stops == c.op \in {"clear", "forceStop"}
  IN  /\ forwards' = CASE c.op = "forward" -> [forwards EXCEPT ![r.port] = r.device]
                       [] c.op \in {"remove", "undo"} -> [forwards EXCEPT ![r.port] = NoDevice]
                       [] OTHER -> forwards
      /\ runner' = IF stops THEN runner \ {r.device} ELSE runner
      /\ outran' = CASE stops /\ Ordered(r.device) -> outran \union {r.device}
                     [] stops /\ ~Ordered(r.device) -> outran \ {r.device}
                     [] OTHER -> outran

MayFail == failures < MaxFailures /\ failures' = failures + 1 /\ UNCHANGED late

NoEffect == UNCHANGED world

(* A cleanup that returned: the outcome is not looked at. *)
CleanupReturns(c, ok) ==
  /\ Running /\ c \in calls /\ c.op \in CleanupOps
  /\ Takes(c) \/ (~ok /\ NoEffect)
  /\ calls' = calls \ {c}
  /\ awaited' = awaited \ {c}
  /\ IF ok THEN UNCHANGED past ELSE MayFail
  /\ UNCHANGED <<session, procs, polls, pool, starting, ending>>

(* An adb call of a launch returned: what prepareDevice or launch does next, with
   the effect the call had. *)
LaunchGoesOn(c, next) ==
  /\ Running /\ c \in calls
  /\ Takes(c)
  /\ calls' = (calls \ {c}) \union next
  /\ UNCHANGED <<polls, pool, ending, awaited, past>>

(* stayon and install are done; an install that took long finds a session that was
   stopped meanwhile, and no forward is made. *)
Prepared(s) ==
  /\ ~session[s].isStopping
  /\ LaunchGoesOn(Call("prepare", s), {Call("forward", s)})
  /\ session' = [session EXCEPT ![s].isInstalled = TRUE]
  /\ UNCHANGED <<procs, starting>>

Stale(c) == session[c.session].isStopping

(* forward returned: force-stop a runner left over. *)
Forwarded(c) ==
  /\ c.op = "forward"
  /\ LaunchGoesOn(c, {Call("clear", c.session)})
  /\ UNCHANGED <<session, procs, starting>>

(* Mutant: the launch of a stopped session just ends. *)
NothingToUndo(c) == {}

UndoOf(c) == {Call("undo", c.session)}

(* prepareDevice is done, but the session was stopped: removeForward. *)
LaunchIsStale(c) ==
  /\ c.op \in {"prepare", "clear"} /\ Stale(c)
  /\ LaunchGoesOn(c, UndoOf(c))
  /\ UNCHANGED <<session, procs, starting>>

(* prepareDevice is done: spawnInstrument and startHealthPolling. *)
Spawns(c) ==
  /\ c.op = "clear" /\ ~Stale(c)
  /\ LaunchGoesOn(c, {})
  /\ LET s == c.session
         g == session[s].generation
     IN  /\ session' = [session EXCEPT ![s].instrument = TRUE, ![s].polling = TRUE]
         /\ procs' = procs \union {[session |-> s, generation |-> g, alive |-> TRUE,
                                    escalation |-> Off]}
         /\ starting' = starting \union {[session |-> s, generation |-> g]}

(* What a child ordered happens on the device some time later, also when the child has
   ended meanwhile. *)
RunnerComesUp(i) ==
  /\ Running /\ i \in starting
  /\ starting' = starting \ {i}
  /\ runner' = runner \union {session[i.session].device}
  /\ UNCHANGED <<session, procs, calls, polls, pool, forwards, ending, awaited, outran, past>>

NeedsInstall(r) == ~r.isInstalled \/ r.restartAttempt >= ReinstallAfterFailures

(* An adb call of a launch failed (of prepare, only the install is looked at), or
   the spawn threw: the catch of launch. *)
LaunchFails(c) ==
  /\ Running /\ c \in calls /\ c.op \in LaunchOps
  /\ c.op = "prepare" => NeedsInstall(session[c.session])
  /\ Takes(c) \/ NoEffect
  /\ calls' = calls \ {c}
  /\ MayFail
  /\ IF Stale(c) THEN UNCHANGED <<session, procs>>
     ELSE ScheduleRestart(c.session, session[c.session], procs)
  /\ UNCHANGED <<polls, pool, starting, ending, awaited>>

-------------------------------------------------------------------------------
(* pollHealth: the check, and what is done with its answer. *)
PollStarts(s) ==
  /\ Running
  /\ session[s].polling
  /\ LET q == [session |-> s, generation |-> session[s].generation]
     IN  q \notin polls /\ polls' = polls \union {q}
  /\ UNCHANGED <<session, procs, calls, pool, world, starting, ending, awaited, past>>

(* Mutant: a late answer of an earlier generation counts. *)
OutdatedByStop(q) == session[q.session].isStopping

Outdated(q) ==
  session[q.session].isStopping \/ session[q.session].generation # q.generation

Healthy(r) == [r EXCEPT !.isReady = TRUE, !.healthFailCount = 0, !.restartAttempt = 0]

Unhealthy(r) ==
  [r EXCEPT !.healthFailCount = IF r.isReady THEN Saturated(@ + 1, HealthFailThreshold) ELSE @]

(* Past the deadline before the first good answer, or past the threshold after. *)
Hopeless(r) ==
  IF r.isReady THEN r.healthFailCount >= HealthFailThreshold ELSE r.age >= ReadyDeadline

(* What answers is the runner of the device the port leads to, whichever it is. *)
Answers(s) == forwards[session[s].port] \in runner

PollAnswers(q, healthy) ==
  /\ Running
  /\ q \in polls
  /\ healthy => Answers(q.session)
  /\ polls' = polls \ {q}
  /\ LET s == q.session
         r == IF healthy THEN Healthy(session[s]) ELSE Unhealthy(session[s])
     IN  IF Outdated(q) THEN UNCHANGED <<session, procs>>
         ELSE IF ~healthy /\ Hopeless(r) THEN ScheduleRestart(s, r, procs)
         ELSE session' = [session EXCEPT ![s] = r] /\ UNCHANGED procs
  /\ UNCHANGED <<calls, pool, world, starting, ending, awaited, past>>

(* The runner on the device ends by itself, perhaps as soon as it is up, and with it
   what waits for it. *)
RunnerEnds(d) ==
  /\ Running /\ d \in runner
  /\ runner' = runner \ {d}
  /\ UNCHANGED <<session, procs, calls, polls, pool, forwards, starting, ending, awaited, outran, past>>

(* The child ends: its runner did, the device is gone, or a signal. *)
Exits(p) ==
  /\ Running
  /\ p \in procs /\ p.alive
  /\ procs' = (procs \ {p}) \union {[p EXCEPT !.alive = FALSE]}
  /\ UNCHANGED <<session, calls, polls, pool, world, starting, ending, awaited, past>>

Matters(p) ==
  ~session[p.session].isStopping /\ session[p.session].generation = p.generation

(* The exit event. *)
ExitEvent(p) ==
  /\ Running
  /\ p \in procs /\ ~p.alive
  /\ IF Matters(p) THEN ScheduleRestart(p.session, session[p.session], procs \ {p})
     ELSE procs' = procs \ {p} /\ UNCHANGED session
  /\ UNCHANGED <<calls, polls, pool, world, starting, ending, awaited, past>>

-------------------------------------------------------------------------------
(* The shutdown of the agent: stopAll. *)
Shutdown ==
  /\ shutdown = "no"
  /\ shutdown' = "terminating" /\ deadline' = Grace
  /\ Stop({s \in Sessions : Active(s)})
  /\ UNCHANGED <<polls, nextPort, freePorts, world, starting, awaited, past>>

Terminating == {p \in procs : p.alive /\ p.escalation # Off}

(* awaitTermination: all that was signalled has exited, or the deadline is over and it
   is killed; then the cleanups of this moment are waited for. *)
ChildrenAreGone ==
  /\ shutdown = "terminating"
  /\ Terminating = {} \/ deadline = 0
  /\ shutdown' = "cleaning"
  /\ procs' = {[p EXCEPT !.alive = @ /\ p.escalation = Off] : p \in procs}
  /\ awaited' = {c \in calls : c.op \in CleanupOps}
  /\ UNCHANGED <<session, calls, polls, pool, world, starting, deadline, past>>

(* Mutant: the cleanups are not waited for. *)
NotAwaited == TRUE

CleanedUp == awaited = {} \/ deadline = 0

(* process.exit: nothing that runs in the agent goes on. *)
AgentExits ==
  /\ shutdown = "cleaning"
  /\ CleanedUp
  /\ shutdown' = "exited"
  /\ UNCHANGED <<session, procs, calls, polls, pool, world, starting, deadline, awaited, past>>

(* Callbacks are late by less than a tick; a child that is sent SIGKILL ends. *)
Tick ==
  /\ Running
  /\ \A s \in Sessions : session[s].restartTimer = 0 => ~MayLaunch
  /\ \A c \in calls : c.left # 0
  /\ \A c \in cooling : c.left > 0
  /\ shutdown # "no" => deadline > 0
  /\ session' = [s \in Sessions |->
       [session[s] EXCEPT !.restartTimer = IF @ > 0 THEN @ - 1 ELSE @,
                          !.age = IF Active(s) THEN Saturated(@ + 1, ReadyDeadline) ELSE @]]
  /\ procs' = {[p EXCEPT !.alive = @ /\ p.escalation # 0,
                         !.escalation = IF @ > 0 THEN @ - 1 ELSE @] : p \in procs}
  /\ LET older(C) == {[c EXCEPT !.left = IF @ > 0 THEN @ - 1 ELSE @] : c \in C}
     IN  calls' = older(calls) /\ awaited' = older(awaited) /\ cooling' = older(cooling)
  /\ deadline' = IF shutdown = "no" THEN deadline ELSE deadline - 1
  /\ UNCHANGED <<polls, nextPort, freePorts, world, starting, shutdown, past>>

Next ==
  \/ \E d \in Devices : StartSession(d) \/ StopSession(d) \/ RunnerEnds(d)
  \/ \E s \in Sessions : RestartFires(s) \/ PollStarts(s) \/ Prepared(s)
  \/ \E c \in calls, ok \in BOOLEAN : CleanupReturns(c, ok)
  \/ \E c \in calls : Forwarded(c) \/ LaunchIsStale(c) \/ Spawns(c) \/ LaunchFails(c)
  \/ \E i \in starting : RunnerComesUp(i)
  \/ \E q \in polls, healthy \in BOOLEAN : PollAnswers(q, healthy)
  \/ \E p \in procs : Exits(p) \/ ExitEvent(p)
  \/ PortReturns \/ Shutdown \/ ChildrenAreGone \/ AgentExits \/ Tick

Spec == Init /\ [][Next]_vars

-------------------------------------------------------------------------------
LaunchCalls(s) == {c \in calls : c.session = s /\ c.op \in LaunchOps}

(* A session in the map is driven by exactly one thing: a launch under way, a restart
   timer, or health polls of the runner it started.  With none it is stuck for good;
   with two it starts the runner twice (launch, scheduleRestart, pollHealth and the
   exit handler all hand over to each other). *)
OneDriver ==
  \A s \in Sessions : Active(s) =>
    /\ session[s].polling <=> session[s].instrument
    /\ Cardinality({x \in {"timer", "polls"} :
         IF x = "timer" THEN session[s].restartTimer # Off ELSE session[s].polling})
       + Cardinality(LaunchCalls(s)) = 1

(* Ready means that this generation was started and is watched: no late health answer
   makes a session ready that waits for its restart. *)
ReadyIsSupervised ==
  \A s \in Sessions : Active(s) /\ session[s].isReady => session[s].polling

(* Unless adb fails, a forward that no session in the map asked for is on its way out:
   a call that removes or replaces it, or a launch that will remove it, is under way. *)
ForwardsAccounted ==
  \A port \in 1..MaxSessions : forwards[port] # NoDevice /\ failures = 0 /\ Running =>
    \/ \E s \in Sessions :
         Active(s) /\ session[s].port = port /\ session[s].device = forwards[port]
    \/ \E c \in calls : session[c.session].port = port /\ c.op \in {"remove", "undo", "clear"}

(* When the agent is gone, so are its children; and unless adb failed or the grace was
   too short, no runner goes on serving a phone (awaitTermination waits for the
   force-stop of every session, also of one that was stopped earlier).  Two cases are
   the code's own: a session that a late discovery started is awaited by nobody, and a
   force-stop finds nothing when the runner it is meant for is still on its way up. *)
CleanExit ==
  shutdown = "exited" =>
    /\ \A p \in procs : p.alive => p.session \in late
    /\ failures = 0 /\ deadline > 0 =>
         \A d \in Devices : d \in runner \/ Ordered(d) =>
           d \in outran \/ \E s \in late : session[s].device = d

(* When the agent is gone, so is all that it started (main.ts:218 and the comments of
   awaitTermination). *)
NothingSurvives ==
  shutdown = "exited" =>
    /\ \A p \in procs : ~p.alive
    /\ failures = 0 /\ deadline > 0 => runner = {} /\ starting = {}

(* The port of a runner that serves leads to its device. *)
RoutesToOwnDevice ==
  \A s \in Sessions : Active(s) /\ session[s].instrument /\ Running =>
    forwards[session[s].port] = session[s].device
===============================================================================
