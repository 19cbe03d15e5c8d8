------------------------- MODULE ControllerSupervisor -------------------------
(***************************************************************************)
(* The supervisor of the iOS controllers in an agent: for every discovered *)
(* device a session with an XCUITest runner (xcodebuild) and a port        *)
(* forwarder (iproxy), health polls, restarts with backoff, and a local    *)
(* port that returns to a pool when the session ends.                      *)
(*                                                                         *)
(* Processes outlive the sessions that started them: they may ignore       *)
(* SIGTERM, and their exit events arrive late.  So do the answers of       *)
(* health polls.  Both carry the generation they belong to.                *)
(***************************************************************************)
EXTENDS Integers, Sequences, FiniteSets

CONSTANTS
  Devices, NoDevice,
  RestartBase, RestartMax, KillEscalation, PortCooldown, ReadyDeadline,   \* ticks
  HealthFailThreshold, MaxAttempt,
  MaxSessions, MaxLaunches     \* bounds: sessions, and launches of all of them

ASSUME SupervisorAssumption ==
  /\ NoDevice \notin Devices
  /\ {RestartBase, RestartMax, KillEscalation, PortCooldown, ReadyDeadline,
      HealthFailThreshold, MaxSessions, MaxLaunches} \subseteq Nat \ {0}
  /\ MaxAttempt \in Nat /\ RestartBase * 2^MaxAttempt >= RestartMax
  /\ KillEscalation < PortCooldown

(* Doubling never shrinks a delay: true for every base, and stated because no
   prover at hand does the induction on the exponent. *)
ASSUME DelaysGrow == \A i \in 0..MaxAttempt : RestartBase <= RestartBase * 2^i

Sessions == 1..MaxSessions
Kinds == {"runner", "proxy"}
Off == -1

VARIABLES
  session,       \* the Session objects, also those no longer in the map
  procs,         \* child processes whose exit the agent does not know of
  polls,         \* health checks waiting for an answer
  nextPort, freePorts,
  cooling,       \* ports that return to freePorts: port, ticks left
  shutdown,      \* "no", "waiting" (awaitTermination), "waited", "exited"
  late           \* history: the sessions that began after the shutdown had

vars == <<session, procs, polls, nextPort, freePorts, cooling, shutdown, late>>
ending == <<shutdown, late>>

SessionType ==
  [device : Devices \union {NoDevice}, port : Nat, held : SUBSET Kinds,
   isReady : BOOLEAN, healthFailCount : 0..HealthFailThreshold,
   restartAttempt : 0..MaxAttempt, polling : BOOLEAN,
   restartTimer : {Off} \union 0..RestartMax, isStopping : BOOLEAN,
   generation : 0..MaxLaunches, age : 0..ReadyDeadline]

ProcessType ==
  [session : Sessions, generation : 1..MaxLaunches, kind : Kinds,
   alive : BOOLEAN, bound : BOOLEAN, escalation : {Off} \union 0..KillEscalation]

TypeOK ==
  /\ session \in [Sessions -> SessionType]
  /\ procs \subseteq ProcessType
  /\ polls \subseteq [session : Sessions, generation : 1..MaxLaunches]
  /\ nextPort \in 1..(MaxSessions + 1)
  /\ freePorts \in Seq(Nat)
  /\ cooling \subseteq [port : Nat, left : 0..PortCooldown]
  /\ shutdown \in {"no", "waiting", "waited", "exited"} /\ late \subseteq Sessions

NoSession ==
  [device |-> NoDevice, port |-> 0, held |-> {}, isReady |-> FALSE,
   healthFailCount |-> 0, restartAttempt |-> 0, polling |-> FALSE,
   restartTimer |-> Off, isStopping |-> FALSE, generation |-> 0, age |-> 0]

Init ==
  /\ session = [s \in Sessions |-> NoSession]
  /\ procs = {}
  /\ polls = {}
  /\ nextPort = 1 /\ freePorts = <<>> /\ cooling = {}
  /\ shutdown = "no" /\ late = {}

-------------------------------------------------------------------------------
(* The sessions in the map. *)
Active(s) == session[s].device # NoDevice /\ ~session[s].isStopping
Supervised == {session[s].device : s \in {t \in Sessions : Active(t)}}

Port(p) == session[p.session].port
Listeners(port) == {p \in procs : p.alive /\ p.bound /\ Port(p) = port}

Current(p) == p.generation = session[p.session].generation

(* Mutant: a teardown forgets the forwarder. *)
RunnerHeldBy(s) ==
  {p \in procs : p.session = s /\ Current(p) /\ p.kind \in session[s].held \ {"proxy"}}

HeldBy(s) == {p \in procs : p.session = s /\ Current(p) /\ p.kind \in session[s].held}

Saturated(n, bound) == IF n < bound THEN n ELSE bound

Delay(attempt) == Saturated(RestartBase * 2^attempt, RestartMax)

(* signalProcessTree(SIGTERM) and the timer that escalates to SIGKILL. *)
Signalled(ps) == {[p EXCEPT !.escalation = KillEscalation] : p \in ps}

(* teardownProcesses *)
TornDown(r) == [r EXCEPT !.polling = FALSE, !.isReady = FALSE, !.held = {}]

(* scheduleRestart of session s, whose fields are r by now, and processes not
   known to have exited. *)
Restarting(r) ==
  [TornDown(r) EXCEPT !.restartTimer = Delay(r.restartAttempt),
                      !.restartAttempt = Saturated(r.restartAttempt + 1, MaxAttempt)]
ScheduleRestart(s, r, known) ==
  IF r.isStopping \/ r.restartTimer # Off
  THEN session' = [session EXCEPT ![s] = r] /\ procs' = known
  ELSE /\ session' = [session EXCEPT ![s] = Restarting(r)]
       /\ procs' = (known \ HeldBy(s)) \union Signalled(HeldBy(s) \intersect known)

Launches[n \in 0..MaxSessions] ==
  IF n = 0 THEN 0 ELSE Launches[n - 1] + session[n].generation
MayLaunch == Launches[MaxSessions] < MaxLaunches

Spawned(s, g, port, kinds) ==
  {[session |-> s, generation |-> g, kind |-> k, alive |-> TRUE,
    bound |-> k = "proxy" /\ Listeners(port) = {}, escalation |-> Off] : k \in kinds}

(* Mutant: a failed launch is cleaned up, but not tried again. *)
AbandonedLaunch(r) == TornDown(r)

FailedLaunch(r) == Restarting(r)

(* launchProcesses of a session with fields r: the runner and then the proxy
   are spawned, and either may throw; what exists by then is torn down.  A
   proxy whose port is taken fails to bind and exits. *)
Launch(s, r, spawned) ==
  LET g == r.generation + 1
      launched == [r EXCEPT !.isReady = FALSE, !.healthFailCount = 0, !.age = 0,
                            !.generation = g, !.restartTimer = Off]
      new == Spawned(s, g, r.port, spawned)
  IN  IF spawned = Kinds
      THEN /\ session' = [session EXCEPT ![s] = [launched EXCEPT !.held = Kinds, !.polling = TRUE]]
           /\ procs' = procs \union new
      ELSE /\ session' = [session EXCEPT ![s] = FailedLaunch(launched)]
           /\ procs' = procs \union Signalled(new)

Spawnable == {{}, {"runner"}, Kinds}

Shifted(free) == Tail(free)

(* allocatePort *)
Allocate(port) ==
  IF freePorts # <<>>
  THEN port = Head(freePorts) /\ freePorts' = Shifted(freePorts) /\ UNCHANGED nextPort
  ELSE port = nextPort /\ nextPort' = nextPort + 1 /\ UNCHANGED freePorts

(* syncDevices for a device that appeared: startSession.  A call that starts
   and stops several devices is the sequence of these steps.  A discovery that was
   under way at the shutdown comes here as well: main.ts does not look again. *)
StartSession(d) ==
  /\ shutdown # "exited"
  /\ d \notin Supervised
  /\ MayLaunch
  /\ \E s \in Sessions, port \in 1..MaxSessions, spawned \in Spawnable :
       /\ session[s].device = NoDevice
       /\ \A t \in 1..(s - 1) : session[t].device # NoDevice
       /\ Allocate(port)
       /\ Launch(s, [NoSession EXCEPT !.device = d, !.port = port], spawned)
       /\ late' = IF shutdown = "no" THEN late ELSE late \union {s}
  /\ UNCHANGED <<polls, cooling, shutdown>>

(* Mutant: the port is free at once. *)
NoCooldown == 0

Cooldown == PortCooldown

(* stopSession, for one session or, in stopAll, for all. *)
Stop(S) ==
  LET held == UNION {HeldBy(s) : s \in S}
      stopped(r) == [TornDown(r) EXCEPT !.isStopping = TRUE, !.restartTimer = Off]
  IN  /\ session' = [s \in Sessions |-> IF s \in S THEN stopped(session[s]) ELSE session[s]]
      /\ procs' = (procs \ held) \union Signalled(held)
      /\ cooling' = cooling \union {[port |-> session[s].port, left |-> Cooldown] : s \in S}

(* syncDevices for a device that is gone.  Only one discovery can return after the
   shutdown, and it stops none of the sessions it has just started. *)
StopSession(d) ==
  /\ shutdown # "exited"
  /\ \E s \in Sessions \ late : Active(s) /\ session[s].device = d /\ Stop({s})
  /\ UNCHANGED <<polls, nextPort, freePorts, ending>>

PortReturns ==
  /\ shutdown # "exited"
  /\ \E c \in cooling :
       /\ c.left = 0
       /\ freePorts' = Append(freePorts, c.port)
       /\ cooling' = cooling \ {c}
  /\ UNCHANGED <<session, procs, polls, nextPort, ending>>

RestartFires(s) ==
  /\ shutdown # "exited"
  /\ session[s].restartTimer = 0
  /\ MayLaunch
  /\ \E spawned \in Spawnable : Launch(s, session[s], spawned)
  /\ UNCHANGED <<polls, nextPort, freePorts, cooling, ending>>

-------------------------------------------------------------------------------
(* pollHealth: the check, and what is done with its answer. *)
PollStarts(s) ==
  /\ shutdown # "exited"
  /\ session[s].polling
  /\ LET q == [session |-> s, generation |-> session[s].generation]
     IN  q \notin polls /\ polls' = polls \union {q}
  /\ UNCHANGED <<session, procs, nextPort, freePorts, cooling, ending>>

(* Mutant: the generation alone tells an old answer. *)
OutdatedByGeneration(q) ==
  session[q.session].isStopping \/ session[q.session].generation # q.generation

Outdated(q) ==
  \/ session[q.session].isStopping
  \/ session[q.session].generation # q.generation
  \/ "runner" \notin session[q.session].held

Healthy(r) == [r EXCEPT !.isReady = TRUE, !.healthFailCount = 0, !.restartAttempt = 0]

(* Past the deadline before the first good answer, or past the threshold after. *)
Hopeless(r) ==
  IF r.isReady THEN r.healthFailCount >= HealthFailThreshold ELSE r.age >= ReadyDeadline

PollAnswers(q, healthy) ==
  /\ shutdown # "exited"
  /\ q \in polls
  /\ healthy => Listeners(session[q.session].port) # {}
  /\ polls' = polls \ {q}
  /\ LET r == session[q.session]
         failed == [r EXCEPT !.healthFailCount = Saturated(@ + 1, HealthFailThreshold)]
     IN  CASE Outdated(q) -> UNCHANGED <<session, procs>>
           [] ~Outdated(q) /\ healthy ->
                session' = [session EXCEPT ![q.session] = Healthy(r)] /\ UNCHANGED procs
           [] ~Outdated(q) /\ ~healthy /\ ~Hopeless(failed) ->
                session' = [session EXCEPT ![q.session] = failed] /\ UNCHANGED procs
           [] OTHER -> ScheduleRestart(q.session, failed, procs)
  /\ UNCHANGED <<nextPort, freePorts, cooling, ending>>

(* A process ends, on SIGTERM or by itself, or was never started (ENOENT). *)
Exits(p) ==
  /\ p \in procs /\ p.alive
  /\ procs' = (procs \ {p}) \union {[p EXCEPT !.alive = FALSE]}
  /\ UNCHANGED <<session, polls, nextPort, freePorts, cooling, ending>>

(* Mutant: any exit is taken for one of the present processes. *)
OfAnyGeneration(p) == ~session[p.session].isStopping

Matters(p) == ~session[p.session].isStopping /\ Current(p)

(* The exit or error event: handleChildFailure. *)
ExitEvent(p) ==
  /\ shutdown # "exited"
  /\ p \in procs /\ ~p.alive
  /\ IF Matters(p) THEN ScheduleRestart(p.session, session[p.session], procs \ {p})
     ELSE procs' = procs \ {p} /\ UNCHANGED session
  /\ UNCHANGED <<polls, nextPort, freePorts, cooling, ending>>

(* SIGKILL: takes effect before the next tick. *)
Escalates(p) ==
  /\ shutdown # "exited"
  /\ p \in procs /\ p.alive /\ p.escalation = 0
  /\ procs' = (procs \ {p}) \union {[p EXCEPT !.alive = FALSE]}
  /\ UNCHANGED <<session, polls, nextPort, freePorts, cooling, ending>>

(* The shutdown of the agent: stopAll, and awaitTermination. *)
Shutdown ==
  /\ shutdown = "no"
  /\ shutdown' = "waiting"
  /\ Stop({s \in Sessions : Active(s)})
  /\ UNCHANGED <<polls, nextPort, freePorts, late>>

(* Mutant: exit without waiting. *)
ReturnsAtOnce ==
  /\ shutdown = "waiting"
  /\ shutdown' = "waited"
  /\ UNCHANGED <<session, procs, polls, nextPort, freePorts, cooling, late>>

(* awaitTermination returns: all that was signalled has exited, or the grace is over
   and it is killed. *)
ChildrenAreGone ==
  /\ shutdown = "waiting"
  /\ shutdown' = "waited"
  /\ procs' = {[p EXCEPT !.alive = @ /\ p.escalation = Off] : p \in procs}
  /\ UNCHANGED <<session, polls, nextPort, freePorts, cooling, late>>

(* process.exit, when those that wait for Android and the streams have returned too. *)
AgentExits ==
  /\ shutdown = "waited"
  /\ shutdown' = "exited"
  /\ UNCHANGED <<session, procs, polls, nextPort, freePorts, cooling, late>>

(* Callbacks are late by less than a tick. *)
Tick ==
  /\ shutdown # "exited"
  /\ \A s \in Sessions : session[s].restartTimer = 0 => ~MayLaunch
  /\ \A p \in procs : p.alive => p.escalation # 0
  /\ \A c \in cooling : c.left > 0
  /\ session' = [s \in Sessions |->
       [session[s] EXCEPT !.restartTimer = IF @ > 0 THEN @ - 1 ELSE @,
                          !.age = IF Active(s) THEN Saturated(@ + 1, ReadyDeadline) ELSE @]]
  /\ procs' = {[p EXCEPT !.escalation = IF @ > 0 THEN @ - 1 ELSE @] : p \in procs}
  /\ cooling' = {[c EXCEPT !.left = @ - 1] : c \in cooling}
  /\ UNCHANGED <<polls, nextPort, freePorts, ending>>

Next ==
  \/ \E d \in Devices : StartSession(d) \/ StopSession(d)
  \/ \E s \in Sessions : RestartFires(s) \/ PollStarts(s)
  \/ \E q \in polls, healthy \in BOOLEAN : PollAnswers(q, healthy)
  \/ \E p \in procs : Exits(p) \/ ExitEvent(p) \/ Escalates(p)
  \/ PortReturns \/ Shutdown \/ ChildrenAreGone \/ AgentExits \/ Tick

Spec == Init /\ [][Next]_vars

(* Time passes, timers fire, polls are made and answered (the check times out
   before the next one), exit events are delivered. *)
Fairness ==
  /\ WF_vars(Tick)
  /\ \A s \in Sessions :
       /\ WF_vars(RestartFires(s))
       /\ WF_vars(PollStarts(s))
       /\ WF_vars(\E q \in polls, healthy \in BOOLEAN : q.session = s /\ PollAnswers(q, healthy))
       /\ WF_vars(\E p \in procs : p.session = s /\ (Escalates(p) \/ ExitEvent(p)))
  /\ WF_vars(PortReturns)

FairSpec == Spec /\ Fairness

-------------------------------------------------------------------------------
(* What listens on the port of a session is the session's own forwarder:
   commands and health checks never reach another phone, although ports change
   hands and old forwarders may ignore SIGTERM. *)
RoutesToOwnDevice ==
  \A s \in Sessions : Active(s) =>
    \A p \in Listeners(session[s].port) : p.session = s

(* A process that runs was told to end, or is one of the two of a session's
   present generation: no failure half-way through a launch leaks one. *)
NothingLeaks ==
  \A p \in procs : p.alive /\ p.escalation = Off =>
    Active(p.session) /\ Current(p) /\ p.kind \in session[p.session].held

(* Ready means both processes are up as far as anybody knows, and watched: no
   late answer makes a session ready that waits for its restart. *)
ReadyIsSupervised ==
  \A s \in Sessions : session[s].isReady =>
    /\ Active(s) /\ session[s].held = Kinds
    /\ session[s].polling /\ session[s].restartTimer = Off

(* A session with both processes restarts for a reason of its own: one of them
   ended, or the polls of this generation gave it up.  Nothing that an earlier
   generation left behind counts. *)
RestartsHaveCause ==
  [][\A s \in Sessions :
       (session[s].held = Kinds /\ session'[s].held = {} /\ ~session'[s].isStopping) =>
         \/ \E p \in HeldBy(s) : ~p.alive
         \/ Hopeless([session[s] EXCEPT !.healthFailCount = @ + 1])]_vars

(* When the agent is gone, so are the processes it started, although they may ignore
   SIGTERM: all but those of the sessions that a late discovery began, which nobody
   waits for. *)
NoOrphans == shutdown = "exited" => \A p \in procs : p.alive => p.session \in late

(* When the agent is gone, so is all that it started (main.ts:218 and the comment of
   awaitTermination). *)
NothingSurvives == shutdown = "exited" => \A p \in procs : ~p.alive

(* No session is stuck: one that is not ready becomes ready or is launched
   again, up to the bound, as long as the device stays and the agent runs. *)
NeverStuck ==
  \A s \in Sessions :
    (Active(s) /\ ~session[s].isReady) ~>
      session[s].isReady \/ ~Active(s) \/ shutdown = "exited" \/ ~MayLaunch
===============================================================================
