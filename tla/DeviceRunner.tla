---------------------------- MODULE DeviceRunner ----------------------------
(***************************************************************************)
(* The controller on one phone, and the agent that drives it over the      *)
(* cable: CommandExecutor sends one command at a time, ControllerClient    *)
(* gives up after a while, and the supervisor polls /health.               *)
(*                                                                         *)
(* On Android (HttpServer, Router, ActionQueue) a request has a thread of  *)
(* its own, which waits for the one thread that may use UiAutomation; a    *)
(* poll is answered at once.  On iOS (HttpServer, ControllerTests) one     *)
(* serial queue serves every request, polls included, and is blocked while *)
(* the main thread performs an action.  An action may take any time, and   *)
(* may hang.                                                               *)
(*                                                                         *)
(* RunnerInit, RunnerNext and so on keep the names of ServerTunnel free,   *)
(* like those of AgentLoop: AgentProofs extends all three.                 *)
(***************************************************************************)
EXTENDS Integers, Sequences

CONSTANTS
  NoCommand, Health,
  MaxCommands,           \* bound: commands the agent sends
  ActionTimeout,         \* of ActionQueue.submit on Android, in ticks
  ClientTimeout,         \* CONTROLLER_TIMEOUT_MS
  HealthTimeout, HealthInterval, HealthFailThreshold,
  MaxCrashes             \* bound: how often the runner dies by itself

Commands == 1..MaxCommands

\* 9 s < 10 s, 5 s < 10 s and 2 * 5 s = 10 s; NEBULA_ANDROID_ACTION_TIMEOUT_MS can break
\* the first, the last two are constants of the code
ASSUME RunnerAssumption ==
  /\ NoCommand \notin Commands /\ Health \notin Commands /\ NoCommand # Health
  /\ MaxCommands \in Nat \ {0} /\ MaxCrashes \in Nat
  /\ ActionTimeout \in Nat \ {0} /\ ClientTimeout \in Nat /\ ActionTimeout < ClientTimeout
  /\ HealthTimeout \in Nat \ {0} /\ HealthInterval \in Nat /\ HealthTimeout < HealthInterval
  /\ HealthTimeout + HealthTimeout <= ClientTimeout
  /\ HealthFailThreshold \in Nat \ {0}

VARIABLES
  platform,
  sent,        \* commands sent so far
  command,     \* the command the agent waits for
  waited,      \* ticks since it was sent
  backlog,     \* requests that wait for the thread that serves them
  running,     \* the action this thread performs
  ranFor,      \* for how long, up to HealthTimeout
  polling, pollAge, sincePoll, failCount,   \* the health poll of the supervisor
  overran,     \* an action has lasted as long as HealthTimeout since the last good poll
  crashes

agentVars == <<sent, command, waited>>
runnerVars == <<backlog, running, ranFor>>
healthVars == <<polling, pollAge, sincePoll, failCount, overran>>
phoneVars == <<platform, agentVars, runnerVars, healthVars, crashes>>

RunnerTypeOK ==
  /\ platform \in {"android", "ios"}
  /\ sent \in 0..MaxCommands
  /\ command \in Commands \union {NoCommand} /\ waited \in 0..ClientTimeout
  /\ backlog \in Seq(Commands \union {Health})
  /\ running \in Commands \union {NoCommand} /\ ranFor \in 0..HealthTimeout
  /\ polling \in BOOLEAN /\ pollAge \in 0..HealthTimeout /\ sincePoll \in 0..HealthInterval
  /\ failCount \in 0..HealthFailThreshold - 1
  /\ overran \in BOOLEAN /\ crashes \in 0..MaxCrashes

RunnerInit ==
  /\ platform \in {"android", "ios"}
  /\ sent = 0 /\ command = NoCommand /\ waited = 0
  /\ backlog = <<>> /\ running = NoCommand /\ ranFor = 0
  /\ polling = FALSE /\ pollAge = 0 /\ sincePoll = 0 /\ failCount = 0 /\ overran = FALSE
  /\ crashes = 0

-------------------------------------------------------------------------------
(* A request is in the backlog at most once. *)
Withdrawn(x, requests) ==
  IF x \in {requests[i] : i \in 1..Len(requests)}
  THEN LET i == CHOOSE i \in 1..Len(requests) : requests[i] = x
       IN  SubSeq(requests, 1, i - 1) \o SubSeq(requests, i + 1, Len(requests))
  ELSE requests

(* The next command of the device's queue; its result is waited for. *)
Send ==
  /\ command = NoCommand /\ sent < MaxCommands
  /\ sent' = sent + 1 /\ command' = sent + 1 /\ waited' = 0
  /\ backlog' = Append(backlog, sent + 1)
  /\ UNCHANGED <<platform, running, ranFor, healthVars, crashes>>

IsNext(x) == backlog # <<>> /\ Head(backlog) = x /\ running = NoCommand

Begin(c) ==
  /\ IsNext(c)
  /\ running' = c /\ ranFor' = 0 /\ backlog' = Tail(backlog)
  /\ UNCHANGED <<platform, agentVars, healthVars, crashes>>

(* iOS: the connection was aborted before its request was read. *)
Aborted(c) ==
  /\ platform = "ios" /\ IsNext(c) /\ command # c
  /\ backlog' = Tail(backlog)
  /\ UNCHANGED <<platform, agentVars, running, ranFor, healthVars, crashes>>

Settled(c) == command' = IF command = c THEN NoCommand ELSE command

(* The action ends, well or not, and is answered if somebody still waits. *)
Ends ==
  /\ running # NoCommand
  /\ running' = NoCommand /\ Settled(running)
  /\ UNCHANGED <<platform, sent, waited, backlog, ranFor, healthVars, crashes>>

(* Mutant: the future is left in the queue. *)
LeftQueued(c) == backlog

(* future.cancel: an action that waits never runs; one that runs is interrupted,
   which the sleep of a swipe does not heed. *)
Cancelled(c) == Withdrawn(c, backlog)

(* Android: 503. *)
ActionTimesOut ==
  /\ platform = "android" /\ command # NoCommand /\ waited = ActionTimeout
  /\ command' = NoCommand /\ backlog' = Cancelled(command)
  /\ UNCHANGED <<platform, sent, waited, running, ranFor, healthVars, crashes>>

(* The request is aborted; iOS is not told before it has read it. *)
ClientTimesOut ==
  /\ command # NoCommand /\ waited = ClientTimeout
  /\ command' = NoCommand
  /\ UNCHANGED <<platform, sent, waited, runnerVars, healthVars, crashes>>

-------------------------------------------------------------------------------
(* Mutants: /health takes its turn on Android, too; or on neither. *)
Nowhere == FALSE
Everywhere == TRUE

(* Router.route answers /health before the queue. *)
Bypasses == platform = "android"

PollStarts ==
  /\ ~polling /\ sincePoll = HealthInterval
  /\ polling' = TRUE /\ pollAge' = 0 /\ sincePoll' = 0
  /\ backlog' = IF Bypasses THEN backlog ELSE Append(backlog, Health)
  /\ UNCHANGED <<platform, agentVars, running, ranFor, failCount, overran, crashes>>

PollAnswered ==
  /\ polling
  /\ \/ Bypasses /\ UNCHANGED backlog
     \/ ~Bypasses /\ IsNext(Health) /\ backlog' = Tail(backlog)
  /\ polling' = FALSE /\ failCount' = 0
  /\ overran' = (running # NoCommand /\ ranFor = HealthTimeout)
  /\ UNCHANGED <<platform, agentVars, running, ranFor, pollAge, sincePoll, crashes>>

PollIsLate == polling /\ pollAge = HealthTimeout

PollFails ==
  /\ PollIsLate /\ failCount + 1 < HealthFailThreshold
  /\ polling' = FALSE /\ failCount' = failCount + 1
  /\ backlog' = Withdrawn(Health, backlog)
  /\ UNCHANGED <<platform, agentVars, running, ranFor, pollAge, sincePoll, overran, crashes>>

(* A runner that is killed or dies takes its requests with it. *)
Relaunched ==
  /\ backlog' = <<>> /\ running' = NoCommand /\ ranFor' = 0
  /\ command' = NoCommand
  /\ polling' = FALSE /\ sincePoll' = 0 /\ failCount' = 0 /\ overran' = FALSE
  /\ UNCHANGED <<platform, sent, waited, pollAge>>

(* scheduleRestart, for a runner that does not answer. *)
Restart ==
  /\ PollIsLate /\ failCount + 1 >= HealthFailThreshold
  /\ Relaunched
  /\ UNCHANGED crashes

(* The socket of the server fails (fatal), or the system kills the runner. *)
Crash ==
  /\ crashes < MaxCrashes /\ crashes' = crashes + 1
  /\ Relaunched

-------------------------------------------------------------------------------
(* Time passes when nothing is due: the threads of the runner are prompt, and so are
   the timers. *)
Prompt ==
  /\ backlog = <<>> \/ running # NoCommand
  /\ ~(polling /\ Bypasses)
  /\ polling => pollAge < HealthTimeout
  /\ polling \/ sincePoll < HealthInterval
  /\ command # NoCommand =>
       waited < ClientTimeout /\ (platform = "android" => waited < ActionTimeout)

RunnerTick ==
  /\ Prompt
  /\ waited' = IF command # NoCommand THEN waited + 1 ELSE waited
  /\ ranFor' = IF running # NoCommand /\ ranFor < HealthTimeout THEN ranFor + 1 ELSE ranFor
  /\ pollAge' = IF polling THEN pollAge + 1 ELSE pollAge
  /\ sincePoll' = IF sincePoll < HealthInterval THEN sincePoll + 1 ELSE sincePoll
  /\ overran' = (overran \/ (running # NoCommand /\ ranFor' = HealthTimeout))
  /\ UNCHANGED <<platform, sent, command, backlog, running, polling, failCount, crashes>>

RunnerStep == \E c \in Commands : Begin(c) \/ Aborted(c)
PollStep == PollStarts \/ PollAnswered \/ PollFails \/ Restart
TimeoutStep == ActionTimesOut \/ ClientTimesOut

RunnerNext == Send \/ RunnerStep \/ Ends \/ PollStep \/ TimeoutStep \/ Crash \/ RunnerTick

(* Timers and threads run; an action need not end. *)
RunnerFairness ==
  WF_phoneVars(RunnerStep) /\ WF_phoneVars(PollStep) /\ WF_phoneVars(TimeoutStep) /\ WF_phoneVars(RunnerTick)

RunnerSpec == RunnerInit /\ [][RunnerNext]_phoneVars /\ RunnerFairness

-------------------------------------------------------------------------------
(* On Android an input is never performed after its sender was told that it *)
(* failed: the time limit of the queue ends before the agent's own, and     *)
(* what has not begun by then is cancelled (ActionQueue.submit).            *)
NoGhostInput ==
  [][\A c \in Commands : platform = "android" /\ running # c /\ running' = c => command = c]_phoneVars

(* A runner is only held to be dead by a supervisor when an action really   *)
(* keeps it from answering: never on Android, and on iOS not by any series  *)
(* of actions each shorter than the time limit of the poll.                 *)
FailsOnlyWhenBlocked == failCount > 0 => platform = "ios" /\ overran

(* An iOS action that hangs does not block the phone for ever: the poll it  *)
(* blocks has the runner restarted.                                         *)
HungIsRestarted ==
  \A c \in Commands : (platform = "ios" /\ running = c) ~> running # c
===============================================================================
