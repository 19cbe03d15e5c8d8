------------------------------ MODULE FarmServer ------------------------------
(***************************************************************************)
(* The Nebula server: the device registry together with what lives in the  *)
(* memory of the server process: the agent sockets (AgentsGateway), the    *)
(* commands waiting for an answer, and the mirroring viewers               *)
(* (StreamsRelayService).  The process is one event loop and no handler    *)
(* suspends before it has made all its changes, so a handler, with every   *)
(* listener it calls through OccupancyEvents, is one action.               *)
(*                                                                         *)
(* Agents, users and sockets are the environment: any message can arrive   *)
(* on any current socket at any time.  The commands the server writes to a *)
(* socket are CommandPath's subject, the demand snapshots StreamDemand's.  *)
(***************************************************************************)
EXTENDS Naturals

CONSTANTS
  Devices, Agents, NoAgent, HeartbeatTimeout, OccupationTtl, MaxGenerations,
  Connections,      \* agent sockets
  NoConnection,     \* no entry in agentSockets
  Viewers,          \* viewer sockets
  Requests,         \* command requests: one per requestId, and the bound on them
  CommandTimeout,   \* COMMAND_TIMEOUT_MS, in ticks
  MaxCrashes        \* bound: restarts of the server process

ASSUME ServerAssumption ==
  /\ NoAgent \notin Agents
  /\ NoConnection \notin Connections
  /\ HeartbeatTimeout \in Nat
  /\ OccupationTtl \in Nat
  /\ MaxGenerations \in Nat
  /\ CommandTimeout \in Nat
  /\ MaxCrashes \in Nat
  \* 15 s, and NEBULA_OCCUPATION_TTL_MS is at least 60 s (env.validation.ts)
  /\ CommandTimeout < OccupationTtl

VARIABLES
  status, agentOf, occupant, heartbeatAge, idleAge, nextGen,   \* the registry
  agentSocket,    \* agentSockets: agent -> its current socket
  peer,           \* socket -> the agent id attached to it (NoAgent: no such socket)
  open,           \* sockets whose readyState is OPEN
  capabilities,   \* agentCapabilities: agent -> kinds it may be sent
  pending,        \* pendingCommands
  answer,         \* request -> what the caller of sendCommand was told
  viewers,        \* viewer sockets of the relay, with the generation they entered with
  crashes         \* restarts so far

registryVars == <<status, agentOf, occupant, heartbeatAge, idleAge, nextGen>>
socketVars == <<agentSocket, peer, open, capabilities>>
commandVars == <<pending, answer>>
vars == <<registryVars, socketVars, commandVars, viewers, crashes>>

Registry == INSTANCE DeviceRegistry

LegacyKinds == {"tap"}                       \* LEGACY_ACTION_KINDS
ActionKinds == LegacyKinds \union {"pressButton"}

Answers == {"unused", "waiting", "result", "timeout", "agent_disconnected",
            "occupation_ended", "unsupported", "not_connected", "lost"}

Pending == [req : Requests, agent : Agents, device : Devices,
            gen : Registry!Issued, age : 0..CommandTimeout]
Viewing == [socket : Viewers, device : Devices, gen : Registry!Issued]

TypeOK ==
  /\ Registry!TypeOK
  /\ agentSocket \in [Agents -> Connections \union {NoConnection}]
  /\ peer \in [Connections -> Agents \union {NoAgent}]
  /\ open \in SUBSET Connections
  /\ capabilities \in [Agents -> {LegacyKinds, ActionKinds}]
  /\ pending \in SUBSET Pending
  /\ answer \in [Requests -> Answers]
  /\ viewers \in SUBSET Viewing
  /\ crashes \in 0..MaxCrashes

Init ==
  /\ Registry!Init
  /\ agentSocket = [a \in Agents |-> NoConnection]
  /\ peer = [c \in Connections |-> NoAgent]
  /\ open = {}
  /\ capabilities = [a \in Agents |-> LegacyKinds]
  /\ pending = {}
  /\ answer = [r \in Requests |-> "unused"]
  /\ viewers = {}
  /\ crashes = 0

-------------------------------------------------------------------------------
(* Pending commands are failed together: entries removed, callers answered. *)
Fail(P, why) ==
  /\ pending' = pending \ P
  /\ answer' = [r \in Requests |-> IF \E p \in P : p.req = r THEN why ELSE answer[r]]

(* Mutant: the listener that closes streams is missing. *)
RevokeCommandsOnly(D) ==
  /\ Fail({p \in pending : p.device \in D /\ p.gen = occupant[p.device]}, "occupation_ended")
  /\ UNCHANGED viewers

(* The two listeners of OccupancyEvents, for the occupations that end on the
   devices D: viewers of the ended generation are closed and taken off the
   list, its waiting commands are failed. *)
Revoke(D) ==
  LET ends(x) == x.device \in D /\ x.gen = occupant[x.device]
  IN  /\ viewers' = {v \in viewers : ~ends(v)}
      /\ Fail({p \in pending : ends(p)}, "occupation_ended")

(* HTTP: occupy, release, keepalive. *)
OccupyRequest(d) ==
  /\ Registry!Occupy(d)
  /\ UNCHANGED <<socketVars, commandVars, viewers, crashes>>

ReleaseRequest(d, g) ==
  /\ Registry!Release(d, g)
  /\ Revoke({d})
  /\ UNCHANGED <<socketVars, crashes>>

RenewRequest(d, g) ==
  /\ Registry!Renew(d, g)
  /\ UNCHANGED <<socketVars, commandVars, viewers, crashes>>

(* Does an agent have a current socket that can be written to? *)
Reachable(a) == agentSocket[a] \in open

(* Mutant: a command does not count as activity. *)
AllowedWithoutRenewal(r, d, g) ==
  /\ answer[r] = "unused"
  /\ Registry!Owns(d, g)
  /\ status[d] = "online"
  /\ agentOf[d] # NoAgent
  /\ UNCHANGED <<registryVars, socketVars, viewers, crashes>>

(* HTTP: a command.  A caller that is not the occupant, or a device that is
   offline, is refused without any change.  Otherwise the occupation is
   renewed before the gateway tries to send. *)
CommandAllowed(r, d, g) ==
  /\ answer[r] = "unused"
  /\ Registry!Renew(d, g)
  /\ status[d] = "online"
  /\ agentOf[d] # NoAgent
  /\ UNCHANGED <<socketVars, viewers, crashes>>

CommandSent(r, d, g, kind) ==
  /\ CommandAllowed(r, d, g)
  /\ Reachable(agentOf[d])
  /\ kind \in capabilities[agentOf[d]]
  /\ pending' = pending \union
       {[req |-> r, agent |-> agentOf[d], device |-> d, gen |-> g, age |-> 0]}
  /\ answer' = [answer EXCEPT ![r] = "waiting"]

CommandRejected(r, d, g, kind) ==
  /\ CommandAllowed(r, d, g)
  /\ \/ /\ ~Reachable(agentOf[d])
        /\ answer' = [answer EXCEPT ![r] = "not_connected"]
     \/ /\ Reachable(agentOf[d])
        /\ kind \notin capabilities[agentOf[d]]
        /\ answer' = [answer EXCEPT ![r] = "unsupported"]
  /\ UNCHANGED pending

(* Mutant: the timer is dropped with the socket the command went out on. *)
TimesOutIfReachable(p) ==
  /\ p \in pending
  /\ p.age >= CommandTimeout
  /\ Reachable(p.agent)
  /\ Fail({p}, "timeout")
  /\ UNCHANGED <<registryVars, socketVars, viewers, crashes>>

(* The setTimeout of sendCommand. *)
CommandTimesOut(p) ==
  /\ p \in pending
  /\ p.age >= CommandTimeout
  /\ Fail({p}, "timeout")
  /\ UNCHANGED <<registryVars, socketVars, viewers, crashes>>

-------------------------------------------------------------------------------
(* The viewer sockets of StreamsGateway: only the occupant gets in, whether
   or not the device is online. *)
ViewerConnects(v, d, g) ==
  /\ \A w \in viewers : w.socket # v
  /\ Registry!Owns(d, g)
  /\ viewers' = viewers \union {[socket |-> v, device |-> d, gen |-> g]}
  /\ UNCHANGED <<registryVars, socketVars, commandVars, crashes>>

ViewerCloses(v) ==
  /\ v \in {w.socket : w \in viewers}
  /\ viewers' = {w \in viewers : w.socket # v}
  /\ UNCHANGED <<registryVars, socketVars, commandVars, crashes>>

-------------------------------------------------------------------------------
(* An authenticated agent connects.  A socket already registered for the same
   agent id is closed (4409) and replaced; its close event comes later. *)
AgentConnects(a, c) ==
  /\ peer[c] = NoAgent
  /\ peer' = [peer EXCEPT ![c] = a]
  /\ open' = (open \ {agentSocket[a]}) \union {c}
  /\ agentSocket' = [agentSocket EXCEPT ![a] = c]
  /\ UNCHANGED <<registryVars, capabilities, commandVars, viewers, crashes>>

(* The closing handshake of a socket begins: not OPEN any more, not closed yet. *)
SocketCloses(c) ==
  /\ c \in open
  /\ open' = open \ {c}
  /\ UNCHANGED <<registryVars, agentSocket, peer, capabilities, commandVars, viewers, crashes>>

Current(c) == peer[c] # NoAgent /\ agentSocket[peer[c]] = c

(* The close event (handleDisconnect): a socket that was replaced is ignored,
   the current one takes its agent's devices, spec and waiting commands along. *)
AgentDisconnects(c) ==
  LET a == peer[c]
  IN  /\ Current(c)
      /\ agentSocket' = [agentSocket EXCEPT ![a] = NoConnection]
      /\ capabilities' = [capabilities EXCEPT ![a] = LegacyKinds]
      /\ Registry!MarkAgentOffline(a)
      /\ Fail({p \in pending : p.agent = a}, "agent_disconnected")
      /\ peer' = [peer EXCEPT ![c] = NoAgent]
      /\ open' = open \ {c}
      /\ UNCHANGED <<viewers, crashes>>

(* Mutant: the late close of a replaced socket takes the devices offline. *)
ReplacedSocketTakesDevices(c) ==
  /\ peer[c] # NoAgent
  /\ ~Current(c)
  /\ Registry!MarkAgentOffline(peer[c])
  /\ peer' = [peer EXCEPT ![c] = NoAgent]
  /\ open' = open \ {c}
  /\ UNCHANGED <<agentSocket, capabilities, commandVars, viewers, crashes>>

ReplacedSocketGone(c) ==
  /\ peer[c] # NoAgent
  /\ ~Current(c)
  /\ peer' = [peer EXCEPT ![c] = NoAgent]
  /\ open' = open \ {c}
  /\ UNCHANGED <<registryVars, agentSocket, capabilities, commandVars, viewers, crashes>>

(* Messages; those of a socket that was replaced are dropped. *)
RegisterArrives(c, D, kinds) ==
  /\ Current(c)
  /\ Registry!Upsert(peer[c], D)
  /\ capabilities' = [capabilities EXCEPT ![peer[c]] = kinds]
  /\ UNCHANGED <<agentSocket, peer, open, commandVars, viewers, crashes>>

HeartbeatArrives(c, D) ==
  /\ Current(c)
  /\ Registry!Heartbeat(peer[c], D)
  /\ UNCHANGED <<socketVars, commandVars, viewers, crashes>>

(* A result that matches no waiting command of that agent changes nothing. *)
ResultArrives(c, r) ==
  /\ Current(c)
  /\ \E p \in pending : p.req = r /\ p.agent = peer[c] /\ Fail({p}, "result")
  /\ UNCHANGED <<registryVars, socketVars, viewers, crashes>>

-------------------------------------------------------------------------------
(* OccupancyExpiryMonitor and HeartbeatMonitor. *)
IdleSweep ==
  /\ Registry!ExpireIdle
  /\ Revoke(Registry!IdleDevices)
  /\ UNCHANGED <<socketVars, crashes>>

StaleSweep ==
  /\ Registry!MarkStaleOffline
  /\ Revoke({d \in Registry!StaleDevices : occupant[d] # Registry!Unoccupied})
  /\ UNCHANGED <<socketVars, crashes>>

(* Time passes, but not past a command timer that is due: timers of the event
   loop are late by less than a tick. *)
Tick ==
  /\ \A p \in pending : p.age < CommandTimeout
  /\ Registry!Tick
  /\ pending' = {[p EXCEPT !.age = @ + 1] : p \in pending}
  /\ UNCHANGED <<answer, socketVars, viewers, crashes>>

(* Mutant: the tables are created anew at startup. *)
CrashLosesOccupations ==
  /\ crashes < MaxCrashes
  /\ crashes' = crashes + 1
  /\ occupant' = [d \in Devices |-> Registry!Unoccupied]
  /\ agentSocket' = [a \in Agents |-> NoConnection]
  /\ peer' = [c \in Connections |-> NoAgent]
  /\ open' = {}
  /\ capabilities' = [a \in Agents |-> LegacyKinds]
  /\ viewers' = {}
  /\ Fail(pending, "lost")
  /\ UNCHANGED <<status, agentOf, heartbeatAge, idleAge, nextGen>>

(* The process dies (uncaughtException exits) and is started again: the
   database file survives, everything else starts from scratch and the
   callers of waiting commands lose their HTTP connection. *)
Crash ==
  /\ crashes < MaxCrashes
  /\ crashes' = crashes + 1
  /\ agentSocket' = [a \in Agents |-> NoConnection]
  /\ peer' = [c \in Connections |-> NoAgent]
  /\ open' = {}
  /\ capabilities' = [a \in Agents |-> LegacyKinds]
  /\ viewers' = {}
  /\ Fail(pending, "lost")
  /\ UNCHANGED registryVars

-------------------------------------------------------------------------------
UserStep ==
  \/ \E d \in Devices : OccupyRequest(d)
  \/ \E d \in Devices, g \in Registry!Issued : ReleaseRequest(d, g)
  \/ \E d \in Devices, g \in Registry!Issued : RenewRequest(d, g)
  \/ \E r \in Requests, d \in Devices, g \in Registry!Issued, kind \in ActionKinds :
       CommandSent(r, d, g, kind)
  \/ \E r \in Requests, d \in Devices, g \in Registry!Issued, kind \in ActionKinds :
       CommandRejected(r, d, g, kind)
  \/ \E v \in Viewers, d \in Devices, g \in Registry!Issued : ViewerConnects(v, d, g)
  \/ \E v \in Viewers : ViewerCloses(v)

AgentStep ==
  \/ \E a \in Agents, c \in Connections : AgentConnects(a, c)
  \/ \E c \in Connections : SocketCloses(c)
  \/ \E c \in Connections : AgentDisconnects(c)
  \/ \E c \in Connections : ReplacedSocketGone(c)
  \/ \E c \in Connections, D \in SUBSET Devices, kinds \in {LegacyKinds, ActionKinds} :
       RegisterArrives(c, D, kinds)
  \/ \E c \in Connections, D \in SUBSET Devices : HeartbeatArrives(c, D)
  \/ \E c \in Connections, r \in Requests : ResultArrives(c, r)

TimerStep == (\E p \in pending : CommandTimesOut(p)) \/ IdleSweep \/ StaleSweep \/ Tick

Next == UserStep \/ AgentStep \/ TimerStep \/ Crash

Spec == Init /\ [][Next]_vars

(* Timers fire and time passes; nobody has to connect, answer or release. *)
Fairness ==
  /\ WF_vars(\E p \in pending : CommandTimesOut(p))
  /\ WF_vars(IdleSweep)
  /\ WF_vars(StaleSweep)
  /\ WF_vars(Tick)

FairSpec == Spec /\ Fairness

-------------------------------------------------------------------------------
(* The server implements the registry, its fairness included: what the
   registry promises about occupations, and that they are reclaimed, survives
   sockets, commands, viewers and restarts. *)
ImplementsRegistry == Registry!FairSpec

(* A command waits for an answer only while the occupation it was given under
   is the current one: no result ever reaches a caller after the hand-over,
   whichever of release, idle sweep and heartbeat sweep ended it. *)
PendingOfOccupant == \A p \in pending : occupant[p.device] = p.gen

(* A viewer receives frames only while the generation it entered with holds
   the device ("the occupation is over but the stream lives on" cannot be). *)
ViewersOfOccupant == \A v \in viewers : occupant[v.device] = v.gen

(* Both at once: whoever waits or watches holds the device at that moment. *)
OnlyForOccupant == PendingOfOccupant /\ ViewersOfOccupant

(* Callers and entries of pendingCommands correspond one to one: nobody waits
   for an entry that is gone and no entry answers somebody else. *)
WaitingIsPending ==
  /\ \A r \in Requests : answer[r] = "waiting" <=> \E p \in pending : p.req = r
  /\ \A p, q \in pending : p.req = q.req => p = q

(* The table of current sockets points at sockets of the right agent, and an
   agent without a current socket has nothing waiting and no spec left over. *)
SocketsConsistent ==
  \A a \in Agents :
    /\ agentSocket[a] # NoConnection => peer[agentSocket[a]] = a
    /\ agentSocket[a] = NoConnection =>
         capabilities[a] = LegacyKinds /\ \A p \in pending : p.agent # a

(* A running command keeps its occupation from the idle sweep: renewing before
   sending, and a timeout shorter than the TTL, are enough. *)
PendingNeverIdle == \A p \in pending : p.device \notin Registry!IdleDevices

(* Until the server is restarted, an online device belongs to an agent whose
   tunnel is up.  (After a restart the table still says online until the agent
   returns or the heartbeat sweep notices.) *)
OnlineIsConnected ==
  crashes = 0 =>
    \A d \in Devices : status[d] = "online" => agentSocket[agentOf[d]] # NoConnection

(* A device goes offline only when its agent loses its current socket or its
   heartbeats have stopped: the late close of a replaced socket does not take
   the devices of the new connection down. *)
OfflineOnlyWhenGone ==
  [][\A d \in Devices, a \in Agents :
       status[d] = "online" /\ agentOf[d] = a /\ status'[d] = "offline" =>
         \/ heartbeatAge[d] > HeartbeatTimeout
         \/ agentSocket[a] # NoConnection /\ agentSocket'[a] = NoConnection]_vars

(* A caller is answered once: no second answer, and no going back to waiting. *)
AnsweredOnce ==
  [][\A r \in Requests :
       answer[r] \notin {"unused", "waiting"} => answer'[r] = answer[r]]_vars

(* Every command is answered, whatever the agent does. *)
EveryCommandIsAnswered ==
  \A r \in Requests : answer[r] = "waiting" ~> answer[r] # "waiting"
===============================================================================
