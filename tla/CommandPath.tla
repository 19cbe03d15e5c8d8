----------------------------- MODULE CommandPath ------------------------------
(***************************************************************************)
(* The way of a command: FarmServer, the tunnel to each agent (ServerTunnel*)
(* and the wire below it) and the agent's CommandExecutor with its serial  *)
(* queue per device.  The tunnel is FIFO while it lasts; either end can    *)
(* lose it without the other knowing, the agent reconnects on a new        *)
(* socket, and server and agent can both die and come back.                *)
(*                                                                         *)
(* Messages for different devices touch disjoint agent state, so the wire  *)
(* keeps one queue per device.  What a socket nobody reads is sent is lost *)
(* at once.  Viewers have no part in this and are left out; whether a      *)
(* controller is ready is another component's choice.                      *)
(***************************************************************************)
EXTENDS Naturals, Sequences, SequencesExt

CONSTANTS
  Devices, Agents, NoAgent, HeartbeatTimeout, OccupationTtl, MaxGenerations,
  Connections, NoConnection, Requests, CommandTimeout, MaxCrashes,
  NoRequest,       \* nothing is running on a device
  Attached,        \* agent -> the devices plugged into its host
  MaxQueueDepth,   \* MAX_QUEUE_DEPTH
  QueueStale       \* QUEUE_STALE_MS, in ticks

ASSUME PathAssumption ==
  /\ NoAgent \notin Agents
  /\ NoConnection \notin Connections
  /\ HeartbeatTimeout \in Nat
  /\ OccupationTtl \in Nat
  /\ MaxGenerations \in Nat
  /\ CommandTimeout \in Nat
  /\ NoRequest \notin Requests
  /\ Attached \in [Agents -> SUBSET Devices]
  /\ MaxQueueDepth \in Nat \ {0}
  /\ QueueStale \in Nat
  \* both are 15 s; command-executor.ts relies on it
  /\ CommandTimeout <= QueueStale

VARIABLES
  status, agentOf, occupant, heartbeatAge, idleAge, nextGen,
  agentSocket, peer, open, capabilities, pending, answer, crashes,
  link,      \* agent -> the socket its tunnel is using
  wire,      \* socket -> device -> messages of the server not yet read by the agent
  results,   \* command results on their way to the server
  occupations,   \* executor: agent -> device -> generation it takes for current
  queue,     \* executor: agent -> device -> commands waiting for their turn
  running,   \* executor: agent -> device -> command the controller is executing
  newest,    \* history: device -> newest generation it was given a command of
  revoked    \* history: agent -> generations whose end notice it has taken

serverVars == <<status, agentOf, occupant, heartbeatAge, idleAge, nextGen,
                agentSocket, peer, open, capabilities, pending, answer, crashes>>
executorVars == <<occupations, queue, running, newest, revoked>>
vars == <<serverVars, link, wire, results, executorVars>>

Server == INSTANCE FarmServer WITH Viewers <- {}, viewers <- {}
Registry == INSTANCE DeviceRegistry

Generations == Registry!Issued
NoGeneration == Registry!Unoccupied

Command(r, g) == [type |-> "command", req |-> r, gen |-> g]
OccupancyEnded(g) == [type |-> "occupancyEnded", gen |-> g]

Messages == {Command(r, g) : r \in Requests, g \in Generations}
              \union {OccupancyEnded(g) : g \in Generations}
\* conn (the socket the command came on) is kept for the properties only.
Waiting == [req : Requests, gen : Generations, conn : Connections, age : 0..(QueueStale + 1)]

TypeOK ==
  /\ Server!TypeOK
  /\ link \in [Agents -> Connections \union {NoConnection}]
  /\ \A c \in Connections, d \in Devices : wire[c][d] \in Seq(Messages)
  /\ results \in SUBSET [conn : Connections, req : Requests]
  /\ occupations \in [Agents -> [Devices -> Generations \union {NoGeneration}]]
  /\ \A a \in Agents, d \in Devices : queue[a][d] \in Seq(Waiting)
  /\ running \in [Agents -> [Devices -> Requests \union {NoRequest}]]
  /\ newest \in [Devices -> Generations \union {NoGeneration}]
  /\ revoked \in [Agents -> SUBSET Generations]

EmptyWire == [d \in Devices |-> <<>>]
NoOccupations == [d \in Devices |-> NoGeneration]

Init ==
  /\ Server!Init
  /\ link = [a \in Agents |-> NoConnection]
  /\ wire = [c \in Connections |-> EmptyWire]
  /\ results = {}
  /\ occupations = [a \in Agents |-> NoOccupations]
  /\ queue = [a \in Agents |-> EmptyWire]
  /\ running = [a \in Agents |-> [d \in Devices |-> NoRequest]]
  /\ newest = [d \in Devices |-> NoGeneration]
  /\ revoked = [a \in Agents |-> {}]

-------------------------------------------------------------------------------
(* The server's sends. *)

(* Is some agent reading this socket? *)
Read(c) == \E a \in Agents : link[a] = c

(* CommandRevocationListener: for every occupation that ends, a notice to the
   agent the row names, if its current socket is open. *)
Notify(D) ==
  LET notified(c, d) ==
        /\ d \in D
        /\ agentOf[d] # NoAgent
        /\ agentSocket[agentOf[d]] = c
        /\ c \in open
        /\ Read(c)
  IN  wire' = [c \in Connections |-> [d \in Devices |->
                 IF notified(c, d) THEN Append(wire[c][d], OccupancyEnded(occupant[d]))
                 ELSE wire[c][d]]]

Release(d, g) ==
  /\ Server!ReleaseRequest(d, g)
  /\ Notify({d})
  /\ UNCHANGED <<link, results, executorVars>>

(* Mutant: the idle sweep does not tell the listeners. *)
IdleSweepQuietly ==
  /\ Server!IdleSweep
  /\ UNCHANGED <<link, wire, results, executorVars>>

IdleSweep ==
  /\ Server!IdleSweep
  /\ Notify(Registry!IdleDevices)
  /\ UNCHANGED <<link, results, executorVars>>

StaleSweep ==
  /\ Server!StaleSweep
  /\ Notify({d \in Registry!StaleDevices : occupant[d] # NoGeneration})
  /\ UNCHANGED <<link, results, executorVars>>

SendCommand(r, d, g, kind) ==
  LET c == agentSocket[agentOf[d]]
  IN  /\ Server!CommandSent(r, d, g, kind)
      /\ wire' = IF Read(c) THEN [wire EXCEPT ![c][d] = Append(@, Command(r, g))] ELSE wire
      /\ UNCHANGED <<link, results, executorVars>>

(* Server steps that send nothing on this path. *)
ServerOnly ==
  /\ \/ \E d \in Devices : Server!OccupyRequest(d)
     \/ \E d \in Devices, g \in Generations : Server!RenewRequest(d, g)
     \/ \E r \in Requests, d \in Devices, g \in Generations, kind \in Server!ActionKinds :
          Server!CommandRejected(r, d, g, kind)
     \/ \E p \in pending : Server!CommandTimesOut(p)
     \/ \E c \in Connections : \/ Server!SocketCloses(c)
                               \/ Server!AgentDisconnects(c)
                               \/ Server!ReplacedSocketGone(c)
     \/ Server!Crash
  /\ UNCHANGED <<link, wire, results, executorVars>>

(* Registrations and heartbeats name devices of the agent's host; this agent
   declares every action kind. *)
AgentReports(c) ==
  /\ Server!Current(c)
  /\ \E D \in SUBSET Attached[peer[c]] :
       \/ Server!RegisterArrives(c, D, Server!ActionKinds)
       \/ Server!HeartbeatArrives(c, D)
  /\ UNCHANGED <<link, wire, results, executorVars>>

(* The result of a socket that was replaced, or of a command nobody waits for
   any more, is dropped. *)
ResultArrives(m) ==
  /\ m \in results
  /\ results' = results \ {m}
  /\ \/ Server!ResultArrives(m.conn, m.req)
     \/ /\ ~(Server!Current(m.conn) /\
              \E p \in pending : p.req = m.req /\ p.agent = peer[m.conn])
        /\ UNCHANGED serverVars
  /\ UNCHANGED <<link, wire, executorVars>>

-------------------------------------------------------------------------------
(* The agent's tunnel. *)

(* ServerTunnel.connect, on a socket of its own. *)
AgentConnects(a, c) ==
  /\ link[a] = NoConnection
  /\ ~Read(c)
  /\ \A m \in results : m.conn # c
  /\ Server!AgentConnects(a, c)
  /\ link' = [link EXCEPT ![a] = c]
  /\ UNCHANGED <<wire, results, executorVars>>

(* The close event of the agent's socket, or its pong timeout, whatever the
   server thinks of the connection: revokeAllOccupations. *)
LoseTunnel(a) ==
  /\ link[a] # NoConnection
  /\ link' = [link EXCEPT ![a] = NoConnection]
  /\ wire' = [wire EXCEPT ![link[a]] = EmptyWire]
  /\ occupations' = [occupations EXCEPT ![a] = NoOccupations]
  /\ UNCHANGED <<serverVars, results, queue, running, newest, revoked>>

(* The agent process dies; its supervisor starts it again. *)
AgentRestarts(a) ==
  /\ link' = [link EXCEPT ![a] = NoConnection]
  /\ wire' = [c \in Connections |-> IF c = link[a] THEN EmptyWire ELSE wire[c]]
  /\ occupations' = [occupations EXCEPT ![a] = NoOccupations]
  /\ queue' = [queue EXCEPT ![a] = EmptyWire]
  /\ running' = [running EXCEPT ![a] = [d \in Devices |-> NoRequest]]
  /\ UNCHANGED <<serverVars, results, newest, revoked>>

(* commandResult, sent on the socket of the moment; lost when there is none. *)
Reply(a, r) ==
  results' = results \union
    {[conn |-> c, req |-> r] : c \in {link[a]} \ {NoConnection}}

-------------------------------------------------------------------------------
(* CommandExecutor.  ws may emit several messages of a chunk before a promise
   reaction runs, so a message can be handled before the head of an idle queue
   has started. *)
Arrives(a, d, type) ==
  /\ link[a] # NoConnection
  /\ wire[link[a]][d] # <<>>
  /\ Head(wire[link[a]][d]).type = type
  /\ wire' = [wire EXCEPT ![link[a]][d] = Tail(@)]

Message(a, d) == Head(wire[link[a]][d])

Busy(a, d) == running[a][d] # NoRequest

(* queueDepths: commands waiting or executing. *)
Depth(a, d) == Len(queue[a][d]) + (IF Busy(a, d) THEN 1 ELSE 0)

AcceptCommand(a, d) ==
  /\ Arrives(a, d, "command")
  /\ Depth(a, d) < MaxQueueDepth
  /\ occupations' = [occupations EXCEPT ![a][d] = Message(a, d).gen]
  /\ queue' = [queue EXCEPT ![a][d] =
       Append(@, [req |-> Message(a, d).req, gen |-> Message(a, d).gen,
                  conn |-> link[a], age |-> 0])]
  /\ newest' = [newest EXCEPT ![d] = IF @ < Message(a, d).gen THEN Message(a, d).gen ELSE @]
  /\ UNCHANGED <<serverVars, link, results, running, revoked>>

(* No controller, controller not ready, or queue full.  The first two depend on
   the supervisor, so a refusal is possible at any depth. *)
RefuseCommand(a, d) ==
  /\ Arrives(a, d, "command")
  /\ Reply(a, Message(a, d).req)
  /\ UNCHANGED <<serverVars, link, executorVars>>

(* Mutant: the comparison of revokeOccupation the wrong way round. *)
TakeNoticeSwapped(a, d) ==
  LET g == Message(a, d).gen
  IN  /\ Arrives(a, d, "occupancyEnded")
      /\ occupations' = [occupations EXCEPT ![a][d] = IF @ # g THEN NoGeneration ELSE @]
      /\ revoked' = [revoked EXCEPT ![a] = @ \union {g}]
      /\ UNCHANGED <<serverVars, link, results, queue, running, newest>>

(* revokeOccupation *)
TakeNotice(a, d) ==
  LET g == Message(a, d).gen
  IN  /\ Arrives(a, d, "occupancyEnded")
      /\ occupations' = [occupations EXCEPT ![a][d] = IF @ = g THEN NoGeneration ELSE @]
      /\ revoked' = [revoked EXCEPT ![a] = @ \union {g}]
      /\ UNCHANGED <<serverVars, link, results, queue, running, newest>>

Stale(item) == item.age > QueueStale

(* Mutant: the generation is not checked again before the command starts. *)
StartableIfFresh(a, d) == ~Stale(Head(queue[a][d]))

Startable(a, d) ==
  LET item == Head(queue[a][d])
  IN  ~Stale(item) /\ occupations[a][d] = item.gen

(* The turn of the command at the head of a queue. *)
NextInQueue(a, d) ==
  /\ ~Busy(a, d)
  /\ queue[a][d] # <<>>
  /\ queue' = [queue EXCEPT ![a][d] = Tail(@)]

StartCommand(a, d) ==
  /\ NextInQueue(a, d)
  /\ Startable(a, d)
  /\ running' = [running EXCEPT ![a][d] = Head(queue[a][d]).req]
  /\ UNCHANGED <<serverVars, link, wire, results, occupations, newest, revoked>>

DiscardCommand(a, d) ==
  /\ NextInQueue(a, d)
  /\ ~Startable(a, d)
  /\ Reply(a, Head(queue[a][d]).req)
  /\ UNCHANGED <<serverVars, link, wire, occupations, running, newest, revoked>>

(* The controller answered, failed or timed out. *)
FinishCommand(a, d) ==
  /\ Busy(a, d)
  /\ Reply(a, running[a][d])
  /\ running' = [running EXCEPT ![a][d] = NoRequest]
  /\ UNCHANGED <<serverVars, link, wire, occupations, queue, newest, revoked>>

Tick ==
  /\ Server!Tick
  /\ queue' = [a \in Agents |-> [d \in Devices |->
       [i \in DOMAIN queue[a][d] |->
          [queue[a][d][i] EXCEPT !.age = Registry!Older(@, QueueStale + 1)]]]]
  /\ UNCHANGED <<link, wire, results, occupations, running, newest, revoked>>

-------------------------------------------------------------------------------
ServerStep ==
  \/ \E d \in Devices, g \in Generations : Release(d, g)
  \/ IdleSweep
  \/ StaleSweep
  \/ \E r \in Requests, d \in Devices, g \in Generations, kind \in Server!ActionKinds :
       SendCommand(r, d, g, kind)
  \/ ServerOnly
  \/ \E c \in Connections : AgentReports(c)
  \/ \E m \in results : ResultArrives(m)

ExecutorStep(a, d) ==
  \/ AcceptCommand(a, d)
  \/ RefuseCommand(a, d)
  \/ TakeNotice(a, d)
  \/ StartCommand(a, d)
  \/ DiscardCommand(a, d)
  \/ FinishCommand(a, d)

AgentStep(a) ==
  \/ \E c \in Connections : AgentConnects(a, c)
  \/ LoseTunnel(a)
  \/ AgentRestarts(a)
  \/ \E d \in Attached[a] : ExecutorStep(a, d)

Next == ServerStep \/ (\E a \in Agents : AgentStep(a)) \/ Tick

Spec == Init /\ [][Next]_vars

-------------------------------------------------------------------------------
(* The tunnel of a as both ends see it. *)
Healthy(a) == link[a] # NoConnection /\ agentSocket[a] = link[a] /\ link[a] \in open

(* While the tunnel is up, a generation the executor takes for current either
   holds the device or has its end notice on the wire: on a working connection
   an input of a past occupant can only be started in the notice's flight time. *)
NoticeCovers ==
  \A a \in Agents : \A d \in Attached[a] :
    LET g == occupations[a][d]
    IN  Healthy(a) /\ g # NoGeneration =>
          \/ occupant[d] = g
          \/ OccupancyEnded(g) \in ToSet(wire[link[a]][d])

(* No ghost input after the hand-over: once the host has accepted a command of a
   later generation, no waiting command of an earlier one is started, whatever
   was queued, lost, refused or cut off in between. *)
HandoverOrder ==
  [][\A a \in Agents, d \in Devices :
       StartCommand(a, d) => Head(queue[a][d]).gen >= newest[d]]_vars

(* The end notice of an occupation is final: no command that was still on its
   way, no retry and no reconnection makes the executor take that generation
   for current again, so none of its waiting commands is executed any more. *)
RevokedStaysRevoked ==
  \A a \in Agents, d \in Devices : occupations[a][d] \notin revoked[a]

(* main.ts: the tunnel's loss discards what waits in the queue; after the
   reconnection only new commands are valid. *)
OnlyCommandsOfThisTunnel ==
  [][\A a \in Agents, d \in Devices :
       StartCommand(a, d) => Head(queue[a][d]).conn = link[a]]_vars
===============================================================================
