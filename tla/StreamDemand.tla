----------------------------- MODULE StreamDemand -----------------------------
(***************************************************************************)
(* Who sends frames: the viewers of StreamsRelayService, the demand        *)
(* snapshots AgentsGateway sends when a device gains its first or loses    *)
(* its last viewer and after every registration, and the StreamDemandGate  *)
(* of each agent that drops the frames of devices nobody watches.          *)
(*                                                                         *)
(* The server is FarmServer without commands.  A snapshot is the full list *)
(* of watched devices of one agent.  Frames themselves carry no state; the *)
(* question is for which devices the gate lets them through.               *)
(***************************************************************************)
EXTENDS Naturals, Sequences, SequencesExt, FiniteSets

CONSTANTS
  Devices, Agents, NoAgent, HeartbeatTimeout, OccupationTtl, MaxGenerations,
  Connections, NoConnection, Viewers, CommandTimeout, MaxCrashes,
  Attached,      \* agent -> the devices its host may discover
  MaxInFlight    \* bound: snapshots on their way on one socket

ASSUME DemandAssumption ==
  /\ NoAgent \notin Agents
  /\ NoConnection \notin Connections
  /\ Attached \in [Agents -> SUBSET Devices]
  /\ MaxInFlight \in Nat \ {0}
  /\ IsFiniteSet(Devices)

VARIABLES
  status, agentOf, occupant, heartbeatAge, idleAge, nextGen,
  agentSocket, peer, open, capabilities, viewers, crashes,
  link,    \* agent -> the socket its tunnel is using
  wire,    \* socket -> snapshots sent and not yet read
  demanded,      \* gate: agent -> devices of the last snapshot
  hasSnapshot    \* gate: agents that saw a snapshot on this connection

serverVars == <<status, agentOf, occupant, heartbeatAge, idleAge, nextGen,
                agentSocket, peer, open, capabilities, viewers, crashes>>
gateVars == <<demanded, hasSnapshot>>
vars == <<serverVars, link, wire, gateVars>>

Server == INSTANCE FarmServer WITH Requests <- {}, pending <- {}, answer <- <<>>
Registry == INSTANCE DeviceRegistry

Generations == Registry!Issued

TypeOK ==
  /\ Server!TypeOK
  /\ link \in [Agents -> Connections \union {NoConnection}]
  /\ wire \in [Connections -> Seq(SUBSET Devices)]
  /\ demanded \in [Agents -> SUBSET Devices]
  /\ hasSnapshot \in SUBSET Agents

Init ==
  /\ Server!Init
  /\ link = [a \in Agents |-> NoConnection]
  /\ wire = [c \in Connections |-> <<>>]
  /\ demanded = [a \in Agents |-> {}]
  /\ hasSnapshot = {}

-------------------------------------------------------------------------------
(* viewedDeviceIds *)
Viewed == {v.device : v \in viewers}

Read(c) == \E a \in Agents : link[a] = c

(* Is what the server writes to the current socket of its agent read? *)
Receives(c) == Server!Current(c) /\ c \in open /\ Read(c)

(* Devices that gain their first or lose their last viewer in this step. *)
Edges == (Viewed \ Viewed') \union (Viewed' \ Viewed)

EdgesOf(a) == {d \in Edges : agentOf[d] = a}

(* The orders in which the viewed devices of each agent can change. *)
Orders ==
  {order \in [Agents -> UNION {SetToSeqs(D) : D \in SUBSET Edges}] :
     \A a \in Agents : order[a] \in SetToSeqs(EdgesOf(a))}

(* The watched devices of a, and once those in changed have changed. *)
Watched(a) == {d \in Viewed : agentOf[d] = a}
After(a, changed) == (Watched(a) \ changed) \union (changed \ Watched(a))

(* Mutant: only the first viewer of a device is announced. *)
AnnounceArrivals ==
  \E order \in Orders :
    /\ wire' = [c \in Connections |->
         IF Receives(c) /\ EdgesOf(peer[c]) \subseteq Viewed'
         THEN wire[c] \o [n \in DOMAIN order[peer[c]] |->
                            After(peer[c], {order[peer[c]][k] : k \in 1..n})]
         ELSE wire[c]]
    /\ \A c \in Connections : Len(wire'[c]) <= MaxInFlight

(* notifyDemandChanged, for one device after the other: its agent is sent the
   list of its watched devices as it is at that moment. *)
Announce ==
  \E order \in Orders :
    /\ wire' = [c \in Connections |->
         IF Receives(c)
         THEN wire[c] \o [n \in DOMAIN order[peer[c]] |->
                            After(peer[c], {order[peer[c]][k] : k \in 1..n})]
         ELSE wire[c]]
    /\ \A c \in Connections : Len(wire'[c]) <= MaxInFlight

(* addViewer, removeViewer, and closeViewers through StreamRevocationListener,
   for every way an occupation ends. *)
ViewersChange ==
  /\ \/ \E v \in Viewers, d \in Devices, g \in Generations : Server!ViewerConnects(v, d, g)
     \/ \E v \in Viewers : Server!ViewerCloses(v)
     \/ \E d \in Devices, g \in Generations : Server!ReleaseRequest(d, g)
     \/ Server!IdleSweep
     \/ Server!StaleSweep
  /\ Announce
  /\ UNCHANGED <<link, gateVars>>

(* A registration makes the agent the owner of what it lists, and is answered
   by a snapshot. *)
Register(c) ==
  /\ Server!Current(c)
  /\ \E D \in SUBSET Attached[peer[c]] : Server!RegisterArrives(c, D, Server!ActionKinds)
  /\ wire' = IF Receives(c)
             THEN [wire EXCEPT ![c] = Append(@, {d \in Viewed : agentOf'[d] = peer[c]})]
             ELSE wire
  /\ Len(wire'[c]) <= MaxInFlight
  /\ UNCHANGED <<link, gateVars>>

(* Server steps after which nobody is told anything. *)
ServerOnly ==
  /\ \/ \E d \in Devices : Server!OccupyRequest(d)
     \/ \E d \in Devices, g \in Generations : Server!RenewRequest(d, g)
     \/ \E c \in Connections : \/ Server!SocketCloses(c)
                               \/ Server!AgentDisconnects(c)
                               \/ Server!ReplacedSocketGone(c)
     \/ \E c \in Connections : \E D \in SUBSET Devices : Server!HeartbeatArrives(c, D)
     \/ Server!Tick
     \/ Server!Crash
  /\ UNCHANGED <<link, wire, gateVars>>

-------------------------------------------------------------------------------
(* The agent. *)
AgentConnects(a, c) ==
  /\ link[a] = NoConnection
  /\ ~Read(c)
  /\ Server!AgentConnects(a, c)
  /\ link' = [link EXCEPT ![a] = c]
  /\ UNCHANGED <<wire, gateVars>>

(* The close event of the agent's socket, or a restart of the agent: the gate
   is reset, which opens it. *)
LoseTunnel(a) ==
  /\ link[a] # NoConnection
  /\ link' = [link EXCEPT ![a] = NoConnection]
  /\ wire' = [wire EXCEPT ![link[a]] = <<>>]
  /\ demanded' = [demanded EXCEPT ![a] = {}]
  /\ hasSnapshot' = hasSnapshot \ {a}
  /\ UNCHANGED serverVars

(* Mutant: the first snapshot of a connection is kept. *)
ApplyOnce(a, S) ==
  /\ demanded' = [demanded EXCEPT ![a] = IF a \in hasSnapshot THEN @ ELSE S]
  /\ hasSnapshot' = hasSnapshot \union {a}

(* StreamDemandGate.apply *)
Apply(a, S) ==
  /\ demanded' = [demanded EXCEPT ![a] = S]
  /\ hasSnapshot' = hasSnapshot \union {a}

TakeSnapshot(a) ==
  /\ link[a] # NoConnection
  /\ wire[link[a]] # <<>>
  /\ Apply(a, Head(wire[link[a]]))
  /\ wire' = [wire EXCEPT ![link[a]] = Tail(@)]
  /\ UNCHANGED <<serverVars, link>>

(* StreamDemandGate.shouldSend: before the first snapshot everything is sent. *)
ShouldSend(a, d) == a \notin hasSnapshot \/ d \in demanded[a]

Next ==
  \/ ViewersChange
  \/ \E c \in Connections : Register(c)
  \/ ServerOnly
  \/ \E a \in Agents, c \in Connections : AgentConnects(a, c)
  \/ \E a \in Agents : LoseTunnel(a) \/ TakeSnapshot(a)

Spec == Init /\ [][Next]_vars

(* The tunnel of a as both ends see it. *)
Healthy(a) == link[a] # NoConnection /\ agentSocket[a] = link[a] /\ link[a] \in open

(* A working tunnel delivers. *)
Fairness == \A a \in Agents : WF_vars(Healthy(a) /\ TakeSnapshot(a))

FairSpec == Spec /\ Fairness

-------------------------------------------------------------------------------
(* Has a been sent a snapshot, and what is in the last one, on its way or taken? *)
Told(a) == wire[link[a]] # <<>> \/ a \in hasSnapshot
Latest(a) == IF wire[link[a]] = <<>> THEN demanded[a] ELSE Last(wire[link[a]])

(* On a working tunnel the last snapshot an agent was sent is right about every
   device the agent owns: no way for a first or a last viewer, for a device to
   change hands, or for either process to lose the connection leaves a gate
   closed on a viewer, or open for nobody, with no correction under way. *)
LatestIsRight ==
  \A a \in Agents :
    Healthy(a) /\ Told(a) =>
      \A d \in Devices : agentOf[d] = a => (d \in Latest(a) <=> d \in Viewed)

Owner(a, d) == Healthy(a) /\ agentOf[d] = a

(* Who watches a device gets its frames: whatever the gate missed on an earlier
   connection, it opens while the agent stays the owner on a working tunnel.
   And the other way round, once the agent was told anything at all: frames of
   a device nobody watches stop using the uplink that answers share. *)
GateFollowsDemand ==
  \A a \in Agents, d \in Devices :
    /\ (Owner(a, d) /\ d \in Viewed) ~> (ShouldSend(a, d) \/ ~Owner(a, d) \/ d \notin Viewed)
    /\ (Owner(a, d) /\ d \notin Viewed /\ a \in hasSnapshot)
         ~> (~ShouldSend(a, d) \/ ~Owner(a, d) \/ d \in Viewed)
===============================================================================
