-------------------------- MODULE StreamDemandProofs --------------------------
(***************************************************************************)
(* Proofs about StreamDemand, for any agents, sockets and viewers and any  *)
(* finite set of devices.  The inductive invariant is DemandInv: next to   *)
(* LatestIsRight itself it says whose socket is whose, because the server  *)
(* and the agent learn of a lost connection at different times.            *)
(***************************************************************************)
EXTENDS StreamDemand, FiniteSetTheorems, SequenceTheorems, TLAPS

(* Every field has the type its readers rely on. *)
Fields ==
  /\ agentOf \in [Devices -> Agents \union {NoAgent}]
  /\ agentSocket \in [Agents -> Connections \union {NoConnection}]
  /\ peer \in [Connections -> Agents \union {NoAgent}]
  /\ Viewed \subseteq Devices
  /\ link \in [Agents -> Connections \union {NoConnection}]
  /\ wire \in [Connections -> Seq(SUBSET Devices)]
  /\ demanded \in [Agents -> SUBSET Devices]
  /\ hasSnapshot \in SUBSET Agents

(* A socket has one reader, which the server knows as its agent or not at all;
   nothing is left on a socket nobody reads, nor of a connection that is gone. *)
Tunnels ==
  /\ \A a, b \in Agents : link[a] = link[b] /\ link[a] # NoConnection => a = b
  /\ \A c \in Connections : wire[c] # <<>> => Read(c)
  /\ \A a \in Agents : link[a] = NoConnection => a \notin hasSnapshot
  /\ \A a \in Agents : link[a] # NoConnection => peer[link[a]] \in {a, NoAgent}
  /\ \A a \in Agents : agentSocket[a] # NoConnection => peer[agentSocket[a]] = a

DemandInv == Fields /\ Tunnels /\ LatestIsRight

-------------------------------------------------------------------------------
(* What a step does to the sockets of the server: nothing, give an agent that
   has no tunnel a new one, or take some away. *)
SocketsSame == UNCHANGED <<agentSocket, peer, open>>

Connecting(a, c) ==
  /\ link[a] = NoConnection /\ ~Read(c) /\ peer[c] = NoAgent
  /\ peer' = [peer EXCEPT ![c] = a]
  /\ agentSocket' = [agentSocket EXCEPT ![a] = c]
  /\ open' = (open \ {agentSocket[a]}) \union {c}

Closing ==
  /\ open' \subseteq open
  /\ agentSocket' \in [Agents -> Connections \union {NoConnection}]
  /\ peer' \in [Connections -> Agents \union {NoAgent}]
  /\ \A c \in Connections : peer'[c] \in {peer[c], NoAgent}
  /\ \A a \in Agents : agentSocket'[a] # NoConnection =>
       agentSocket'[a] = agentSocket[a] /\ peer'[agentSocket[a]] = peer[agentSocket[a]]

(* A step nobody is told of: neither what is watched nor what is owned changes
   for an agent whose tunnel still works. *)
Quiet ==
  /\ UNCHANGED <<link, wire, gateVars>>
  /\ SocketsSame \/ Closing
  /\ agentOf' \in [Devices -> Agents \union {NoAgent}]
  /\ Viewed' \subseteq Viewed
  /\ \A a \in Agents : Healthy(a)' =>
       \A d \in Devices : agentOf'[d] = a =>
         agentOf[d] = a /\ (d \in Viewed' <=> d \in Viewed)

(* Operations of the registry that leave the owners of devices alone. *)
LEMMA OwnersKept ==
  ASSUME \/ \E d \in Devices : Server!Registry!Occupy(d)
         \/ \E d \in Devices, g \in Generations :
              Server!Registry!Release(d, g) \/ Server!Registry!Renew(d, g)
         \/ \E a, D : Server!Registry!Heartbeat(a, D)
         \/ Server!Registry!ExpireIdle \/ Server!Registry!MarkStaleOffline
         \/ Server!Registry!Tick
  PROVE  agentOf' = agentOf
BY DEF Server!Registry!Occupy, Server!Registry!Release, Server!Registry!Renew,
   Server!Registry!Heartbeat, Server!Registry!ExpireIdle, Server!Registry!MarkStaleOffline,
   Server!Registry!Tick

(* The server steps after which nobody is told anything are quiet. *)
LEMMA ServerOnlyQuiet ==
  ASSUME DemandInv, ServerOnly PROVE Quiet
<1> USE DemandAssumption DEF Quiet
<1>0. /\ agentOf \in [Devices -> Agents \union {NoAgent}]
      /\ agentSocket \in [Agents -> Connections \union {NoConnection}]
      /\ peer \in [Connections -> Agents \union {NoAgent}]
      /\ UNCHANGED <<link, wire, gateVars>>
  BY DEF DemandInv, Fields, ServerOnly
<1>1. ASSUME SocketsSame, agentOf' = agentOf, viewers' = viewers PROVE Quiet
  BY <1>0, <1>1 DEF SocketsSame, Healthy, Viewed
<1>2. ASSUME \/ \E d \in Devices : Server!OccupyRequest(d)
             \/ \E d \in Devices, g \in Generations : Server!RenewRequest(d, g)
             \/ \E c \in Connections : \E D \in SUBSET Devices : Server!HeartbeatArrives(c, D)
             \/ Server!Tick
      PROVE  Quiet
  <2>1. SocketsSame /\ viewers' = viewers
    BY <1>2 DEF SocketsSame, Server!OccupyRequest, Server!RenewRequest,
       Server!HeartbeatArrives, Server!Tick, Server!socketVars
  <2>2. agentOf' = agentOf
    BY <1>2, OwnersKept DEF Server!OccupyRequest, Server!RenewRequest,
       Server!HeartbeatArrives, Server!Tick
  <2> QED
    BY <1>1, <2>1, <2>2
<1>3. ASSUME NEW c \in Connections, Server!SocketCloses(c) PROVE Quiet
  <2>1. Closing
    BY <1>0, <1>3 DEF Closing, Server!SocketCloses
  <2>2. agentOf' = agentOf /\ Viewed' = Viewed
    BY <1>3 DEF Server!SocketCloses, Server!registryVars, Viewed
  <2>3. \A a \in Agents : Healthy(a)' => Healthy(a)
    BY <1>0, <1>3 DEF Healthy, Server!SocketCloses
  <2> QED
    BY <1>0, <2>1, <2>2, <2>3
<1>4. ASSUME NEW c \in Connections, Server!ReplacedSocketGone(c) PROVE Quiet
  <2>1. Closing
    <3>1. \A a \in Agents : agentSocket[a] # NoConnection => agentSocket[a] # c
      BY <1>4 DEF Server!ReplacedSocketGone, Server!Current, DemandInv, Tunnels
    <3> QED
      BY <1>0, <1>4, <3>1 DEF Closing, Server!ReplacedSocketGone
  <2>2. agentOf' = agentOf /\ Viewed' = Viewed
    BY <1>4 DEF Server!ReplacedSocketGone, Server!registryVars, Viewed
  <2> QED
    BY <1>0, <2>1, <2>2
<1>5. ASSUME NEW c \in Connections, Server!AgentDisconnects(c) PROVE Quiet
  <2> DEFINE a == peer[c]
  <2>1. a \in Agents /\ agentSocket[a] = c
    BY <1>0, <1>5 DEF Server!AgentDisconnects, Server!Current
  <2>2. Closing
    <3>1. \A b \in Agents : agentSocket[b] = c => b = a
      BY DEF DemandInv, Tunnels
    <3> QED
      BY <1>0, <1>5, <2>1, <3>1 DEF Closing, Server!AgentDisconnects
  <2>3. /\ Viewed' = Viewed
        /\ agentOf' = [d \in Devices |-> IF agentOf[d] = a THEN NoAgent ELSE agentOf[d]]
    BY <1>5 DEF Server!AgentDisconnects, Server!Registry!MarkAgentOffline, Viewed
  <2> QED
    BY <1>0, <2>2, <2>3
<1>6. CASE Server!Crash
  <2>1. \A a \in Agents : agentSocket'[a] = NoConnection
    BY <1>6 DEF Server!Crash
  <2>2. \A a \in Agents : ~Healthy(a)'
    BY <2>1 DEF Healthy
  <2>3. Closing
    BY <1>6, <2>1 DEF Closing, Server!Crash
  <2>4. agentOf' = agentOf /\ Viewed' = {}
    BY <1>6 DEF Server!Crash, Server!registryVars, Viewed
  <2> QED
    BY <1>0, <2>2, <2>3, <2>4
<1> QED
  BY <1>2, <1>3, <1>4, <1>5, <1>6 DEF ServerOnly

(* A quiet step keeps the invariant. *)
LEMMA QuietKeeps ==
  ASSUME DemandInv, Quiet PROVE DemandInv'
<1> USE DemandAssumption DEF DemandInv, Quiet
<1>1. Fields'
  <2>1. Viewed' \subseteq Devices
    BY DEF Fields
  <2> QED
    BY <2>1 DEF Fields, gateVars, SocketsSame, Closing
<1>2. Tunnels'
  <2>1. \A c \in Connections : peer'[c] \in {peer[c], NoAgent}
    BY DEF SocketsSame, Closing, Fields
  <2>2. \A a \in Agents : agentSocket'[a] # NoConnection => peer'[agentSocket'[a]] = a
    BY DEF SocketsSame, Closing, Tunnels
  <2>3. /\ \A a, b \in Agents : link'[a] = link'[b] /\ link'[a] # NoConnection => a = b
        /\ \A c \in Connections : wire'[c] # <<>> => Read(c)'
        /\ \A a \in Agents : link'[a] = NoConnection => a \notin hasSnapshot'
    BY DEF Tunnels, gateVars, Read
  <2>4. \A a \in Agents : link'[a] # NoConnection => peer'[link'[a]] \in {a, NoAgent}
    BY <2>1 DEF Tunnels, Fields
  <2> QED
    BY <2>2, <2>3, <2>4 DEF Tunnels
<1>3. LatestIsRight'
  <2> SUFFICES ASSUME NEW a \in Agents, Healthy(a)', Told(a)', NEW d \in Devices, agentOf'[d] = a
               PROVE  d \in Latest(a)' <=> d \in Viewed'
    BY DEF LatestIsRight
  <2>1. Healthy(a)
    BY DEF Healthy, SocketsSame, Closing
  <2>2. agentOf[d] = a /\ (d \in Viewed' <=> d \in Viewed)
    OBVIOUS
  <2>3. Told(a) /\ Latest(a)' = Latest(a)
    BY DEF Told, Latest, gateVars
  <2> QED
    BY <2>1, <2>2, <2>3 DEF LatestIsRight
<1> QED
  BY <1>1, <1>2, <1>3

-------------------------------------------------------------------------------
(* An order of a finite set lists all of it. *)
LEMMA OrderLists ==
  ASSUME NEW S, IsFiniteSet(S), NEW order \in SetToSeqs(S)
  PROVE  /\ DOMAIN order = 1..Cardinality(S)
         /\ Cardinality(S) \in Nat
         /\ {order[k] : k \in 1..Cardinality(S)} = S
         /\ Cardinality(S) = 0 => S = {}
<1> DEFINE D == 1..Cardinality(S)
<1>1. Cardinality(S) \in Nat
  BY FS_CardinalityType
<1>2. order \in Injection(D, S)
  BY DEF SetToSeqs, Injection, IsInjective
<1>3. Cardinality(D) = Cardinality(S)
  BY <1>1, FS_Interval
<1>4. order \in Surjection(D, S)
  BY <1>2, <1>3, FS_Injection
<1>5. order \in [D -> S] /\ \A x \in S : \E k \in D : order[k] = x
  BY <1>4 DEF Surjection
<1>6. Cardinality(S) = 0 => D = {}
  BY <1>1
<1> QED
  BY <1>1, <1>5, <1>6

(* The devices that change are devices. *)
LEMMA EdgesFinite ==
  ASSUME Viewed \subseteq Devices, Viewed' \subseteq Devices, NEW a
  PROVE  IsFiniteSet(EdgesOf(a)) /\ EdgesOf(a) \subseteq Devices
<1>1. EdgesOf(a) \in SUBSET Devices
  BY DEF EdgesOf, Edges
<1> QED
  BY <1>1, FS_Subset, DemandAssumption

(* What one socket is sent, and that the last snapshot is of what is watched. *)
Updated(c, sent, D) ==
  /\ sent \in Seq(SUBSET Devices)
  /\ wire'[c] = wire[c] \o sent
  /\ sent # <<>> => sent[Len(sent)] = D

(* After the changes of its devices an agent that reads its current socket was
   sent, last, the list of what is watched now. *)
LEMMA AnnounceUpdates ==
  ASSUME Fields, Viewed' \subseteq Devices, Announce, NEW c \in Connections, Receives(c)
  PROVE  \E sent : /\ Updated(c, sent, {d \in Viewed' : agentOf[d] = peer[c]})
                   /\ sent = <<>> => EdgesOf(peer[c]) = {}
<1> DEFINE a == peer[c]
           S == EdgesOf(a)
           n == Cardinality(S)
<1>1. a \in Agents
  BY DEF Receives, Server!Current, Fields
<1>2. IsFiniteSet(S) /\ S \subseteq Devices
  BY EdgesFinite DEF Fields
<1>3. PICK order \in Orders :
        wire' = [e \in Connections |->
          IF Receives(e)
          THEN wire[e] \o [k \in DOMAIN order[peer[e]] |->
                             After(peer[e], {order[peer[e]][i] : i \in 1..k})]
          ELSE wire[e]]
  BY DEF Announce
<1> DEFINE o == order[a]
           sent == [k \in DOMAIN o |-> After(a, {o[i] : i \in 1..k})]
<1>4. o \in SetToSeqs(S)
  BY <1>1 DEF Orders
<1>5. /\ DOMAIN o = 1..n
      /\ n \in Nat
      /\ {o[k] : k \in 1..n} = S
      /\ n = 0 => S = {}
  BY <1>2, <1>4, OrderLists
<1>6. \A k \in 1..n : After(a, {o[i] : i \in 1..k}) \in SUBSET Devices
  <2> TAKE k \in 1..n
  <2>1. {o[i] : i \in 1..k} \subseteq S
    <3>1. 1..k \subseteq 1..n
      BY <1>5
    <3> QED
      BY <1>5, <3>1
  <2>2. Watched(a) \subseteq Devices
    BY DEF Watched, Fields
  <2> QED
    BY <1>2, <2>1, <2>2 DEF After
<1>7. sent \in Seq(SUBSET Devices) /\ Len(sent) = n
  <2>1. sent \in [1..n -> SUBSET Devices] /\ n \in Nat
    BY <1>5, <1>6
  <2> HIDE DEF sent, n
  <2> QED
    BY <2>1
<1>8. wire'[c] = wire[c] \o sent
  BY <1>3
<1>9. After(a, S) = {d \in Viewed' : agentOf[d] = a}
  BY DEF After, Watched, EdgesOf, Edges
<1>10. sent # <<>> => sent[Len(sent)] = After(a, S)
  <2>1. CASE n = 0
    BY <1>7, <2>1
  <2>2. CASE n # 0
    <3>1. n \in 1..n
      BY <1>5, <2>2
    <3>2. sent[n] = After(a, {o[i] : i \in 1..n})
      BY <1>5, <3>1
    <3> QED
      BY <1>5, <1>7, <3>2
  <2> QED
    BY <2>1, <2>2
<1>11. sent = <<>> => S = {}
  BY <1>5, <1>7
<1> HIDE DEF sent
<1> QED
  BY <1>7, <1>8, <1>9, <1>10, <1>11 DEF Updated

(* The last message of a wire that got new ones. *)
LEMMA LastSent ==
  ASSUME NEW T, NEW s \in Seq(T), NEW t \in Seq(T), t # <<>>
  PROVE  s \o t # <<>> /\ Last(s \o t) = t[Len(t)]
<1>1. Len(t) \in Nat \ {0} /\ Len(s) \in Nat /\ Len(s \o t) = Len(s) + Len(t)
  OBVIOUS
<1> QED
  BY <1>1 DEF Last

(* The last message of a wire the first was taken from. *)
LEMMA LastOfRest ==
  ASSUME NEW T, NEW s \in Seq(T), s # <<>>
  PROVE  IF Tail(s) = <<>> THEN Last(s) = Head(s) ELSE Last(Tail(s)) = Last(s)
<1> DEFINE t == Tail(s)
           m == Len(s)
<1>1. /\ m \in Nat \ {0}
      /\ t \in Seq(T) /\ Len(t) = m - 1
      /\ \A i \in 1..Len(t) : t[i] = s[i + 1]
  BY HeadTailProperties, EmptySeq
<1> HIDE DEF t, m
<1>2. CASE m = 1
  <2>1. t = <<>>
    BY <1>1, <1>2, EmptySeq
  <2> QED
    BY <1>2, <2>1 DEF Last, t, m
<1>3. CASE m # 1
  <2>1. Len(t) \in 1..Len(t) /\ Len(t) # 0
    BY <1>1, <1>3
  <2>2. t # <<>>
    BY <2>1, EmptySeq
  <2>3. t[Len(t)] = s[m]
    BY <1>1, <2>1
  <2> QED
    BY <2>2, <2>3 DEF Last, t, m
<1> QED
  BY <1>2, <1>3 DEF t, m

(* A working tunnel is one the server's snapshots are read from. *)
LEMMA HealthyReceives ==
  ASSUME Fields, Tunnels, NEW a \in Agents, Healthy(a)
  PROVE  /\ link[a] \in Connections
         /\ peer[link[a]] = a
         /\ Receives(link[a])
BY DemandAssumption DEF Fields, Tunnels, Healthy, Receives, Server!Current, Read

(* Snapshots are added where they are read, and nothing else changes: whose
   tunnel is whose stays as it was. *)
LEMMA SendingKeepsTunnels ==
  ASSUME Tunnels, UNCHANGED <<link, gateVars, agentSocket, peer, open>>,
         \A c \in Connections : ~Receives(c) => wire'[c] = wire[c]
  PROVE  Tunnels'
<1>1. \A c \in Connections : wire'[c] # <<>> => Read(c)
  BY DEF Tunnels, Receives
<1> QED
  BY <1>1 DEF Tunnels, Read, gateVars

(* The first viewer of a device comes or the last one goes. *)
LEMMA AnnounceKeeps ==
  ASSUME DemandInv, Announce, Viewed' \subseteq Devices, agentOf' = agentOf, SocketsSame,
         UNCHANGED <<link, gateVars>>
  PROVE  DemandInv'
<1> USE DEF DemandInv
<1>1. /\ DOMAIN wire' = Connections /\ wire' = [c \in Connections |-> wire'[c]]
      /\ \A c \in Connections : ~Receives(c) => wire'[c] = wire[c]
  BY DEF Announce
<1>2. \A c \in Connections : wire'[c] \in Seq(SUBSET Devices)
  <2> SUFFICES ASSUME NEW c \in Connections PROVE wire'[c] \in Seq(SUBSET Devices)
    OBVIOUS
  <2>1. wire[c] \in Seq(SUBSET Devices)
    BY DEF Fields
  <2>2. CASE Receives(c)
    <3>1. PICK sent : Updated(c, sent, {d \in Viewed' : agentOf[d] = peer[c]})
      BY <2>2, AnnounceUpdates
    <3> QED
      BY <2>1, <3>1 DEF Updated
  <2> QED
    BY <1>1, <2>1, <2>2
<1>3. Fields'
  BY <1>1, <1>2 DEF Fields, SocketsSame, gateVars
<1>4. Tunnels'
  BY <1>1, SendingKeepsTunnels DEF SocketsSame
<1>5. LatestIsRight'
  <2> SUFFICES ASSUME NEW a \in Agents, Healthy(a)', Told(a)', NEW d \in Devices, agentOf'[d] = a
               PROVE  d \in Latest(a)' <=> d \in Viewed'
    BY DEF LatestIsRight
  <2> DEFINE c == link[a]
  <2>1. Healthy(a)
    BY DEF Healthy, SocketsSame
  <2>2. c \in Connections /\ peer[c] = a /\ Receives(c)
    BY <2>1, HealthyReceives
  <2>3. PICK sent : /\ Updated(c, sent, {e \in Viewed' : agentOf[e] = peer[c]})
                    /\ sent = <<>> => EdgesOf(peer[c]) = {}
    BY <2>2, AnnounceUpdates
  <2>4. wire[c] \in Seq(SUBSET Devices) /\ sent \in Seq(SUBSET Devices) /\ wire'[c] = wire[c] \o sent
    BY <2>2, <2>3 DEF Fields, Updated
  <2>5. CASE sent = <<>>
    <3>1. wire'[c] = wire[c]
      BY <2>4, <2>5
    <3>2. Told(a) /\ Latest(a)' = Latest(a)
      BY <3>1 DEF Told, Latest, gateVars
    <3>3. d \notin Edges
      BY <2>2, <2>3, <2>5 DEF EdgesOf
    <3>4. d \in Viewed' <=> d \in Viewed
      BY <3>3 DEF Edges
    <3> QED
      BY <2>1, <3>2, <3>4 DEF LatestIsRight
  <2>6. CASE sent # <<>>
    <3>1. wire'[c] # <<>> /\ Last(wire'[c]) = {e \in Viewed' : agentOf[e] = a}
      BY <2>2, <2>3, <2>4, <2>6, LastSent DEF Updated
    <3>2. Latest(a)' = Last(wire'[c])
      BY <3>1 DEF Latest
    <3> QED
      BY <3>1, <3>2
  <2> QED
    BY <2>5, <2>6
<1> QED
  BY <1>3, <1>4, <1>5

(* A registration makes the agent the owner of what it lists and is answered by
   the list of what is watched of it; nobody else gains a device. *)
LEMMA RegisterKeeps ==
  ASSUME DemandInv, NEW c \in Connections, Register(c) PROVE DemandInv'
<1> USE DemandAssumption DEF DemandInv
<1> DEFINE a == peer[c]
           W == {d \in Viewed : agentOf'[d] = a}
<1>1. a \in Agents /\ agentSocket[a] = c
  BY DEF Register, Server!Current, Fields
<1>2. PICK D \in SUBSET Attached[a] : Server!RegisterArrives(c, D, Server!ActionKinds)
  BY DEF Register
<1>3. /\ agentOf' = [d \in Devices |-> IF d \in D THEN a ELSE agentOf[d]]
      /\ SocketsSame /\ viewers' = viewers
      /\ UNCHANGED <<link, gateVars>>
  BY <1>2 DEF Server!RegisterArrives, Server!Registry!Upsert, SocketsSame, Register
<1>4. Viewed' = Viewed /\ W \in SUBSET Devices
  BY <1>3 DEF Viewed, Fields
<1>5. wire' = IF Receives(c) THEN [wire EXCEPT ![c] = Append(@, W)] ELSE wire
  BY DEF Register
<1>6. \A e \in Connections : ~Receives(e) => wire'[e] = wire[e]
  BY <1>5 DEF Fields
<1>7. wire' \in [Connections -> Seq(SUBSET Devices)]
  <2>1. wire \in [Connections -> Seq(SUBSET Devices)]
    BY DEF Fields
  <2>2. Append(wire[c], W) \in Seq(SUBSET Devices)
    BY <1>4, <2>1
  <2> QED
    BY <1>5, <2>1, <2>2
<1>8. Fields'
  BY <1>1, <1>3, <1>4, <1>7 DEF Fields, SocketsSame, gateVars
<1>9. Tunnels'
  BY <1>3, <1>6, SendingKeepsTunnels DEF SocketsSame
<1>10. LatestIsRight'
  <2> SUFFICES ASSUME NEW b \in Agents, Healthy(b)', Told(b)', NEW d \in Devices, agentOf'[d] = b
               PROVE  d \in Latest(b)' <=> d \in Viewed
    BY <1>4 DEF LatestIsRight
  <2>1. Healthy(b)
    BY <1>3 DEF Healthy, SocketsSame
  <2>2. link[b] \in Connections /\ peer[link[b]] = b /\ Receives(link[b])
    BY <2>1, HealthyReceives
  <2>3. CASE b = a
    <3>1. link[b] = c
      BY <1>1, <2>1, <2>3 DEF Healthy
    <3>2. wire[c] \in Seq(SUBSET Devices) /\ wire'[c] = Append(wire[c], W)
      BY <1>5, <2>2, <3>1 DEF Fields
    <3>3. wire'[c] # <<>> /\ Last(wire'[c]) = W
      BY <1>4, <3>2 DEF Last
    <3>4. Latest(b)' = W
      BY <1>3, <3>1, <3>3 DEF Latest
    <3> QED
      BY <2>3, <3>4
  <2>4. CASE b # a
    <3>1. link[b] # c /\ wire'[link[b]] = wire[link[b]]
      BY <1>5, <2>2, <2>4 DEF Fields
    <3>2. Told(b) /\ Latest(b)' = Latest(b)
      BY <1>3, <3>1 DEF Told, Latest, gateVars
    <3>3. agentOf[d] = b
      BY <1>3, <2>4
    <3> QED
      BY <2>1, <3>2, <3>3 DEF LatestIsRight
  <2> QED
    BY <2>3, <2>4
<1> QED
  BY <1>8, <1>9, <1>10

(* A new connection is one the agent was told nothing on yet. *)
LEMMA ConnectKeeps ==
  ASSUME DemandInv, NEW a \in Agents, NEW c \in Connections, AgentConnects(a, c)
  PROVE  DemandInv'
<1> USE DemandAssumption DEF DemandInv
<1>1. /\ link[a] = NoConnection /\ ~Read(c) /\ peer[c] = NoAgent
      /\ peer' = [peer EXCEPT ![c] = a]
      /\ agentSocket' = [agentSocket EXCEPT ![a] = c]
      /\ open' = (open \ {agentSocket[a]}) \union {c}
      /\ link' = [link EXCEPT ![a] = c]
      /\ UNCHANGED <<agentOf, viewers, wire, gateVars>>
  BY DEF AgentConnects, Server!AgentConnects, Server!registryVars
<1>2. Viewed' = Viewed
  BY <1>1 DEF Viewed
<1>3. Fields'
  BY <1>1, <1>2 DEF Fields, gateVars
<1>4. \A b \in Agents : link[b] # c
  BY <1>1 DEF Read
<1>5. wire[c] = <<>> /\ a \notin hasSnapshot
  BY <1>1 DEF Tunnels
<1>6. Tunnels'
  <2>1. \A b, e \in Agents : link'[b] = link'[e] /\ link'[b] # NoConnection => b = e
    BY <1>1, <1>4 DEF Tunnels, Fields
  <2>2. \A e \in Connections : wire'[e] # <<>> => Read(e)'
    <3> SUFFICES ASSUME NEW e \in Connections, wire'[e] # <<>> PROVE Read(e)'
      OBVIOUS
    <3>1. PICK b \in Agents : link[b] = e
      BY <1>1 DEF Tunnels, Read
    <3>2. link'[b] = e
      BY <1>1, <3>1 DEF Fields
    <3> QED
      BY <3>2 DEF Read
  <2>3. \A b \in Agents : link'[b] = NoConnection => b \notin hasSnapshot'
    BY <1>1 DEF Tunnels, Fields, gateVars
  <2>4. \A b \in Agents : link'[b] # NoConnection => peer'[link'[b]] \in {b, NoAgent}
    BY <1>1, <1>4 DEF Tunnels, Fields
  <2>5. \A b \in Agents : agentSocket'[b] # NoConnection => peer'[agentSocket'[b]] = b
    BY <1>1 DEF Tunnels, Fields
  <2> QED
    BY <2>1, <2>2, <2>3, <2>4, <2>5 DEF Tunnels
<1>7. LatestIsRight'
  <2> SUFFICES ASSUME NEW b \in Agents, Healthy(b)', Told(b)', NEW d \in Devices, agentOf[d] = b
               PROVE  d \in Latest(b)' <=> d \in Viewed
    BY <1>1, <1>2 DEF LatestIsRight
  <2>1. b # a
    <3>1. link'[a] = c
      BY <1>1 DEF Fields
    <3> QED
      BY <1>1, <1>5, <3>1 DEF Told, gateVars
  <2>2. link'[b] = link[b] /\ agentSocket'[b] = agentSocket[b] /\ link[b] # c
    BY <1>1, <1>4, <2>1 DEF Fields
  <2>3. Healthy(b)
    BY <1>1, <2>2 DEF Healthy
  <2>4. Told(b) /\ Latest(b)' = Latest(b)
    BY <1>1, <2>2 DEF Told, Latest, gateVars
  <2> QED
    BY <2>3, <2>4 DEF LatestIsRight
<1> QED
  BY <1>3, <1>6, <1>7

(* An agent that loses its tunnel forgets what it was told. *)
LEMMA LoseKeeps ==
  ASSUME DemandInv, NEW a \in Agents, LoseTunnel(a) PROVE DemandInv'
<1> USE DemandAssumption DEF DemandInv
<1> DEFINE c == link[a]
<1>1. /\ c \in Connections
      /\ link' = [link EXCEPT ![a] = NoConnection]
      /\ wire' = [wire EXCEPT ![c] = <<>>]
      /\ demanded' = [demanded EXCEPT ![a] = {}]
      /\ hasSnapshot' = hasSnapshot \ {a}
      /\ UNCHANGED <<agentOf, viewers, agentSocket, peer, open>>
  BY DEF LoseTunnel, serverVars, Fields
<1>2. Viewed' = Viewed
  BY <1>1 DEF Viewed
<1>3. Fields'
  <2>1. wire' \in [Connections -> Seq(SUBSET Devices)]
    BY <1>1 DEF Fields
  <2> QED
    BY <1>1, <1>2, <2>1 DEF Fields
<1>4. \A b \in Agents : b # a => link'[b] = link[b] /\ link[b] # c
  BY <1>1 DEF Fields, Tunnels
<1>5. link'[a] = NoConnection
  BY <1>1 DEF Fields
<1>6. Tunnels'
  <2>1. \A e \in Connections : wire'[e] # <<>> => Read(e)'
    <3> SUFFICES ASSUME NEW e \in Connections, wire'[e] # <<>> PROVE Read(e)'
      OBVIOUS
    <3>1. e # c /\ wire[e] # <<>>
      BY <1>1 DEF Fields
    <3>2. PICK b \in Agents : link[b] = e
      BY <3>1 DEF Tunnels, Read
    <3> QED
      BY <1>4, <3>1, <3>2 DEF Read
  <2>2. \A b, e \in Agents : link'[b] = link'[e] /\ link'[b] # NoConnection => b = e
    BY <1>4, <1>5 DEF Tunnels
  <2>3. \A b \in Agents : link'[b] = NoConnection => b \notin hasSnapshot'
    BY <1>1, <1>4 DEF Tunnels
  <2>4. /\ \A b \in Agents : link'[b] # NoConnection => peer'[link'[b]] \in {b, NoAgent}
        /\ \A b \in Agents : agentSocket'[b] # NoConnection => peer'[agentSocket'[b]] = b
    BY <1>1, <1>4, <1>5 DEF Tunnels
  <2> QED
    BY <2>1, <2>2, <2>3, <2>4 DEF Tunnels
<1>7. LatestIsRight'
  <2> SUFFICES ASSUME NEW b \in Agents, Healthy(b)', Told(b)', NEW d \in Devices, agentOf[d] = b
               PROVE  d \in Latest(b)' <=> d \in Viewed
    BY <1>1, <1>2 DEF LatestIsRight
  <2>1. b # a
    BY <1>5 DEF Healthy
  <2>2. Healthy(b) /\ link[b] \in Connections
    BY <1>1, <1>4, <2>1 DEF Healthy, Fields
  <2>3. wire'[link[b]] = wire[link[b]] /\ demanded'[b] = demanded[b]
    BY <1>1, <1>4, <2>1, <2>2 DEF Fields
  <2>4. Told(b) /\ Latest(b)' = Latest(b)
    BY <1>1, <1>4, <2>1, <2>3 DEF Told, Latest
  <2> QED
    BY <2>2, <2>4 DEF LatestIsRight
<1> QED
  BY <1>3, <1>6, <1>7

(* Taking a snapshot moves it from the wire to the gate. *)
LEMMA TakeKeeps ==
  ASSUME DemandInv, NEW a \in Agents, TakeSnapshot(a) PROVE DemandInv'
<1> USE DemandAssumption DEF DemandInv
<1> DEFINE c == link[a]
<1>1. /\ c \in Connections /\ wire[c] # <<>>
      /\ demanded' = [demanded EXCEPT ![a] = Head(wire[c])]
      /\ hasSnapshot' = hasSnapshot \union {a}
      /\ wire' = [wire EXCEPT ![c] = Tail(@)]
      /\ UNCHANGED <<agentOf, viewers, agentSocket, peer, open, link>>
  BY DEF TakeSnapshot, Apply, serverVars, Fields
<1>2. Viewed' = Viewed
  BY <1>1 DEF Viewed
<1>3. /\ wire[c] \in Seq(SUBSET Devices)
      /\ Head(wire[c]) \in SUBSET Devices
      /\ Tail(wire[c]) \in Seq(SUBSET Devices)
  BY <1>1 DEF Fields
<1>4. Fields'
  <2>1. wire' \in [Connections -> Seq(SUBSET Devices)]
    BY <1>1, <1>3 DEF Fields
  <2>2. demanded' \in [Agents -> SUBSET Devices]
    BY <1>1, <1>3 DEF Fields
  <2> QED
    BY <1>1, <1>2, <2>1, <2>2 DEF Fields
<1>5. Tunnels'
  <2>1. \A e \in Connections : wire'[e] # <<>> => Read(e)'
    BY <1>1 DEF Tunnels, Read, Fields
  <2> QED
    BY <1>1, <2>1 DEF Tunnels, Fields
<1>6. LatestIsRight'
  <2> SUFFICES ASSUME NEW b \in Agents, Healthy(b)', Told(b)', NEW d \in Devices, agentOf[d] = b
               PROVE  d \in Latest(b)' <=> d \in Viewed
    BY <1>1, <1>2 DEF LatestIsRight
  <2>1. Healthy(b)
    BY <1>1 DEF Healthy
  <2>2. Told(b) /\ Latest(b)' = Latest(b)
    <3>1. CASE b = a
      <4>1. wire'[c] = Tail(wire[c]) /\ demanded'[a] = Head(wire[c])
        BY <1>1, <1>3 DEF Fields
      <4>2. IF Tail(wire[c]) = <<>> THEN Last(wire[c]) = Head(wire[c])
            ELSE Last(Tail(wire[c])) = Last(wire[c])
        BY <1>1, <1>3, LastOfRest
      <4> QED
        BY <1>1, <3>1, <4>1, <4>2 DEF Told, Latest
    <3>2. CASE b # a
      <4>1. link[b] # c /\ link[b] \in Connections
        BY <1>1, <2>1, <3>2, HealthyReceives DEF Tunnels
      <4> QED
        BY <1>1, <3>2, <4>1 DEF Told, Latest, Fields
    <3> QED
      BY <3>1, <3>2
  <2> QED
    BY <2>1, <2>2 DEF LatestIsRight
<1> QED
  BY <1>4, <1>5, <1>6

-------------------------------------------------------------------------------
(* Viewers come and go on devices, and nothing else that matters changes. *)
LEMMA ViewersChangeFrame ==
  ASSUME DemandInv, ViewersChange
  PROVE  /\ Announce /\ Viewed' \subseteq Devices
         /\ agentOf' = agentOf /\ SocketsSame
         /\ UNCHANGED <<link, gateVars>>
<1>1. Viewed \subseteq Devices
  BY DEF DemandInv, Fields
<1>2. ASSUME NEW v \in Viewers, NEW d \in Devices, NEW g \in Generations,
             Server!ViewerConnects(v, d, g)
      PROVE  Viewed' \subseteq Devices /\ agentOf' = agentOf /\ SocketsSame
  BY <1>1, <1>2 DEF Server!ViewerConnects, Viewed, SocketsSame, Server!registryVars,
     Server!socketVars
<1>3. ASSUME NEW v \in Viewers, Server!ViewerCloses(v)
      PROVE  Viewed' \subseteq Devices /\ agentOf' = agentOf /\ SocketsSame
  BY <1>1, <1>3 DEF Server!ViewerCloses, Viewed, SocketsSame, Server!registryVars,
     Server!socketVars
<1>4. ASSUME \/ \E d \in Devices, g \in Generations : Server!ReleaseRequest(d, g)
             \/ Server!IdleSweep \/ Server!StaleSweep
      PROVE  Viewed' \subseteq Devices /\ agentOf' = agentOf /\ SocketsSame
  <2>1. viewers' \subseteq viewers
    BY <1>4 DEF Server!ReleaseRequest, Server!IdleSweep, Server!StaleSweep, Server!Revoke
  <2>2. SocketsSame
    BY <1>4 DEF SocketsSame, Server!ReleaseRequest, Server!IdleSweep, Server!StaleSweep,
       Server!socketVars
  <2>3. agentOf' = agentOf
    BY <1>4, OwnersKept DEF Server!ReleaseRequest, Server!IdleSweep, Server!StaleSweep
  <2> QED
    BY <1>1, <2>1, <2>2, <2>3 DEF Viewed
<1> QED
  BY <1>2, <1>3, <1>4 DEF ViewersChange

(* The invariant holds at the start and every step keeps it. *)
LEMMA StepInv == DemandInv /\ [Next]_vars => DemandInv'
<1> SUFFICES ASSUME DemandInv, [Next]_vars PROVE DemandInv'
  OBVIOUS
<1>1. CASE ViewersChange
  BY <1>1, ViewersChangeFrame, AnnounceKeeps
<1>2. CASE UNCHANGED vars
  BY <1>2 DEF vars, serverVars, gateVars, DemandInv, Fields, Tunnels, LatestIsRight, Viewed,
     Read, Healthy, Told, Latest
<1> QED
  BY <1>1, <1>2, ServerOnlyQuiet, QuietKeeps, RegisterKeeps, ConnectKeeps, LoseKeeps, TakeKeeps
  DEF Next

LEMMA InitInv == Init => DemandInv
<1> SUFFICES ASSUME Init PROVE DemandInv
  OBVIOUS
<1> USE DEF Init, Server!Init, Server!Registry!Init
<1>1. Fields
  BY DEF Fields, Viewed
<1>2. Tunnels
  BY DEF Tunnels
<1>3. LatestIsRight
  BY DEF LatestIsRight, Healthy
<1> QED
  BY <1>1, <1>2, <1>3 DEF DemandInv

(* What the proofs rest on holds of every reachable state: fields have their
   types, and server and agent agree on whose socket is whose. *)
THEOREM DemandInvariant == Spec => []DemandInv
  BY InitInv, StepInv, PTL DEF Spec

(* StreamDemandGate never keeps a wrong list for good: whatever viewers,
   registrations, replaced sockets, restarts and lost tunnels do, the last
   snapshot an agent was sent on a working tunnel is what is watched now. *)
THEOREM LatestSnapshotIsRight == Spec => []LatestIsRight
<1>1. DemandInv => LatestIsRight
  BY DEF DemandInv
<1> QED
  BY <1>1, DemandInvariant, PTL

(* What a step does to the server is a step of the server. *)
LEMMA ServerSteps ==
  ASSUME DemandInv, [Next]_vars PROVE [Server!Next]_(Server!vars)
<1> USE DEF Generations, Registry!Issued, Server!Registry!Issued, Server!UserStep,
   Server!AgentStep, Server!TimerStep, Server!Next
<1>1. CASE ViewersChange
  BY <1>1 DEF ViewersChange
<1>2. ASSUME NEW c \in Connections, Register(c) PROVE Server!Next
  <2>1. Attached[peer[c]] \subseteq Devices
    BY <1>2, DemandAssumption DEF Register, Server!Current, DemandInv, Fields
  <2>2. PICK D \in SUBSET Devices : Server!RegisterArrives(c, D, Server!ActionKinds)
    BY <1>2, <2>1 DEF Register
  <2> QED
    BY <2>2
<1>3. CASE ServerOnly
  BY <1>3 DEF ServerOnly
<1>4. ASSUME NEW a \in Agents, NEW c \in Connections, AgentConnects(a, c) PROVE Server!Next
  BY <1>4 DEF AgentConnects
<1>5. ASSUME NEW a \in Agents, LoseTunnel(a) \/ TakeSnapshot(a) PROVE UNCHANGED serverVars
  BY <1>5 DEF LoseTunnel, TakeSnapshot
<1>6. UNCHANGED serverVars => UNCHANGED Server!vars
  BY DEF serverVars, Server!vars, Server!registryVars, Server!socketVars, Server!commandVars
<1> QED
  BY <1>1, <1>2, <1>3, <1>4, <1>5, <1>6 DEF Next, vars

(* The server that announces demand is the server: its part of a behaviour is a
   behaviour of FarmServer, so what is proved there of occupations, viewers and
   sockets holds here. *)
THEOREM RefinesServer == Spec => Server!Spec
<1>1. Init => Server!Init
  BY DEF Init
<1> QED
  BY <1>1, ServerSteps, DemandInvariant, PTL DEF Spec, Server!Spec
===============================================================================
