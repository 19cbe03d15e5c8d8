--------------------------- MODULE CommandPathProofs ---------------------------
(***************************************************************************)
(* Proofs about CommandPath, for any agents, devices, sockets, commands    *)
(* and limits.  The inductive invariant is PathInv.  A step does one of    *)
(* eight things to what the invariant reads (the section of effects); each *)
(* part of the invariant is then carried over them one by one.             *)
(***************************************************************************)
EXTENDS CommandPath, TLAPS

(* Every field has the type its readers rely on. *)
Fields ==
  /\ occupant \in [Devices -> Generations \union {NoGeneration}]
  /\ nextGen \in 1..(MaxGenerations + 1)
  /\ agentOf \in [Devices -> Agents \union {NoAgent}]
  /\ agentSocket \in [Agents -> Connections \union {NoConnection}]
  /\ peer \in [Connections -> Agents \union {NoAgent}]
  /\ open \subseteq Connections
  /\ link \in [Agents -> Connections \union {NoConnection}]
  /\ wire \in [Connections -> [Devices -> Seq(Messages)]]
  /\ occupations \in [Agents -> [Devices -> Generations \union {NoGeneration}]]
  /\ newest \in [Devices -> Generations \union {NoGeneration}]
  /\ revoked \in [Agents -> SUBSET Generations]

(* The command path carries generation g for device d. *)
Carries(d, g) ==
  /\ g # NoGeneration
  /\ \/ occupant[d] = g
     \/ \E c \in Connections : \E i \in 1..Len(wire[c][d]) : wire[c][d][i].gen = g
     \/ \E a \in Agents : occupations[a][d] = g

IsCommand(m) == m.type = "command"
IsNotice(m) == m.type = "occupancyEnded"

(* The server knows the socket it uses for an agent as that agent's. *)
OwnSockets == \A a \in Agents : agentSocket[a] # NoConnection => peer[agentSocket[a]] = a

(* Only a socket that an agent reads holds messages, it is read by one agent, and the server
   knows it as that agent's or not at all. *)
Tunnels ==
  /\ \A a, b \in Agents : link[a] = link[b] /\ link[a] # NoConnection => a = b
  /\ \A c \in Connections, d \in Devices : wire[c][d] # <<>> => Read(c)
  /\ \A a \in Agents : link[a] = NoConnection => \A d \in Devices : occupations[a][d] = NoGeneration
  /\ \A a \in Agents : link[a] # NoConnection => peer[link[a]] \in {a, NoAgent}
  /\ OwnSockets

(* A generation belongs to one device, wherever it is met. *)
OneDeviceEach ==
  \A d \in Devices : \A g \in Generations : Carries(d, g) =>
    /\ g < nextGen
    /\ \A e \in Devices : Carries(e, g) => e = d

(* A notice is the last word on its generation. *)
NoticeIsLast ==
  \A c \in Connections, d \in Devices : \A i \in 1..Len(wire[c][d]) : IsNotice(wire[c][d][i]) =>
    /\ \A e \in Devices : occupant[e] # wire[c][d][i].gen
    /\ \A j \in i + 1..Len(wire[c][d]) :
         IsCommand(wire[c][d][j]) => wire[c][d][j].gen # wire[c][d][i].gen

(* What an agent took the notice of is over, and nothing on its way revives it. *)
RevokedIsOver ==
  \A a \in Agents : \A g \in revoked[a] :
    /\ g < nextGen
    /\ \A d \in Devices : occupant[d] # g /\ occupations[a][d] # g
    /\ link[a] # NoConnection =>
         \A d \in Devices : \A i \in 1..Len(wire[link[a]][d]) :
           IsCommand(wire[link[a]][d][i]) => wire[link[a]][d][i].gen # g

(* A phone is on the cable of one host. *)
OneHostPerDevice ==
  \A a, b \in Agents : Attached[a] \intersect Attached[b] # {} => a = b

(* What agent a has to do with device d. *)
Involved(a, d) ==
  \/ occupations[a][d] # NoGeneration
  \/ link[a] # NoConnection /\ wire[link[a]][d] # <<>>

(* Only its host hears of a device, and while the tunnel works the row names that host. *)
HostKnown ==
  /\ \A d \in Devices : agentOf[d] # NoAgent => d \in Attached[agentOf[d]]
  /\ \A a \in Agents, d \in Devices : Involved(a, d) =>
       d \in Attached[a] /\ (Healthy(a) => agentOf[d] = a)

Covered(a, d, g, from) ==
  \/ occupant[d] = g
  \/ \E j \in from..Len(wire[link[a]][d]) : wire[link[a]][d][j] = OccupancyEnded(g)

Covering ==
  \A a \in Agents : Healthy(a) => \A d \in Devices :
    /\ occupations[a][d] # NoGeneration => Covered(a, d, occupations[a][d], 1)
    /\ \A i \in 1..Len(wire[link[a]][d]) :
         IsCommand(wire[link[a]][d][i]) => Covered(a, d, wire[link[a]][d][i].gen, i + 1)

(* Commands travel in the order of their generations, none behind a later one. *)
Ordered(c, d) ==
  \A i \in 1..Len(wire[c][d]) : IsCommand(wire[c][d][i]) =>
    /\ newest[d] <= wire[c][d][i].gen
    /\ occupant[d] # NoGeneration => wire[c][d][i].gen <= occupant[d]
    /\ \A j \in (i + 1)..Len(wire[c][d]) :
         IsCommand(wire[c][d][j]) => wire[c][d][i].gen <= wire[c][d][j].gen

InOrder ==
  /\ \A d \in Devices :
       newest[d] < nextGen /\ (occupant[d] # NoGeneration => newest[d] <= occupant[d])
  /\ \A a \in Agents, d \in Devices :
       occupations[a][d] # NoGeneration => newest[d] <= occupations[a][d]
  /\ \A c \in Connections, d \in Devices : Ordered(c, d)


-------------------------------------------------------------------------------
(* The effects. *)
Agentwise == <<link, wire, occupations, newest, revoked>>
Sockets == <<agentSocket, peer, open>>

(* Sockets close, on the server or with it, and with the current one of an agent
   its devices lose their owner; most steps do not even that. *)
Closes ==
  /\ UNCHANGED <<occupant, nextGen, Agentwise>>
  /\ agentOf' \in [Devices -> Agents \union {NoAgent}]
  /\ agentSocket' \in [Agents -> Connections \union {NoConnection}]
  /\ peer' \in [Connections -> Agents \union {NoAgent}]
  /\ open' \subseteq open
  /\ \A c \in Connections : peer'[c] \in {peer[c], NoAgent}
  /\ \A a \in Agents : agentSocket'[a] # NoConnection =>
       agentSocket'[a] = agentSocket[a] /\ peer'[agentSocket[a]] = a
  /\ \A d \in Devices : agentOf'[d] # agentOf[d] =>
       agentOf'[d] = NoAgent /\ agentSocket'[agentOf[d]] = NoConnection

(* An agent claims devices of its host. *)
Claims(a, D) ==
  /\ D \subseteq Attached[a]
  /\ agentOf' = [d \in Devices |-> IF d \in D THEN a ELSE agentOf[d]]
  /\ UNCHANGED <<occupant, nextGen, Sockets, Agentwise>>

Grants(d) ==
  /\ occupant[d] = NoGeneration
  /\ nextGen <= MaxGenerations
  /\ occupant' = [occupant EXCEPT ![d] = nextGen]
  /\ nextGen' = nextGen + 1
  /\ UNCHANGED <<agentOf, Sockets, Agentwise>>

Ends(D) ==
  /\ \A d \in D : occupant[d] # NoGeneration
  /\ occupant' = [d \in Devices |-> IF d \in D THEN NoGeneration ELSE occupant[d]]
  /\ Notify(D)
  /\ UNCHANGED <<nextGen, agentOf, Sockets, link, occupations, newest, revoked>>

Sends(r, d) ==
  /\ occupant[d] # NoGeneration
  /\ agentOf[d] # NoAgent
  /\ agentSocket[agentOf[d]] # NoConnection
  /\ LET c == agentSocket[agentOf[d]]
     IN  wire' = IF Read(c) THEN [wire EXCEPT ![c][d] = Append(@, Command(r, occupant[d]))]
                 ELSE wire
  /\ UNCHANGED <<occupant, nextGen, agentOf, Sockets, link, occupations, newest, revoked>>

Connects(a, c) ==
  /\ link[a] = NoConnection
  /\ ~Read(c)
  /\ peer[c] = NoAgent
  /\ link' = [link EXCEPT ![a] = c]
  /\ peer' = [peer EXCEPT ![c] = a]
  /\ agentSocket' = [agentSocket EXCEPT ![a] = c]
  /\ open' = (open \ {agentSocket[a]}) \union {c}
  /\ UNCHANGED <<occupant, nextGen, agentOf, wire, occupations, newest, revoked>>

Cuts(a) ==
  /\ link' = [link EXCEPT ![a] = NoConnection]
  /\ wire' = [c \in Connections |-> IF c = link[a] THEN EmptyWire ELSE wire[c]]
  /\ occupations' = [occupations EXCEPT ![a] = NoOccupations]
  /\ UNCHANGED <<occupant, nextGen, agentOf, Sockets, newest, revoked>>

(* A message is taken from the wire: a command that is accepted, one that is
   refused, or a notice. *)
Accepts(a, d) ==
  /\ Arrives(a, d, "command")
  /\ occupations' = [occupations EXCEPT ![a][d] = Message(a, d).gen]
  /\ newest' = [newest EXCEPT ![d] = IF @ < Message(a, d).gen THEN Message(a, d).gen ELSE @]
  /\ UNCHANGED <<occupant, nextGen, agentOf, Sockets, link, revoked>>

Refuses(a, d) ==
  /\ Arrives(a, d, "command")
  /\ UNCHANGED <<occupant, nextGen, agentOf, Sockets, link, occupations, newest, revoked>>

Heeds(a, d) ==
  /\ Arrives(a, d, "occupancyEnded")
  /\ occupations' = [occupations EXCEPT ![a][d] =
       IF @ = Message(a, d).gen THEN NoGeneration ELSE @]
  /\ revoked' = [revoked EXCEPT ![a] = @ \union {Message(a, d).gen}]
  /\ UNCHANGED <<occupant, nextGen, agentOf, Sockets, link, newest>>

Takes(a, d) == Accepts(a, d) \/ Refuses(a, d) \/ Heeds(a, d)

Effect ==
  \/ Closes
  \/ \E a \in Agents : \E D \in SUBSET Devices : Claims(a, D)
  \/ \E d \in Devices : Grants(d)
  \/ \E D \in SUBSET Devices : Ends(D)
  \/ \E r \in Requests, d \in Devices : Sends(r, d)
  \/ \E a \in Agents, c \in Connections : Connects(a, c)
  \/ \E a \in Agents : Cuts(a)
  \/ \E a \in Agents : \E d \in Attached[a] : Takes(a, d)

(* A step that leaves all of this alone closes nothing. *)
LEMMA NothingCloses ==
  ASSUME Fields, OwnSockets, UNCHANGED <<occupant, nextGen, agentOf, Sockets, Agentwise>>
  PROVE  Closes
  BY DEF Fields, OwnSockets, Closes, Sockets, Agentwise

(* The server's own steps on sockets only close them. *)
LEMMA ServerCloses ==
  ASSUME Fields, OwnSockets, NEW c \in Connections, UNCHANGED Agentwise,
         Server!SocketCloses(c) \/ Server!AgentDisconnects(c) \/ Server!ReplacedSocketGone(c)
  PROVE  Closes
<1> USE PathAssumption DEF Fields, OwnSockets, Agentwise
<1>1. CASE Server!SocketCloses(c)
  BY <1>1 DEF Closes, Server!SocketCloses, Server!registryVars
<1>2. CASE Server!AgentDisconnects(c)
  BY <1>2 DEF Closes, Server!AgentDisconnects, Server!Current, Server!Registry!MarkAgentOffline
<1>3. CASE Server!ReplacedSocketGone(c)
  BY <1>3 DEF Closes, Server!ReplacedSocketGone, Server!Current, Server!registryVars
<1> QED
  BY <1>1, <1>2, <1>3

(* A crash of the server closes them all. *)
LEMMA ServerCrash ==
  ASSUME Fields, OwnSockets, UNCHANGED Agentwise, Server!Crash PROVE Closes
  BY PathAssumption DEF Fields, OwnSockets, Agentwise, Closes, Server!Crash, Server!registryVars

(* Every step of the server has one of the effects. *)
LEMMA ServerEffect ==
  ASSUME Fields, OwnSockets, ServerStep PROVE Effect
<1> USE DEF executorVars, Sockets, Agentwise, NoGeneration, Generations,
        Registry!Unoccupied, Server!Registry!Unoccupied, Server!Registry!Owns
<1>1. ASSUME NEW d \in Devices, NEW g \in Generations, Release(d, g) PROVE Ends({d})
  BY <1>1 DEF Release, Ends, Server!ReleaseRequest, Server!Registry!Release, Server!socketVars,
     Fields, Registry!Issued
<1>2. CASE IdleSweep
  <2>1. Ends(Registry!IdleDevices)
    BY <1>2 DEF IdleSweep, Ends, Server!IdleSweep, Server!Registry!ExpireIdle, Server!socketVars,
       Server!Registry!EndOccupations, Registry!IdleDevices, Server!Registry!IdleDevices
  <2>2. Registry!IdleDevices \in SUBSET Devices
    BY DEF Registry!IdleDevices
  <2> QED
    BY <2>1, <2>2 DEF Effect
<1>3. CASE StaleSweep
  <2> DEFINE D == {d \in Registry!StaleDevices : occupant[d] # NoGeneration}
  <2>1. occupant' = [d \in Devices |-> IF d \in D THEN NoGeneration ELSE occupant[d]]
    BY <1>3 DEF StaleSweep, Server!StaleSweep, Server!Registry!MarkStaleOffline, Fields,
       Server!Registry!EndOccupations, Registry!StaleDevices, Server!Registry!StaleDevices
  <2>2. Ends(D)
    BY <1>3, <2>1 DEF StaleSweep, Ends, Server!StaleSweep, Server!Registry!MarkStaleOffline,
       Server!socketVars
  <2>3. D \in SUBSET Devices
    BY DEF Registry!StaleDevices
  <2> QED
    BY <2>2, <2>3 DEF Effect
<1>4. ASSUME NEW r \in Requests, NEW d \in Devices, NEW g \in Generations,
             NEW kind \in Server!ActionKinds, SendCommand(r, d, g, kind)
      PROVE  Sends(r, d)
  <2>1. agentSocket[agentOf[d]] # NoConnection
    BY <1>4, PathAssumption DEF SendCommand, Server!CommandSent, Server!Reachable, Fields
  <2> QED
    BY <1>4, <2>1 DEF SendCommand, Sends, Server!CommandSent, Server!CommandAllowed,
       Server!Registry!Renew, Server!socketVars
<1>5. CASE ServerOnly
  <2>1. ASSUME NEW d \in Devices, Server!OccupyRequest(d) PROVE Grants(d)
    BY <1>5, <2>1 DEF ServerOnly, Grants, Server!OccupyRequest, Server!Registry!Occupy,
       Server!socketVars
  <2>2. ASSUME NEW d \in Devices, NEW g \in Generations, Server!RenewRequest(d, g) PROVE Closes
    BY <1>5, <2>2, NothingCloses DEF ServerOnly, Server!RenewRequest, Server!Registry!Renew,
       Server!socketVars
  <2>3. ASSUME NEW r \in Requests, NEW d \in Devices, NEW g \in Generations,
               NEW kind \in Server!ActionKinds, Server!CommandRejected(r, d, g, kind)
        PROVE  Closes
    BY <1>5, <2>3, NothingCloses DEF ServerOnly, Server!CommandRejected, Server!CommandAllowed,
       Server!Registry!Renew, Server!socketVars
  <2>4. ASSUME NEW p \in pending, Server!CommandTimesOut(p) PROVE Closes
    BY <1>5, <2>4, NothingCloses DEF ServerOnly, Server!CommandTimesOut, Server!registryVars,
       Server!socketVars
  <2>5. ASSUME NEW c \in Connections,
               Server!SocketCloses(c) \/ Server!AgentDisconnects(c) \/ Server!ReplacedSocketGone(c)
        PROVE  Closes
    BY <1>5, <2>5, ServerCloses DEF ServerOnly
  <2>6. ASSUME Server!Crash PROVE Closes
    BY <1>5, <2>6, ServerCrash DEF ServerOnly
  <2> QED
    BY <1>5, <2>1, <2>2, <2>3, <2>4, <2>5, <2>6 DEF ServerOnly, Effect
<1>6. ASSUME NEW c \in Connections, AgentReports(c) PROVE Effect
  <2>1. peer[c] \in Agents
    BY <1>6 DEF AgentReports, Server!Current, Fields
  <2>2. PICK D \in SUBSET Attached[peer[c]] :
           \/ Server!RegisterArrives(c, D, Server!ActionKinds)
           \/ Server!HeartbeatArrives(c, D)
    BY <1>6 DEF AgentReports
  <2>3. D \in SUBSET Devices
    BY <2>1, <2>2, PathAssumption
  <2>4. CASE Server!RegisterArrives(c, D, Server!ActionKinds)
    <3>1. Claims(peer[c], D)
      BY <1>6, <2>2, <2>4 DEF AgentReports, Claims, Server!RegisterArrives, Server!Registry!Upsert
    <3> QED
      BY <2>1, <2>3, <3>1 DEF Effect
  <2>5. CASE Server!HeartbeatArrives(c, D)
    <3>1. Closes
      BY <1>6, <2>5, NothingCloses DEF AgentReports, Server!HeartbeatArrives,
         Server!Registry!Heartbeat, Server!socketVars
    <3> QED
      BY <3>1 DEF Effect
  <2> QED
    BY <2>2, <2>4, <2>5
<1>7. ASSUME NEW m \in results, ResultArrives(m) PROVE Closes
  BY <1>7, NothingCloses DEF ResultArrives, Server!ResultArrives, Server!registryVars,
     Server!socketVars, serverVars
<1> QED
  BY <1>1, <1>2, <1>3, <1>4, <1>5, <1>6, <1>7 DEF ServerStep, Effect

(* What the agent does, to its tunnel or in its executor. *)
LEMMA AgentEffect ==
  ASSUME Fields, OwnSockets, NEW a \in Agents, AgentStep(a) PROVE Effect
<1> USE DEF executorVars, serverVars, Sockets, Agentwise
<1>1. ASSUME NEW c \in Connections, AgentConnects(a, c) PROVE Connects(a, c)
  BY <1>1 DEF AgentConnects, Connects, Server!AgentConnects, Server!registryVars
<1>2. CASE LoseTunnel(a) \/ AgentRestarts(a)
  <2>1. wire' = [c \in Connections |-> IF c = link[a] THEN EmptyWire ELSE wire[c]]
    BY <1>2 DEF LoseTunnel, AgentRestarts, Fields
  <2> QED
    BY <1>2, <2>1 DEF LoseTunnel, AgentRestarts, Cuts, Effect
<1>3. ASSUME NEW d \in Attached[a], ExecutorStep(a, d) PROVE Effect
  <2>1. CASE AcceptCommand(a, d)
    BY <2>1 DEF AcceptCommand, Accepts, Takes, Effect
  <2>2. CASE RefuseCommand(a, d)
    BY <2>2 DEF RefuseCommand, Refuses, Takes, Effect
  <2>3. CASE TakeNotice(a, d)
    BY <2>3 DEF TakeNotice, Heeds, Takes, Effect
  <2>4. CASE StartCommand(a, d) \/ DiscardCommand(a, d) \/ FinishCommand(a, d)
    BY <2>4, NothingCloses DEF StartCommand, DiscardCommand, FinishCommand, Effect
  <2> QED
    BY <1>3, <2>1, <2>2, <2>3, <2>4 DEF ExecutorStep
<1> QED
  BY <1>1, <1>2, <1>3 DEF AgentStep, Effect

(* Every step has one of the effects. *)
LEMMA StepEffect ==
  ASSUME Fields, OwnSockets, [Next]_vars PROVE Effect
<1>1. CASE Tick
  BY <1>1, NothingCloses DEF Tick, Server!Tick, Server!Registry!Tick, Server!socketVars, Sockets,
     Agentwise, Effect
<1>2. CASE UNCHANGED vars
  BY <1>2, NothingCloses DEF vars, serverVars, executorVars, Sockets, Agentwise, Effect
<1> QED
  BY <1>1, <1>2, ServerEffect, AgentEffect DEF Next

-------------------------------------------------------------------------------
(* The wire, place by place. *)
Extended(c, d, m) ==
  LET n == Len(wire[c][d])
  IN  /\ Len(wire'[c][d]) = n + 1
      /\ \A i \in 1..n : wire'[c][d][i] = wire[c][d][i]
      /\ wire'[c][d][n + 1] = m

Shortened(c, d) ==
  LET n == Len(wire[c][d])
  IN  /\ n > 0
      /\ Len(wire'[c][d]) = n - 1
      /\ \A i \in 1..(n - 1) : wire'[c][d][i] = wire[c][d][i + 1]

(* A message is a command or a notice, of some generation. *)
LEMMA MessageKinds ==
  ASSUME NEW m \in Messages
  PROVE  /\ m.gen \in Generations
         /\ IsCommand(m) <=> ~IsNotice(m)
         /\ IsNotice(m) => m = OccupancyEnded(m.gen)
  BY DEF Messages, Command, OccupancyEnded, IsCommand, IsNotice

(* What the constructors of messages make. *)
LEMMA Made ==
  ASSUME NEW g \in Generations
  PROVE  /\ OccupancyEnded(g) \in Messages /\ IsNotice(OccupancyEnded(g))
         /\ OccupancyEnded(g).gen = g
         /\ \A r \in Requests : Command(r, g) \in Messages /\ IsCommand(Command(r, g))
                                  /\ Command(r, g).gen = g
  BY DEF Messages, Command, OccupancyEnded, IsCommand, IsNotice

(* What appending to a wire gives. *)
LEMMA Appended ==
  ASSUME NEW s \in Seq(Messages), NEW m \in Messages
  PROVE  /\ Append(s, m) \in Seq(Messages)
         /\ Len(Append(s, m)) = Len(s) + 1
         /\ \A i \in 1..Len(s) : Append(s, m)[i] = s[i]
         /\ Append(s, m)[Len(s) + 1] = m
  OBVIOUS

(* What taking the first message of a wire leaves. *)
LEMMA HeadTaken ==
  ASSUME NEW s \in Seq(Messages), s # <<>>
  PROVE  /\ Tail(s) \in Seq(Messages)
         /\ Len(s) > 0 /\ Head(s) = s[1] /\ s[1] \in Messages
         /\ Len(Tail(s)) = Len(s) - 1
         /\ \A i \in 1..(Len(s) - 1) : Tail(s)[i] = s[i + 1]
  OBVIOUS

(* The notices of occupations that end: one on the socket of each device's
   agent, if the server holds an open one that is read. *)
LEMMA NoticesSent ==
  ASSUME Fields, NEW D \in SUBSET Devices, Ends(D), NEW c \in Connections, NEW d \in Devices
  PROVE  /\ wire'[c][d] \in Seq(Messages)
         /\ \/ /\ d \in D /\ agentOf[d] \in Agents /\ agentSocket[agentOf[d]] = c
               /\ c \in open /\ Read(c)
               /\ Extended(c, d, OccupancyEnded(occupant[d]))
            \/ /\ ~(/\ d \in D /\ agentOf[d] # NoAgent /\ agentSocket[agentOf[d]] = c
                    /\ c \in open /\ Read(c))
               /\ wire'[c][d] = wire[c][d]
<1>1. wire[c][d] \in Seq(Messages)
  BY DEF Fields
<1>2. CASE d \in D /\ agentOf[d] # NoAgent /\ agentSocket[agentOf[d]] = c /\ c \in open /\ Read(c)
  <2>1. occupant[d] \in Generations
    BY <1>2 DEF Ends, Fields
  <2>2. wire'[c][d] = Append(wire[c][d], OccupancyEnded(occupant[d]))
    BY <1>2 DEF Ends, Notify
  <2>3. agentOf[d] \in Agents
    BY <1>2 DEF Fields
  <2> QED
    BY <1>1, <1>2, <2>1, <2>2, <2>3, Appended, Made DEF Extended
<1>3. CASE ~(/\ d \in D /\ agentOf[d] # NoAgent /\ agentSocket[agentOf[d]] = c
             /\ c \in open /\ Read(c))
  <2>1. wire'[c][d] = wire[c][d]
    BY <1>3 DEF Ends, Notify
  <2> QED
    BY <1>1, <1>3, <2>1
<1> QED
  BY <1>2, <1>3

(* Where a sent command goes: behind what is on the wire of the device's agent. *)
LEMMA CommandOnWire ==
  ASSUME Fields, NEW r \in Requests, NEW d \in Devices, Sends(r, d),
         NEW c \in Connections, NEW e \in Devices
  PROVE  /\ wire'[c][e] \in Seq(Messages)
         /\ \/ wire'[c][e] = wire[c][e]
            \/ /\ e = d /\ agentOf[d] \in Agents /\ agentSocket[agentOf[d]] = c /\ Read(c)
               /\ Extended(c, d, Command(r, occupant[d]))
<1>1. wire[c][e] \in Seq(Messages) /\ occupant[d] \in Generations /\ agentOf[d] \in Agents
  BY DEF Fields, Sends
<1>2. CASE e = d /\ agentSocket[agentOf[d]] = c /\ Read(c)
  <2>1. wire'[c][e] = Append(wire[c][e], Command(r, occupant[d]))
    BY <1>2 DEF Sends, Fields
  <2> QED
    BY <1>1, <1>2, <2>1, Appended, Made DEF Extended
<1>3. CASE ~(e = d /\ agentSocket[agentOf[d]] = c /\ Read(c))
  <2>1. wire'[c][e] = wire[c][e]
    BY <1>1, <1>3 DEF Sends, Fields
  <2> QED
    BY <1>1, <2>1
<1> QED
  BY <1>2, <1>3

(* What an agent takes is the first message of its wire, and other wires stay. *)
LEMMA MessageTaken ==
  ASSUME Fields, NEW a \in Agents, NEW d \in Devices, NEW type, Arrives(a, d, type)
  PROVE  /\ link[a] \in Connections
         /\ Message(a, d) = wire[link[a]][d][1]
         /\ Message(a, d) \in Messages
         /\ Message(a, d).type = type
         /\ Shortened(link[a], d)
         /\ \A c \in Connections, e \in Devices :
              /\ wire'[c][e] \in Seq(Messages)
              /\ c # link[a] \/ e # d => wire'[c][e] = wire[c][e]
<1>1. link[a] \in Connections /\ wire[link[a]][d] \in Seq(Messages) /\ wire[link[a]][d] # <<>>
  BY DEF Arrives, Fields
<1>2. wire' = [wire EXCEPT ![link[a]][d] = Tail(@)]
  BY DEF Arrives
<1>3. wire'[link[a]][d] = Tail(wire[link[a]][d])
  BY <1>1, <1>2 DEF Fields
<1>4. \A c \in Connections, e \in Devices : c # link[a] \/ e # d => wire'[c][e] = wire[c][e]
  BY <1>1, <1>2 DEF Fields
<1>5. \A c \in Connections, e \in Devices : wire[c][e] \in Seq(Messages)
  BY DEF Fields
<1>6. Message(a, d).type = type
  BY DEF Arrives, Message
<1>7. /\ Tail(wire[link[a]][d]) \in Seq(Messages)
      /\ Head(wire[link[a]][d]) = wire[link[a]][d][1] /\ wire[link[a]][d][1] \in Messages
      /\ Shortened(link[a], d)
  BY <1>1, <1>3, HeadTaken DEF Shortened
<1>8. Message(a, d) = wire[link[a]][d][1]
  BY <1>7 DEF Message
<1>9. \A c \in Connections, e \in Devices : wire'[c][e] \in Seq(Messages)
  BY <1>3, <1>4, <1>5, <1>7
<1> QED
  BY <1>1, <1>4, <1>6, <1>7, <1>8, <1>9

(* Where a message was before the step. *)
LEMMA PlaceInExtended ==
  ASSUME Fields, NEW c \in Connections, NEW d \in Devices, NEW m, Extended(c, d, m),
         NEW i \in 1..Len(wire'[c][d])
  PROVE  /\ Len(wire[c][d]) \in Nat
         /\ \/ i \in 1..Len(wire[c][d]) /\ wire'[c][d][i] = wire[c][d][i]
            \/ i = Len(wire[c][d]) + 1 /\ wire'[c][d][i] = m
<1>1. Len(wire[c][d]) \in Nat
  BY DEF Fields
<1> QED
  BY <1>1 DEF Extended

(* After a message was taken the others move up by one. *)
LEMMA PlaceInShortened ==
  ASSUME Fields, NEW c \in Connections, NEW d \in Devices, Shortened(c, d),
         NEW i \in 1..Len(wire'[c][d])
  PROVE  /\ Len(wire[c][d]) \in Nat
         /\ i + 1 \in 1..Len(wire[c][d]) /\ wire'[c][d][i] = wire[c][d][i + 1]
<1>1. Len(wire[c][d]) \in Nat
  BY DEF Fields
<1> QED
  BY <1>1 DEF Shortened

(* What taking a message does to the generations an executor takes for current. *)
LEMMA OccupationsThen ==
  ASSUME Fields, NEW a \in Agents, NEW d \in Devices,
         Takes(a, d),
         Message(a, d).gen \in Generations
  PROVE  /\ occupations' \in [Agents -> [Devices -> Generations \union {NoGeneration}]]
         /\ \A b \in Agents, e \in Devices :
              occupations'[b][e] =
                IF b # a \/ e # d \/ Refuses(a, d) THEN occupations[b][e]
                ELSE IF Accepts(a, d) THEN Message(a, d).gen
                ELSE IF occupations[a][d] = Message(a, d).gen THEN NoGeneration
                ELSE occupations[a][d]
<1> DEFINE O == Generations \union {NoGeneration}
<1>1. PICK v \in O :
        /\ occupations' = [occupations EXCEPT ![a] = [occupations[a] EXCEPT ![d] = v]]
        /\ v = IF Refuses(a, d) THEN occupations[a][d]
               ELSE IF Accepts(a, d) THEN Message(a, d).gen
               ELSE IF occupations[a][d] = Message(a, d).gen THEN NoGeneration
               ELSE occupations[a][d]
  <2>1. occupations[a] \in [Devices -> O]
    BY DEF Fields
  <2>2. CASE Refuses(a, d)
    <3>1. occupations' = [occupations EXCEPT ![a] = [occupations[a] EXCEPT ![d] = occupations[a][d]]]
      BY <2>1, <2>2 DEF Refuses, Fields
    <3> QED
      BY <2>1, <2>2, <3>1
  <2>3. CASE Accepts(a, d) /\ ~Refuses(a, d)
    BY <2>1, <2>3 DEF Accepts
  <2>4. CASE Heeds(a, d) /\ ~Refuses(a, d) /\ ~Accepts(a, d)
    BY <2>1, <2>4 DEF Heeds
  <2> QED
    BY <2>2, <2>3, <2>4 DEF Takes
<1>2. [occupations[a] EXCEPT ![d] = v] \in [Devices -> O]
  BY DEF Fields
<1>3. occupations' \in [Agents -> [Devices -> O]]
  BY <1>1, <1>2 DEF Fields
<1>4. ASSUME NEW b \in Agents, NEW e \in Devices
      PROVE  occupations'[b][e] = IF b = a /\ e = d THEN v ELSE occupations[b][e]
  BY <1>1 DEF Fields
<1> QED
  BY <1>1, <1>3, <1>4

(* The fields keep their types. *)
LEMMA FieldsKept ==
  ASSUME Fields, Effect PROVE Fields'
<1> USE DEF Sockets, Agentwise
<1>1. CASE Closes
  BY <1>1 DEF Closes, Fields
<1>2. ASSUME NEW a \in Agents, NEW D \in SUBSET Devices, Claims(a, D) PROVE Fields'
  BY <1>2 DEF Claims, Fields
<1>3. ASSUME NEW d \in Devices, Grants(d) PROVE Fields'
  BY <1>3, PathAssumption DEF Grants, Fields, Generations, Registry!Issued
<1>4. ASSUME NEW D \in SUBSET Devices, Ends(D) PROVE Fields'
  <2>1. wire' \in [Connections -> [Devices -> Seq(Messages)]]
    <3>1. wire' = [c \in Connections |-> [d \in Devices |-> wire'[c][d]]]
      BY <1>4, Zenon DEF Ends, Notify
    <3> QED
      BY <1>4, <3>1, NoticesSent
  <2> QED
    BY <1>4, <2>1 DEF Ends, Fields
<1>5. ASSUME NEW r \in Requests, NEW d \in Devices, Sends(r, d) PROVE Fields'
  <2>1. wire' \in [Connections -> [Devices -> Seq(Messages)]]
    <3>1. wire' = [c \in Connections |-> [e \in Devices |-> wire'[c][e]]]
      BY <1>5 DEF Sends, Fields
    <3> QED
      BY <1>5, <3>1, CommandOnWire
  <2> QED
    BY <1>5, <2>1 DEF Sends, Fields
<1>6. ASSUME NEW a \in Agents, NEW c \in Connections, Connects(a, c) PROVE Fields'
  BY <1>6 DEF Connects, Fields
<1>7. ASSUME NEW a \in Agents, Cuts(a) PROVE Fields'
  <2>1. EmptyWire \in [Devices -> Seq(Messages)]
    BY DEF EmptyWire
  <2> QED
    BY <1>7, <2>1 DEF Cuts, Fields, NoOccupations
<1>8. ASSUME NEW a \in Agents, NEW d \in Attached[a], Takes(a, d)
      PROVE  Fields'
  <2>1. d \in Devices
    BY PathAssumption
  <2>2. PICK type : Arrives(a, d, type)
    BY <1>8 DEF Takes, Accepts, Refuses, Heeds
  <2>3. Message(a, d).gen \in Generations
    BY <2>1, <2>2, MessageTaken, MessageKinds
  <2>4. wire' \in [Connections -> [Devices -> Seq(Messages)]]
    <3>1. wire' = [c \in Connections |-> [e \in Devices |-> wire'[c][e]]]
      BY <2>2 DEF Arrives, Fields
    <3> QED
      BY <2>1, <2>2, <3>1, MessageTaken
  <2>5. occupations' \in [Agents -> [Devices -> Generations \union {NoGeneration}]]
    BY <1>8, <2>1, <2>3, OccupationsThen
  <2>6. newest' \in [Devices -> Generations \union {NoGeneration}]
    BY <1>8, <2>3 DEF Takes, Accepts, Refuses, Heeds, Fields
  <2>7. revoked' \in [Agents -> SUBSET Generations]
    BY <1>8, <2>3 DEF Takes, Accepts, Refuses, Heeds, Fields
  <2> QED
    BY <1>8, <2>4, <2>5, <2>6, <2>7 DEF Takes, Accepts, Refuses, Heeds, Fields
<1> QED
  BY <1>1, <1>2, <1>3, <1>4, <1>5, <1>6, <1>7, <1>8 DEF Effect

-------------------------------------------------------------------------------
(* The parts of the invariant. *)
LEMMA TunnelsKept ==
  ASSUME Fields, Tunnels, Effect PROVE Tunnels'
<1> USE PathAssumption DEF Tunnels, OwnSockets, Sockets, Agentwise, Read
<1>1. CASE Closes
  BY <1>1 DEF Closes, Fields
<1>2. ASSUME NEW a \in Agents, NEW D \in SUBSET Devices, Claims(a, D) PROVE Tunnels'
  BY <1>2 DEF Claims
<1>3. ASSUME NEW d \in Devices, Grants(d) PROVE Tunnels'
  BY <1>3 DEF Grants
<1>4. ASSUME NEW D \in SUBSET Devices, Ends(D) PROVE Tunnels'
  <2>1. \A c \in Connections, d \in Devices : wire'[c][d] # wire[c][d] => Read(c)
    BY <1>4, NoticesSent
  <2> QED
    BY <1>4, <2>1 DEF Ends
<1>5. ASSUME NEW r \in Requests, NEW d \in Devices, Sends(r, d) PROVE Tunnels'
  <2>1. \A c \in Connections, e \in Devices : wire'[c][e] # wire[c][e] => Read(c)
    BY <1>5, CommandOnWire
  <2> QED
    BY <1>5, <2>1 DEF Sends
<1>6. ASSUME NEW a \in Agents, NEW c \in Connections, Connects(a, c) PROVE Tunnels'
  BY <1>6 DEF Connects, Fields
<1>7. ASSUME NEW a \in Agents, Cuts(a) PROVE Tunnels'
  BY <1>7 DEF Cuts, Fields, EmptyWire, NoOccupations
<1>8. ASSUME NEW a \in Agents, NEW d \in Attached[a], Takes(a, d)
      PROVE  Tunnels'
  <2>1. d \in Devices
    OBVIOUS
  <2>2. PICK type : Arrives(a, d, type)
    BY <1>8 DEF Takes, Accepts, Refuses, Heeds
  <2>3. Message(a, d).gen \in Generations /\ link[a] \in Connections
    BY <2>1, <2>2, MessageTaken, MessageKinds
  <2>4. \A c \in Connections, e \in Devices : wire'[c][e] # wire[c][e] => c = link[a]
    BY <2>1, <2>2, MessageTaken
  <2>5. \A b \in Agents, e \in Devices : occupations'[b][e] # occupations[b][e] => b = a
    BY <1>8, <2>1, <2>3, OccupationsThen
  <2> QED
    BY <1>8, <2>3, <2>4, <2>5 DEF Takes, Accepts, Refuses, Heeds
<1> QED
  BY <1>1, <1>2, <1>3, <1>4, <1>5, <1>6, <1>7, <1>8 DEF Effect

(* What a step can do to the messages of a device on a socket. *)
Commanded(c, d) ==
  /\ occupant[d] \in Generations /\ occupant' = occupant
  /\ \E r \in Requests : Extended(c, d, Command(r, occupant[d]))

Noticed(c, d) ==
  /\ occupant[d] \in Generations /\ occupant'[d] = NoGeneration
  /\ \A e \in Devices : occupant'[e] \in {occupant[e], NoGeneration}
  /\ Extended(c, d, OccupancyEnded(occupant[d]))

(* A wire stays, is cleared, loses its first message, or gets a command of the present
   occupation or the notice of its end. *)
LEMMA WireSteps ==
  ASSUME Fields, Effect, NEW c \in Connections, NEW d \in Devices
  PROVE  \/ wire'[c][d] = wire[c][d]
         \/ wire'[c][d] = <<>> /\ \E a \in Agents : link[a] = c /\ link'[a] = NoConnection
         \/ Shortened(c, d) /\ \E a \in Agents : link[a] = c /\ d \in Attached[a] /\ Takes(a, d)
         \/ Commanded(c, d)
         \/ Noticed(c, d)
<1> USE DEF Agentwise
<1>1. ASSUME NEW D \in SUBSET Devices, Ends(D)
      PROVE  wire'[c][d] = wire[c][d] \/ Noticed(c, d)
  <2>1. CASE d \in D /\ Extended(c, d, OccupancyEnded(occupant[d]))
    BY <1>1, <2>1 DEF Ends, Noticed, Fields
  <2> QED
    BY <1>1, <2>1, NoticesSent
<1>2. ASSUME NEW r \in Requests, NEW e \in Devices, Sends(r, e)
      PROVE  wire'[c][d] = wire[c][d] \/ Commanded(c, d)
  <2>1. CASE d = e /\ Extended(c, d, Command(r, occupant[d]))
    BY <1>2, <2>1 DEF Sends, Commanded, Fields
  <2> QED
    BY <1>2, <2>1, CommandOnWire
<1>3. ASSUME NEW a \in Agents, Cuts(a)
      PROVE  \/ wire'[c][d] = wire[c][d]
             \/ wire'[c][d] = <<>> /\ link[a] = c /\ link'[a] = NoConnection
  BY <1>3 DEF Cuts, EmptyWire, Fields
<1>4. ASSUME NEW a \in Agents, NEW e \in Attached[a], Takes(a, e)
      PROVE  \/ wire'[c][d] = wire[c][d]
             \/ Shortened(c, d) /\ link[a] = c /\ d \in Attached[a] /\ Takes(a, d)
  <2>1. e \in Devices
    BY PathAssumption
  <2>2. PICK type : Arrives(a, e, type)
    BY <1>4 DEF Takes, Accepts, Refuses, Heeds
  <2>3. CASE c = link[a] /\ d = e
    BY <1>4, <2>1, <2>2, <2>3, MessageTaken
  <2>4. CASE c # link[a] \/ d # e
    BY <2>1, <2>2, <2>4, MessageTaken
  <2> QED
    BY <2>3, <2>4
<1>5. ASSUME \/ Closes
             \/ \E a \in Agents : \E D \in SUBSET Devices : Claims(a, D)
             \/ \E e \in Devices : Grants(e)
             \/ \E a \in Agents, e \in Connections : Connects(a, e)
      PROVE  wire' = wire
  BY <1>5 DEF Closes, Claims, Grants, Connects
<1> QED
  BY <1>1, <1>2, <1>3, <1>4, <1>5 DEF Effect

(* ... and to the occupant of a device. *)
LEMMA OccupantSteps ==
  ASSUME Fields, Effect, NEW d \in Devices
  PROVE  \/ occupant'[d] = occupant[d]
         \/ occupant'[d] = NoGeneration
         \/ Grants(d) /\ occupant'[d] = nextGen
<1>1. ASSUME NEW D \in SUBSET Devices, Ends(D) PROVE occupant'[d] \in {occupant[d], NoGeneration}
  BY <1>1 DEF Ends
<1>2. ASSUME NEW e \in Devices, Grants(e)
      PROVE  occupant'[d] = occupant[d] \/ (d = e /\ occupant'[d] = nextGen)
  BY <1>2 DEF Grants, Fields
<1>3. \/ occupant' = occupant
      \/ \E e \in Devices : Grants(e)
      \/ \E D \in SUBSET Devices : Ends(D)
  BY DEF Effect, Closes, Claims, Sends, Connects, Cuts, Takes, Accepts, Refuses, Heeds
<1> QED
  BY <1>1, <1>2, <1>3

(* ... to what an executor takes for current, *)
LEMMA OccupationSteps ==
  ASSUME Fields, Effect, NEW b \in Agents, NEW e \in Devices
  PROVE  \/ occupations'[b][e] = occupations[b][e]
         \/ occupations'[b][e] = NoGeneration
         \/ e \in Attached[b] /\ Accepts(b, e) /\ occupations'[b][e] = Message(b, e).gen
<1>1. ASSUME NEW a \in Agents, NEW d \in Attached[a], Takes(a, d)
      PROVE  \/ occupations'[b][e] = occupations[b][e]
             \/ occupations'[b][e] = NoGeneration
             \/ e \in Attached[b] /\ Accepts(b, e) /\ occupations'[b][e] = Message(b, e).gen
  <2>1. d \in Devices
    BY PathAssumption
  <2>2. PICK type : Arrives(a, d, type)
    BY <1>1 DEF Takes, Accepts, Refuses, Heeds
  <2>3. Message(a, d).gen \in Generations
    BY <2>1, <2>2, MessageTaken, MessageKinds
  <2> QED
    BY <1>1, <2>1, <2>3, OccupationsThen
<1>2. ASSUME NEW a \in Agents, Cuts(a)
      PROVE  occupations'[b][e] \in {occupations[b][e], NoGeneration}
  BY <1>2 DEF Cuts, NoOccupations, Fields
<1>3. \/ occupations' = occupations
      \/ \E a \in Agents : Cuts(a)
      \/ \E a \in Agents : \E d \in Attached[a] : Takes(a, d)
  BY DEF Effect, Closes, Claims, Grants, Ends, Sends, Connects, Agentwise
<1> QED
  BY <1>1, <1>2, <1>3

(* ... and to the socket of an agent. *)
LEMMA LinkSteps ==
  ASSUME Fields, Effect, NEW a \in Agents
  PROVE  \/ link'[a] = link[a]
         \/ link'[a] = NoConnection
         \/ link[a] = NoConnection /\ ~Read(link'[a]) /\ link'[a] \in Connections
<1>1. ASSUME NEW b \in Agents, NEW c \in Connections, Connects(b, c)
      PROVE  link'[a] = link[a] \/ (link[a] = NoConnection /\ ~Read(c) /\ link'[a] = c)
  BY <1>1 DEF Connects, Fields
<1>2. ASSUME NEW b \in Agents, Cuts(b) PROVE link'[a] \in {link[a], NoConnection}
  BY <1>2 DEF Cuts, Fields
<1>3. \/ link' = link
      \/ \E b \in Agents : Cuts(b)
      \/ \E b \in Agents, c \in Connections : Connects(b, c)
  BY DEF Effect, Closes, Claims, Grants, Ends, Sends, Takes, Accepts, Refuses, Heeds, Agentwise
<1> QED
  BY <1>1, <1>2, <1>3

(* A generation comes on the path by being granted, and in no other way. *)
LEMMA CarriedBefore ==
  ASSUME Fields, Effect, NEW d \in Devices, NEW g \in Generations, Carries(d, g)'
  PROVE  Carries(d, g) \/ (g = nextGen /\ Grants(d))
<1> USE PathAssumption DEF Carries, Sockets, Agentwise
<1>1. CASE Closes
  BY <1>1 DEF Closes
<1>2. ASSUME NEW a \in Agents, NEW D \in SUBSET Devices, Claims(a, D) PROVE Carries(d, g)
  BY <1>2 DEF Claims
<1>3. ASSUME NEW e \in Devices, Grants(e) PROVE Carries(d, g) \/ (g = nextGen /\ Grants(d))
  BY <1>3 DEF Grants, Fields
<1>4. ASSUME NEW D \in SUBSET Devices, Ends(D) PROVE Carries(d, g)
  <2>1. occupant'[d] = g => occupant[d] = g
    BY <1>4 DEF Ends
  <2>2. ASSUME NEW c \in Connections, NEW i \in 1..Len(wire'[c][d]), wire'[c][d][i].gen = g
        PROVE  Carries(d, g)
    <3>1. CASE wire'[c][d] = wire[c][d]
      BY <2>2, <3>1
    <3>2. CASE d \in D /\ Extended(c, d, OccupancyEnded(occupant[d]))
      <4>1. OccupancyEnded(occupant[d]).gen = occupant[d]
        BY DEF OccupancyEnded
      <4> QED
        BY <2>2, <3>2, <4>1, PlaceInExtended
    <3> QED
      BY <1>4, <3>1, <3>2, NoticesSent
  <2> QED
    BY <1>4, <2>1, <2>2 DEF Ends
<1>5. ASSUME NEW r \in Requests, NEW e \in Devices, Sends(r, e) PROVE Carries(d, g)
  <2>1. ASSUME NEW c \in Connections, NEW i \in 1..Len(wire'[c][d]), wire'[c][d][i].gen = g
        PROVE  Carries(d, g)
    <3>1. CASE wire'[c][d] = wire[c][d]
      BY <2>1, <3>1
    <3>2. CASE d = e /\ Extended(c, d, Command(r, occupant[d]))
      <4>1. Command(r, occupant[d]).gen = occupant[d]
        BY DEF Command
      <4> QED
        BY <2>1, <3>2, <4>1, PlaceInExtended
    <3> QED
      BY <1>5, <3>1, <3>2, CommandOnWire
  <2> QED
    BY <1>5, <2>1 DEF Sends
<1>6. ASSUME NEW a \in Agents, NEW c \in Connections, Connects(a, c) PROVE Carries(d, g)
  BY <1>6 DEF Connects
<1>7. ASSUME NEW a \in Agents, Cuts(a) PROVE Carries(d, g)
  BY <1>7 DEF Cuts, Fields, EmptyWire, NoOccupations
<1>8. ASSUME NEW a \in Agents, NEW e \in Attached[a], Takes(a, e)
      PROVE  Carries(d, g)
  <2>1. e \in Devices
    OBVIOUS
  <2>2. PICK type : Arrives(a, e, type)
    BY <1>8 DEF Takes, Accepts, Refuses, Heeds
  <2>3. /\ Message(a, e).gen \in Generations /\ link[a] \in Connections
        /\ Message(a, e) = wire[link[a]][e][1] /\ Shortened(link[a], e)
    BY <2>1, <2>2, MessageTaken, MessageKinds
  <2>4. 1 \in 1..Len(wire[link[a]][e])
    BY <2>1, <2>3 DEF Shortened, Fields
  <2>5. ASSUME NEW c \in Connections, NEW i \in 1..Len(wire'[c][d]), wire'[c][d][i].gen = g
        PROVE  Carries(d, g)
    <3>1. CASE wire'[c][d] = wire[c][d]
      BY <2>5, <3>1
    <3>2. CASE c = link[a] /\ d = e
      <4>1. i + 1 \in 1..Len(wire[c][d]) /\ wire[c][d][i + 1].gen = g
        BY <2>3, <2>5, <3>2, PlaceInShortened
      <4> QED
        BY <4>1
    <3> QED
      BY <2>1, <2>2, <3>1, <3>2, MessageTaken
  <2>6. ASSUME NEW b \in Agents, occupations'[b][d] = g PROVE Carries(d, g)
    <3>1. CASE occupations[b][d] = g
      BY <3>1
    <3>2. CASE d = e /\ g = Message(a, e).gen
      BY <2>3, <2>4, <3>2
    <3> QED
      BY <1>8, <2>1, <2>3, <2>6, <3>1, <3>2, OccupationsThen
  <2>7. occupant' = occupant
    BY <1>8 DEF Takes, Accepts, Refuses, Heeds
  <2> QED
    BY <2>5, <2>6, <2>7
<1> QED
  BY <1>1, <1>2, <1>3, <1>4, <1>5, <1>6, <1>7, <1>8 DEF Effect

(* Generations are handed out in order. *)
LEMMA NextGrows ==
  ASSUME Fields, Effect
  PROVE  /\ nextGen \in Nat /\ nextGen' \in Nat /\ nextGen <= nextGen'
         /\ \A d \in Devices : Grants(d) => nextGen' = nextGen + 1
<1>1. nextGen \in Nat
  BY PathAssumption DEF Fields
<1>2. ASSUME NEW d \in Devices, Grants(d) PROVE nextGen' = nextGen + 1
  BY <1>2 DEF Grants
<1>3. nextGen' = nextGen \/ \E d \in Devices : Grants(d)
  BY DEF Effect, Closes, Claims, Ends, Sends, Connects, Cuts, Takes, Accepts, Refuses, Heeds
<1> QED
  BY <1>1, <1>2, <1>3

(* A generation still belongs to one device. *)
LEMMA OneDeviceKept ==
  ASSUME Fields, OneDeviceEach, Effect PROVE OneDeviceEach'
<1> SUFFICES ASSUME NEW d \in Devices, NEW g \in Generations, Carries(d, g)'
             PROVE  g < nextGen' /\ \A e \in Devices : Carries(e, g)' => e = d
  BY DEF OneDeviceEach
<1>1. g \in Nat
  BY PathAssumption DEF Generations, Registry!Issued
<1>2. CASE Carries(d, g)
  <2>1. g < nextGen /\ \A e \in Devices : Carries(e, g) => e = d
    BY <1>2 DEF OneDeviceEach
  <2> QED
    BY <1>1, <2>1, CarriedBefore, NextGrows
<1>3. CASE g = nextGen /\ Grants(d)
  <2>1. \A e \in Devices : ~Carries(e, g)
    BY <1>1, <1>3 DEF OneDeviceEach
  <2>2. ASSUME NEW e \in Devices, Grants(e) PROVE e = d
    BY <1>1, <1>3, <2>2, PathAssumption DEF Grants, Fields, NoGeneration, Registry!Unoccupied
  <2> QED
    BY <1>1, <1>3, <2>1, <2>2, CarriedBefore, NextGrows
<1> QED
  BY <1>2, <1>3, CarriedBefore

(* What was handed out and is not held by a device is not given to it again. *)
LEMMA NotHeldAgain ==
  ASSUME Fields, Effect, NEW g \in Generations, g < nextGen,
         NEW d \in Devices, occupant[d] # g
  PROVE  occupant'[d] # g
<1>1. g \in Nat /\ g # NoGeneration
  BY PathAssumption DEF Generations, Registry!Issued, NoGeneration, Registry!Unoccupied
<1> QED
  BY <1>1, OccupantSteps, NextGrows

(* A message on a wire has a generation. *)
LEMMA MessageGen ==
  ASSUME Fields, NEW c \in Connections, NEW d \in Devices, NEW i \in 1..Len(wire[c][d])
  PROVE  wire[c][d][i] \in Messages /\ wire[c][d][i].gen \in Generations
  BY MessageKinds DEF Fields

(* It was issued. *)
LEMMA OnWireIsIssued ==
  ASSUME Fields, OneDeviceEach,
         NEW c \in Connections, NEW d \in Devices, NEW i \in 1..Len(wire[c][d])
  PROVE  wire[c][d][i].gen < nextGen
<1>1. wire[c][d][i].gen \in Generations
  BY MessageGen
<1>2. wire[c][d][i].gen # NoGeneration
  BY <1>1, PathAssumption DEF Generations, Registry!Issued, NoGeneration, Registry!Unoccupied
<1>3. Carries(d, wire[c][d][i].gen)
  BY <1>2 DEF Carries
<1> QED
  BY <1>1, <1>3 DEF OneDeviceEach

(* A notice remains the last word on its generation. *)
LEMMA NoticeKept ==
  ASSUME Fields, OneDeviceEach, NoticeIsLast, Effect PROVE NoticeIsLast'
<1> DEFINE LastWord(c, d, i) ==
      /\ \A e \in Devices : occupant[e] # wire[c][d][i].gen
      /\ \A j \in (i + 1)..Len(wire[c][d]) :
           IsCommand(wire[c][d][j]) => wire[c][d][j].gen # wire[c][d][i].gen
<1>1. ASSUME NEW c \in Connections, NEW d \in Devices, NEW i \in 1..Len(wire[c][d]),
             IsNotice(wire[c][d][i])
      PROVE  /\ LastWord(c, d, i)
             /\ \A e \in Devices : occupant'[e] # wire[c][d][i].gen
  <2>1. LastWord(c, d, i)
    BY <1>1 DEF NoticeIsLast
  <2>2. wire[c][d][i].gen \in Generations /\ wire[c][d][i].gen < nextGen
    BY MessageGen, OnWireIsIssued
  <2>3. \A e \in Devices : occupant[e] # wire[c][d][i].gen
    BY <2>1
  <2> QED
    BY <2>1, <2>2, <2>3, NotHeldAgain
<1> SUFFICES ASSUME NEW c \in Connections, NEW d \in Devices, NEW i \in 1..Len(wire'[c][d]),
                    IsNotice(wire'[c][d][i])
             PROVE  /\ \A e \in Devices : occupant'[e] # wire'[c][d][i].gen
                    /\ \A j \in (i + 1)..Len(wire'[c][d]) :
                         IsCommand(wire'[c][d][j]) => wire'[c][d][j].gen # wire'[c][d][i].gen
  BY DEF NoticeIsLast, IsNotice, IsCommand
<1>0. Len(wire[c][d]) \in Nat
  BY DEF Fields
<1>2. CASE wire'[c][d] = wire[c][d]
  BY <1>1, <1>2
<1>3. CASE wire'[c][d] = <<>>
  BY <1>3
<1>4. CASE Shortened(c, d)
  <2>1. i + 1 \in 1..Len(wire[c][d]) /\ wire'[c][d][i] = wire[c][d][i + 1]
    BY <1>4, PlaceInShortened
  <2>2. IsNotice(wire[c][d][i + 1])
    BY <2>1
  <2>3. LastWord(c, d, i + 1) /\ \A e \in Devices : occupant'[e] # wire[c][d][i + 1].gen
    BY <1>1, <2>1, <2>2
  <2>4. ASSUME NEW j \in (i + 1)..Len(wire'[c][d])
        PROVE  j + 1 \in (i + 2)..Len(wire[c][d]) /\ wire'[c][d][j] = wire[c][d][j + 1]
    <3>1. Len(wire'[c][d]) = Len(wire[c][d]) - 1 /\ i \in Nat /\ i >= 1
      BY <1>0, <1>4 DEF Shortened
    <3>2. j \in 1..Len(wire'[c][d]) /\ j + 1 \in (i + 2)..Len(wire[c][d])
      BY <1>0, <3>1
    <3> QED
      BY <1>4, <3>2, PlaceInShortened
  <2>5. i + 1 + 1 = i + 2
    OBVIOUS
  <2>6. \A j \in (i + 2)..Len(wire[c][d]) :
          IsCommand(wire[c][d][j]) => wire[c][d][j].gen # wire[c][d][i + 1].gen
    BY <2>3, <2>5
  <2>7. \A e \in Devices : occupant'[e] # wire'[c][d][i].gen
    BY <2>1, <2>3
  <2>8. \A j \in (i + 1)..Len(wire'[c][d]) :
          IsCommand(wire'[c][d][j]) => wire'[c][d][j].gen # wire'[c][d][i].gen
    BY <2>1, <2>4, <2>6
  <2> QED
    BY <2>7, <2>8
<1>5. CASE Commanded(c, d)
  <2>1. PICK r \in Requests : Extended(c, d, Command(r, occupant[d]))
    BY <1>5 DEF Commanded
  <2>2. occupant[d] \in Generations
    BY <1>5 DEF Commanded
  <2>3. i \in 1..Len(wire[c][d]) /\ wire'[c][d][i] = wire[c][d][i]
    BY <2>1, <2>2, PlaceInExtended, Made, MessageKinds
  <2>4. LastWord(c, d, i) /\ \A e \in Devices : occupant'[e] # wire[c][d][i].gen
    BY <1>1, <2>3
  <2>5. ASSUME NEW j \in (i + 1)..Len(wire'[c][d])
        PROVE  \/ j \in (i + 1)..Len(wire[c][d]) /\ wire'[c][d][j] = wire[c][d][j]
               \/ wire'[c][d][j].gen = occupant[d]
    BY <1>0, <2>1, <2>2, Made DEF Extended
  <2> QED
    BY <2>3, <2>4, <2>5
<1>6. CASE Noticed(c, d)
  <2>1. Extended(c, d, OccupancyEnded(occupant[d])) /\ occupant[d] \in Generations
    BY <1>6 DEF Noticed
  <2>2. ASSUME NEW j \in (i + 1)..Len(wire'[c][d])
        PROVE  \/ j \in (i + 1)..Len(wire[c][d]) /\ wire'[c][d][j] = wire[c][d][j]
               \/ i \in 1..Len(wire[c][d]) /\ ~IsCommand(wire'[c][d][j])
    BY <1>0, <2>1, Made, MessageKinds DEF Extended
  <2>3. CASE i \in 1..Len(wire[c][d]) /\ wire'[c][d][i] = wire[c][d][i]
    BY <1>1, <2>2, <2>3
  <2>4. CASE i = Len(wire[c][d]) + 1 /\ wire'[c][d][i] = OccupancyEnded(occupant[d])
    <3>1. wire'[c][d][i].gen = occupant[d]
      BY <2>1, <2>4, Made
    <3>2. ASSUME NEW e \in Devices, occupant'[e] = occupant[d] PROVE FALSE
      <4>1. occupant[d] # NoGeneration
        BY <2>1, PathAssumption
          DEF Generations, Registry!Issued, NoGeneration, Registry!Unoccupied
      <4>2. occupant[e] = occupant[d] /\ e # d
        BY <1>6, <3>2, <4>1 DEF Noticed
      <4>3. Carries(d, occupant[d]) /\ Carries(e, occupant[d])
        BY <4>1, <4>2 DEF Carries
      <4> QED
        BY <2>1, <4>2, <4>3 DEF OneDeviceEach
    <3>3. (i + 1)..Len(wire'[c][d]) = {}
      BY <1>0, <2>1, <2>4 DEF Extended
    <3> QED
      BY <3>1, <3>2, <3>3
  <2> QED
    BY <2>1, <2>3, <2>4, PlaceInExtended
<1> QED
  BY <1>2, <1>3, <1>4, <1>5, <1>6, WireSteps

(* What is over for an agent stays over. *)
LEMMA RevokedKept ==
  ASSUME Fields, Tunnels, OneDeviceEach, NoticeIsLast, RevokedIsOver, Effect PROVE RevokedIsOver'
<1> SUFFICES ASSUME NEW a \in Agents, NEW g \in revoked'[a]
             PROVE  /\ g < nextGen'
                    /\ \A d \in Devices : occupant'[d] # g /\ occupations'[a][d] # g
                    /\ link'[a] # NoConnection =>
                         \A d \in Devices : \A i \in 1..Len(wire'[link'[a]][d]) :
                           IsCommand(wire'[link'[a]][d][i]) => wire'[link'[a]][d][i].gen # g
  BY DEF RevokedIsOver, IsCommand
<1>1. g \in Generations /\ g \in Nat /\ g # NoGeneration
  BY FieldsKept, PathAssumption
    DEF Fields, Generations, Registry!Issued, NoGeneration, Registry!Unoccupied
<1>2. a \in Agents /\ revoked[a] \subseteq Generations
  BY DEF Fields
<1>3. g \in revoked[a] \/ \E d \in Attached[a] : Heeds(a, d) /\ g = Message(a, d).gen
  <2>1. ASSUME NEW b \in Agents, NEW d \in Attached[b], Heeds(b, d)
        PROVE  g \in revoked[a] \/ (a = b /\ g = Message(a, d).gen)
    BY <2>1 DEF Heeds, Fields
  <2>2. revoked' = revoked \/ \E b \in Agents : \E d \in Attached[b] : Heeds(b, d)
    BY DEF Effect, Closes, Claims, Grants, Ends, Sends, Connects, Cuts, Takes, Accepts, Refuses,
       Agentwise
  <2> QED
    BY <2>1, <2>2
(* Once no device holds g, and no command of it is on the way, none comes back. *)
<1>4. ASSUME g < nextGen, \A d \in Devices : occupant[d] # g,
             NEW d \in Devices, NEW i \in 1..Len(wire'[link'[a]][d]), link'[a] # NoConnection,
             \A j \in 1..Len(wire[link'[a]][d]) :
               IsCommand(wire[link'[a]][d][j]) => wire[link'[a]][d][j].gen # g
      PROVE  IsCommand(wire'[link'[a]][d][i]) => wire'[link'[a]][d][i].gen # g
  <2> DEFINE c == link'[a]
  <2>1. c \in Connections
    BY <1>4, FieldsKept DEF Fields
  <2>2. CASE wire'[c][d] = wire[c][d] \/ wire'[c][d] = <<>>
    BY <1>4, <2>2
  <2>3. CASE Shortened(c, d)
    BY <1>4, <2>1, <2>3, PlaceInShortened
  <2>4. CASE Commanded(c, d)
    <3>1. PICK r \in Requests : Extended(c, d, Command(r, occupant[d]))
      BY <2>4 DEF Commanded
    <3>2. Command(r, occupant[d]).gen = occupant[d]
      BY DEF Command
    <3> QED
      BY <1>4, <2>1, <3>1, <3>2, PlaceInExtended
  <2>5. CASE Noticed(c, d)
    <3>1. OccupancyEnded(occupant[d]).gen = occupant[d]
      BY DEF OccupancyEnded
    <3> QED
      BY <1>4, <2>1, <2>5, <3>1, PlaceInExtended DEF Noticed
  <2> QED
    BY <2>1, <2>2, <2>3, <2>4, <2>5, WireSteps
<1>5. CASE g \in revoked[a]
  <2>1. /\ g < nextGen
        /\ \A d \in Devices : occupant[d] # g /\ occupations[a][d] # g
        /\ link[a] # NoConnection =>
             \A d \in Devices : \A i \in 1..Len(wire[link[a]][d]) :
               IsCommand(wire[link[a]][d][i]) => wire[link[a]][d][i].gen # g
    BY <1>2, <1>5 DEF RevokedIsOver
  <2>2. \A d \in Devices : occupant'[d] # g
    BY <1>1, <2>1, NotHeldAgain
  <2>3. ASSUME NEW d \in Devices PROVE occupations'[a][d] # g
    <3>1. CASE d \in Attached[a] /\ Accepts(a, d) /\ occupations'[a][d] = Message(a, d).gen
      <4>1. Arrives(a, d, "command")
        BY <3>1 DEF Accepts
      <4>2. /\ Shortened(link[a], d) /\ link[a] \in Connections
             /\ Message(a, d) = wire[link[a]][d][1]
            /\ IsCommand(Message(a, d))
        BY <1>2, <4>1, MessageTaken DEF IsCommand
      <4>3. 1 \in 1..Len(wire[link[a]][d])
        BY <4>2 DEF Shortened, Fields
      <4> QED
        BY <2>1, <3>1, <4>2, <4>3, PathAssumption
    <3> QED
      BY <1>1, <1>2, <2>1, <3>1, OccupationSteps
  <2>4. link'[a] # NoConnection => \A d \in Devices : \A j \in 1..Len(wire[link'[a]][d]) :
          IsCommand(wire[link'[a]][d][j]) => wire[link'[a]][d][j].gen # g
    <3>1. CASE link'[a] = link[a]
      BY <2>1, <3>1
    <3>2. CASE ~Read(link'[a]) /\ link'[a] \in Connections
      BY <3>2 DEF Tunnels
    <3> QED
      BY <1>2, <3>1, <3>2, LinkSteps
  <2> QED
    BY <1>1, <1>4, <2>1, <2>2, <2>3, <2>4, NextGrows
<1>6. ASSUME NEW d \in Attached[a], Heeds(a, d), g = Message(a, d).gen
      PROVE  /\ g < nextGen'
             /\ \A e \in Devices : occupant'[e] # g /\ occupations'[a][e] # g
             /\ link'[a] # NoConnection =>
                  \A e \in Devices : \A i \in 1..Len(wire'[link'[a]][e]) :
                    IsCommand(wire'[link'[a]][e][i]) => wire'[link'[a]][e][i].gen # g
  <2>1. d \in Devices /\ Arrives(a, d, "occupancyEnded")
    BY <1>2, <1>6, PathAssumption DEF Heeds
  <2> DEFINE c == link[a]
  <2>2. /\ c \in Connections /\ Message(a, d) = wire[c][d][1]
        /\ IsNotice(Message(a, d)) /\ Shortened(c, d)
        /\ \A e \in Devices : e # d => wire'[c][e] = wire[c][e]
    BY <1>2, <2>1, MessageTaken DEF IsNotice
  <2>3. Len(wire[c][d]) \in Nat /\ 1 \in 1..Len(wire[c][d])
    BY <2>1, <2>2 DEF Shortened, Fields
  <2>4. Carries(d, g)
    BY <1>1, <1>6, <2>2, <2>3 DEF Carries
  <2>5. g < nextGen /\ \A e \in Devices : Carries(e, g) => e = d
    BY <1>1, <2>1, <2>4 DEF OneDeviceEach
  <2>6. /\ \A e \in Devices : occupant[e] # g
        /\ \A j \in 2..Len(wire[c][d]) : IsCommand(wire[c][d][j]) => wire[c][d][j].gen # g
    <3>1. 1 + 1 = 2
      OBVIOUS
    <3> QED
      BY <1>6, <2>1, <2>2, <2>3, <3>1 DEF NoticeIsLast
  <2>7. ASSUME NEW e \in Devices PROVE occupations'[a][e] # g
    <3>1. CASE e = d
      BY <1>1, <1>2, <1>6, <2>1, <3>1 DEF Heeds, Fields
    <3>2. CASE e # d
      <4>1. occupations'[a][e] = occupations[a][e]
        BY <1>2, <1>6, <2>1, <3>2 DEF Heeds, Fields
      <4>2. ~Carries(e, g)
        BY <2>5, <3>2
      <4> QED
        BY <1>1, <1>2, <4>1, <4>2 DEF Carries
    <3> QED
      BY <3>1, <3>2
  <2>8. ASSUME NEW e \in Devices, NEW i \in 1..Len(wire'[c][e]), IsCommand(wire'[c][e][i])
        PROVE  wire'[c][e][i].gen # g
    <3>1. CASE e = d
      <4>1. i + 1 \in 2..Len(wire[c][d]) /\ wire'[c][d][i] = wire[c][d][i + 1]
        BY <2>1, <2>2, <2>3, <2>8, <3>1, PlaceInShortened
      <4> QED
        BY <2>6, <2>8, <3>1, <4>1
    <3>2. CASE e # d
      <4>1. ~Carries(e, g)
        BY <2>5, <3>2
      <4> QED
        BY <1>1, <2>2, <2>8, <3>2, <4>1 DEF Carries
    <3> QED
      BY <3>1, <3>2
  <2>9. link'[a] = c
    BY <1>6 DEF Heeds
  <2>10. \A e \in Devices : occupant'[e] # g
    BY <1>1, <2>5, <2>6, NotHeldAgain
  <2> QED
    BY <1>1, <2>5, <2>7, <2>8, <2>9, <2>10, NextGrows
<1> QED
  BY <1>3, <1>5, <1>6

(* An agent comes to be involved with a device only as the one its row names. *)
LEMMA InvolvedBefore ==
  ASSUME Fields, Tunnels, Effect, NEW a \in Agents, NEW d \in Devices, Involved(a, d)'
  PROVE  Involved(a, d) \/ (agentOf[d] = a /\ agentOf' = agentOf)
<1> USE PathAssumption DEF Involved, Sockets, Agentwise
(* The socket the server uses for b is read by b, if by anyone. *)
<1>0. ASSUME NEW b \in Agents, agentSocket[b] = link[a], link[a] # NoConnection PROVE a = b
  BY <1>0 DEF Tunnels, OwnSockets
<1>1. CASE Closes
  BY <1>1 DEF Closes
<1>2. ASSUME NEW b \in Agents, NEW D \in SUBSET Devices, Claims(b, D) PROVE Involved(a, d)
  BY <1>2 DEF Claims
<1>3. ASSUME NEW e \in Devices, Grants(e) PROVE Involved(a, d)
  BY <1>3 DEF Grants
<1>4. ASSUME NEW D \in SUBSET Devices, Ends(D)
      PROVE  Involved(a, d) \/ (agentOf[d] = a /\ agentOf' = agentOf)
  <2>1. link' = link /\ occupations' = occupations /\ agentOf' = agentOf
    BY <1>4 DEF Ends
  <2>2. CASE link[a] \in Connections /\ wire'[link[a]][d] # wire[link[a]][d]
    BY <1>0, <1>4, <2>1, <2>2, NoticesSent
  <2> QED
    BY <2>1, <2>2 DEF Fields
<1>5. ASSUME NEW r \in Requests, NEW e \in Devices, Sends(r, e)
      PROVE  Involved(a, d) \/ (agentOf[d] = a /\ agentOf' = agentOf)
  <2>1. link' = link /\ occupations' = occupations /\ agentOf' = agentOf
    BY <1>5 DEF Sends
  <2>2. CASE link[a] \in Connections /\ wire'[link[a]][d] # wire[link[a]][d]
    BY <1>0, <1>5, <2>1, <2>2, CommandOnWire
  <2> QED
    BY <2>1, <2>2 DEF Fields
<1>6. ASSUME NEW b \in Agents, NEW c \in Connections, Connects(b, c) PROVE Involved(a, d)
  BY <1>6 DEF Connects, Fields, Tunnels
<1>7. ASSUME NEW b \in Agents, Cuts(b) PROVE Involved(a, d)
  BY <1>7 DEF Cuts, Fields, EmptyWire, NoOccupations
<1>8. ASSUME NEW b \in Agents, NEW e \in Attached[b], Takes(b, e)
      PROVE  Involved(a, d)
  <2>1. e \in Devices
    OBVIOUS
  <2>2. PICK type : Arrives(b, e, type)
    BY <1>8 DEF Takes, Accepts, Refuses, Heeds
  <2>3. Message(b, e).gen \in Generations /\ link[b] \in Connections
    BY <2>1, <2>2, MessageTaken, MessageKinds
  <2>4. link' = link
    BY <1>8 DEF Takes, Accepts, Refuses, Heeds
  <2>5. CASE a = b /\ d = e
    BY <2>2, <2>5 DEF Arrives
  <2>6. CASE a # b \/ d # e
    <3>1. occupations'[a][d] = occupations[a][d]
      BY <1>8, <2>1, <2>3, <2>6, OccupationsThen
    <3>2. link[a] \in Connections /\ wire'[link[a]][d] # <<>> => wire[link[a]][d] # <<>>
      BY <2>1, <2>2, <2>6, MessageTaken DEF Tunnels
    <3> QED
      BY <2>4, <3>1, <3>2 DEF Fields
  <2> QED
    BY <2>5, <2>6
<1> QED
  BY <1>1, <1>2, <1>3, <1>4, <1>5, <1>6, <1>7, <1>8 DEF Effect

(* A tunnel works because it did, or because the agent connects. *)
LEMMA HealthyBefore ==
  ASSUME Fields, Tunnels, Effect, NEW a \in Agents, Healthy(a)'
  PROVE  Healthy(a) \/ link[a] = NoConnection
<1> USE DEF Healthy, Sockets, Agentwise
<1>1. CASE Closes
  BY <1>1 DEF Closes
<1>2. ASSUME NEW b \in Agents, NEW c \in Connections, Connects(b, c)
      PROVE  Healthy(a) \/ link[a] = NoConnection
  BY <1>2 DEF Connects, Fields, Read
<1>3. ASSUME NEW b \in Agents, Cuts(b) PROVE Healthy(a)
  BY <1>3 DEF Cuts, Fields
<1>4. \/ Closes \/ UNCHANGED <<link, agentSocket, open>>
      \/ \E b \in Agents : Cuts(b)
      \/ \E b \in Agents, c \in Connections : Connects(b, c)
  BY DEF Effect, Claims, Grants, Ends, Sends, Takes, Accepts, Refuses, Heeds
<1> QED
  BY <1>1, <1>2, <1>3, <1>4

(* Only the host of a device hears of it. *)
LEMMA HostKept ==
  ASSUME OneHostPerDevice, Fields, Tunnels, HostKnown, Effect PROVE HostKnown'
<1> USE PathAssumption
<1>1. ASSUME NEW d \in Devices, agentOf'[d] # agentOf[d]
      PROVE  \/ agentOf'[d] = NoAgent /\ agentSocket'[agentOf[d]] = NoConnection
             \/ agentOf'[d] \in Agents /\ d \in Attached[agentOf'[d]]
  <2>1. CASE Closes
    BY <1>1, <2>1 DEF Closes
  <2>2. ASSUME NEW a \in Agents, NEW D \in SUBSET Devices, Claims(a, D)
        PROVE  agentOf'[d] \in Agents /\ d \in Attached[agentOf'[d]]
    BY <1>1, <2>2 DEF Claims
  <2>3. \/ agentOf' = agentOf \/ Closes
        \/ \E a \in Agents : \E D \in SUBSET Devices : Claims(a, D)
    BY DEF Effect, Grants, Ends, Sends, Connects, Cuts, Takes, Accepts, Refuses, Heeds
  <2> QED
    BY <1>1, <2>1, <2>2, <2>3
<1>2. ASSUME NEW d \in Devices, agentOf'[d] # NoAgent PROVE d \in Attached[agentOf'[d]]
  BY <1>1, <1>2 DEF HostKnown
<1>3. ASSUME NEW a \in Agents, NEW d \in Devices, Involved(a, d)'
      PROVE  d \in Attached[a] /\ (Healthy(a)' => agentOf'[d] = a)
  <2>1. CASE agentOf[d] = a /\ agentOf' = agentOf
    BY <2>1 DEF HostKnown
  <2>2. CASE Involved(a, d)
    <3>1. d \in Attached[a] /\ (Healthy(a) => agentOf[d] = a)
      BY <2>2 DEF HostKnown
    <3>2. ASSUME Healthy(a)' PROVE agentOf'[d] = a
      <4>1. link[a] # NoConnection
        BY <2>2 DEF Involved, Tunnels
      <4>2. agentOf[d] = a
        BY <3>1, <3>2, <4>1, HealthyBefore
      <4>3. agentSocket'[a] # NoConnection
        BY <3>2 DEF Healthy
      <4>4. agentOf'[d] # a => agentOf'[d] \in Agents /\ d \in Attached[agentOf'[d]]
        BY <1>1, <4>2, <4>3
      <4> QED
        BY <3>1, <4>4 DEF OneHostPerDevice
    <3> QED
      BY <3>1, <3>2
  <2> QED
    BY <1>3, <2>1, <2>2, InvolvedBefore
<1> QED
  BY <1>2, <1>3 DEF HostKnown, Healthy, Involved

(* On a working tunnel, the end of an occupation of one of its devices is noticed. *)
LEMMA EndIsNoticed ==
  ASSUME Fields, Effect, NEW a \in Agents, NEW d \in Devices, Healthy(a), agentOf[d] = a,
         occupant[d] # NoGeneration, occupant'[d] # occupant[d]
  PROVE  Extended(link[a], d, OccupancyEnded(occupant[d]))
<1>1. ASSUME NEW e \in Devices, Grants(e) PROVE FALSE
  BY <1>1 DEF Grants, Fields
<1>2. ASSUME NEW D \in SUBSET Devices, Ends(D)
      PROVE  Extended(link[a], d, OccupancyEnded(occupant[d]))
  <2>1. d \in D
    BY <1>2 DEF Ends
  <2>2. link[a] \in Connections /\ Read(link[a]) /\ agentOf[d] # NoAgent
    BY PathAssumption DEF Healthy, Read, Fields
  <2> QED
    BY <1>2, <2>1, <2>2, NoticesSent DEF Healthy
<1>3. \/ occupant' = occupant
      \/ \E e \in Devices : Grants(e)
      \/ \E D \in SUBSET Devices : Ends(D)
  BY DEF Effect, Closes, Claims, Sends, Connects, Cuts, Takes, Accepts, Refuses, Heeds
<1> QED
  BY <1>1, <1>2, <1>3

(* What covers a generation stays, and moves up with the head of the wire. *)
LEMMA CoveredThen ==
  ASSUME Fields, Effect, NEW a \in Agents, NEW d \in Devices, Healthy(a), agentOf[d] = a,
         link'[a] = link[a], NEW g \in Generations, NEW k \in Nat \ {0}
  PROVE  /\ Covered(a, d, g, k + 1) /\ Shortened(link[a], d) => Covered(a, d, g, k)'
         /\ /\ Covered(a, d, g, k) /\ k <= Len(wire[link[a]][d]) + 1
            /\ \/ wire'[link[a]][d] = wire[link[a]][d]
               \/ \E m \in Messages : Extended(link[a], d, m)
            => Covered(a, d, g, k)'
<1> DEFINE c == link[a]
<1>1. c \in Connections /\ Len(wire[c][d]) \in Nat
  BY DEF Healthy, Fields
<1>2. g # NoGeneration
  BY PathAssumption DEF Generations, Registry!Issued, NoGeneration, Registry!Unoccupied
<1>3. ASSUME Covered(a, d, g, k + 1), Shortened(c, d) PROVE Covered(a, d, g, k)'
  <2>1. CASE occupant[d] = g
    <3>1. ASSUME occupant'[d] # occupant[d] PROVE FALSE
      <4>1. Extended(c, d, OccupancyEnded(occupant[d]))
        BY <1>2, <2>1, <3>1, EndIsNoticed
      <4>2. Len(wire'[c][d]) = Len(wire[c][d]) + 1 /\ Len(wire'[c][d]) = Len(wire[c][d]) - 1
        BY <1>3, <4>1 DEF Shortened, Extended
      <4> QED
        BY <1>1, <4>2
    <3> QED
      BY <2>1, <3>1 DEF Covered
  <2>2. ASSUME NEW j \in (k + 1)..Len(wire[c][d]), wire[c][d][j] = OccupancyEnded(g)
        PROVE  Covered(a, d, g, k)'
    <3>1. j - 1 \in k..Len(wire'[c][d]) /\ wire'[c][d][j - 1] = OccupancyEnded(g)
      BY <1>1, <1>3, <2>2 DEF Shortened
    <3> QED
      BY <3>1 DEF Covered, OccupancyEnded
  <2> QED
    BY <1>3, <2>1, <2>2 DEF Covered
<1>4. ASSUME Covered(a, d, g, k), k <= Len(wire[c][d]) + 1,
             \/ wire'[c][d] = wire[c][d]
             \/ \E m \in Messages : Extended(c, d, m)
      PROVE  Covered(a, d, g, k)'
  <2>1. CASE occupant[d] = g /\ occupant'[d] = g
    BY <2>1 DEF Covered
  <2>2. CASE occupant[d] = g /\ occupant'[d] # g
    <3>1. Extended(c, d, OccupancyEnded(g))
      BY <1>2, <2>2, EndIsNoticed
    <3>2. Len(wire[c][d]) + 1 \in k..Len(wire'[c][d])
          /\ wire'[c][d][Len(wire[c][d]) + 1] = OccupancyEnded(g)
      BY <1>1, <1>4, <3>1 DEF Extended
    <3> QED
      BY <3>2 DEF Covered, OccupancyEnded
  <2>3. ASSUME NEW j \in k..Len(wire[c][d]), wire[c][d][j] = OccupancyEnded(g)
        PROVE  Covered(a, d, g, k)'
    <3>1. CASE wire'[c][d] = wire[c][d]
      BY <2>3, <3>1 DEF Covered, OccupancyEnded
    <3>2. ASSUME NEW m, Extended(c, d, m) PROVE Covered(a, d, g, k)'
      <4>1. j \in 1..Len(wire[c][d]) /\ j \in k..Len(wire'[c][d])
        BY <1>1, <2>3, <3>2 DEF Extended
      <4>2. wire'[c][d][j] = OccupancyEnded(g)
        BY <2>3, <3>2, <4>1 DEF Extended
      <4> QED
        BY <4>1, <4>2 DEF Covered, OccupancyEnded
    <3> QED
      BY <1>4, <3>1, <3>2
  <2> QED
    BY <1>4, <2>1, <2>2, <2>3 DEF Covered
<1> QED
  BY <1>3, <1>4

(* A tunnel that goes on working keeps what it covers; a new one has nothing to cover. *)
LEMMA CoveringKept ==
  ASSUME OneHostPerDevice, Fields, Tunnels, HostKnown, Covering, Effect PROVE Covering'
<1> USE DEF Agentwise
<1> SUFFICES ASSUME NEW a \in Agents, Healthy(a)', NEW d \in Devices
             PROVE  /\ \A g \in Generations : occupations'[a][d] = g => Covered(a, d, g, 1)'
                    /\ \A i \in 1..Len(wire'[link'[a]][d]) : \A g \in Generations :
                         IsCommand(wire'[link'[a]][d][i]) /\ wire'[link'[a]][d][i].gen = g =>
                           Covered(a, d, g, i + 1)'
  <2>1. Fields'
    BY FieldsKept
  <2>2. \A a \in Agents : Healthy(a)' => link'[a] \in Connections
    BY <2>1 DEF Fields, Healthy
  <2>3. \A a \in Agents, d \in Devices :
          /\ occupations'[a][d] # NoGeneration => occupations'[a][d] \in Generations
          /\ Healthy(a)' => \A i \in 1..Len(wire'[link'[a]][d]) :
                             wire'[link'[a]][d][i].gen \in Generations
    BY <2>1, <2>2, MessageKinds DEF Fields
  <2> QED
    BY <2>3 DEF Covering, Covered, IsCommand, OccupancyEnded
<1> DEFINE c == link[a]
<1> DEFINE n == Len(wire[c][d])
<1>1. CASE link[a] = NoConnection
  <2>1. wire' = wire /\ occupations' = occupations
    <3>1. link' # link
      BY <1>1 DEF Healthy
    <3>2. \A b \in Agents : Cuts(b) => link'[a] = NoConnection
      BY <1>1 DEF Cuts, Fields
    <3>3. \E b \in Agents, e \in Connections : Connects(b, e)
      BY <3>1, <3>2 DEF Healthy, Effect, Closes, Claims, Grants, Ends, Sends, Takes, Accepts,
         Refuses,
         Heeds
    <3> QED
      BY <3>3 DEF Connects
  <2>2. ~Read(link'[a]) /\ link'[a] \in Connections
    BY <1>1, LinkSteps DEF Healthy
  <2>3. wire'[link'[a]][d] = <<>> /\ occupations'[a][d] = NoGeneration
    BY <1>1, <2>1, <2>2 DEF Tunnels
  <2>4. NoGeneration \notin Generations
    BY PathAssumption DEF Generations, Registry!Issued, NoGeneration, Registry!Unoccupied
  <2> QED
    BY <2>3, <2>4
<1>2. CASE link[a] # NoConnection
  <2>1. Healthy(a) /\ link'[a] = link[a]
    BY <1>2, HealthyBefore, LinkSteps DEF Healthy
  <2>2. c \in Connections /\ n \in Nat
    BY <1>2 DEF Fields
  <2>3. /\ occupations[a][d] # NoGeneration => Covered(a, d, occupations[a][d], 1)
        /\ \A i \in 1..n : IsCommand(wire[c][d][i]) => Covered(a, d, wire[c][d][i].gen, i + 1)
    BY <2>1 DEF Covering
  <2>4. occupations[a][d] # NoGeneration \/ n > 0 => agentOf[d] = a
    BY <1>2, <2>1, <2>2 DEF HostKnown, Involved
  <2>5. \A i \in 1..n : wire[c][d][i] \in Messages /\ wire[c][d][i].gen \in Generations
    BY <2>2, MessageGen
  <2>6. NoGeneration \notin Generations
    BY PathAssumption DEF Generations, Registry!Issued, NoGeneration, Registry!Unoccupied
  <2> HIDE DEF c, n
  <2>7. CASE Shortened(c, d) /\ d \in Attached[a] /\ Takes(a, d)
    <3>1. /\ 1 \in 1..n /\ Message(a, d) = wire[c][d][1] /\ Message(a, d).gen \in Generations
          /\ n > 0 /\ agentOf[d] = a
      BY <2>2, <2>4, <2>5, <2>7 DEF Shortened, Message, c, n
    <3>2. ASSUME NEW g \in Generations, occupations'[a][d] = g PROVE Covered(a, d, g, 1)'
      <4>1. CASE Accepts(a, d) /\ g = Message(a, d).gen
        <5>1. IsCommand(wire[c][d][1])
          BY <3>1, <4>1 DEF Accepts, Arrives, Message, IsCommand
        <5> QED
          BY <2>1, <2>3, <2>7, <3>1, <4>1, <5>1, CoveredThen DEF c
      <4>2. CASE g = occupations[a][d] /\ ~(IsNotice(Message(a, d)) /\ g = Message(a, d).gen)
        <5>1. Covered(a, d, g, 1)
          BY <2>3, <2>6, <4>2
        <5>2. wire[c][d][1] # OccupancyEnded(g)
          BY <3>1, <4>2, Made
        <5>3. Covered(a, d, g, 1 + 1)
          BY <2>2, <5>1, <5>2 DEF Covered, c, n
        <5> QED
          BY <2>1, <2>7, <3>1, <5>3, CoveredThen DEF c
      <4>3. Refuses(a, d) => ~IsNotice(Message(a, d))
        BY DEF Refuses, Arrives, Message, IsNotice
      <4> QED
        BY <2>6, <2>7, <3>1, <3>2, <4>1, <4>2, <4>3, OccupationsThen DEF Takes
    <3>3. ASSUME NEW i \in 1..Len(wire'[c][d]), NEW g \in Generations,
                 IsCommand(wire'[c][d][i]), wire'[c][d][i].gen = g
          PROVE  Covered(a, d, g, i + 1)'
      <4>1. i + 1 \in 1..n /\ wire'[c][d][i] = wire[c][d][i + 1]
        BY <2>2, <2>7, <3>3, PlaceInShortened DEF n
      <4>2. Covered(a, d, g, i + 1 + 1)
        BY <2>3, <3>3, <4>1
      <4>3. i + 1 \in Nat \ {0}
        OBVIOUS
      <4> QED
        BY <2>1, <2>7, <3>1, <4>2, <4>3, CoveredThen DEF c
    <3> QED
      BY <2>1, <3>2, <3>3 DEF c
  <2>8. CASE ~Shortened(c, d)
    <3>1. occupations'[a][d] \in {occupations[a][d], NoGeneration}
      <4>1. ASSUME Accepts(a, d) PROVE FALSE
        BY <2>8, <4>1, MessageTaken DEF Accepts, c
      <4> QED
        BY <4>1, OccupationSteps
    <3>2. wire'[c][d] = wire[c][d] \/ Commanded(c, d) \/ Noticed(c, d)
      <4>1. ASSUME NEW b \in Agents, link[b] = c, link'[b] = NoConnection PROVE FALSE
        BY <1>2, <2>1, <4>1 DEF Tunnels, c
      <4> QED
        BY <2>2, <2>8, <4>1, WireSteps
    <3>3. \/ wire'[c][d] = wire[c][d]
          \/ \E m \in Messages : Extended(c, d, m)
      BY <3>2, Made DEF Commanded, Noticed
    <3>4. ASSUME NEW g \in Generations, NEW k \in 1..(n + 1), Covered(a, d, g, k), agentOf[d] = a
          PROVE  Covered(a, d, g, k)'
      BY <2>1, <2>2, <3>3, <3>4, CoveredThen DEF c, n
    <3>5. ASSUME NEW g \in Generations, occupations'[a][d] = g PROVE Covered(a, d, g, 1)'
      <4>1. Covered(a, d, g, 1) /\ agentOf[d] = a
        BY <2>3, <2>4, <2>6, <3>1, <3>5
      <4> QED
        BY <2>2, <3>4, <4>1
    <3>6. ASSUME NEW i \in 1..Len(wire'[c][d]), NEW g \in Generations,
                 IsCommand(wire'[c][d][i]), wire'[c][d][i].gen = g
          PROVE  Covered(a, d, g, i + 1)'
      <4>1. CASE i \in 1..n /\ wire'[c][d][i] = wire[c][d][i]
        <5>1. Covered(a, d, g, i + 1) /\ agentOf[d] = a
          BY <2>2, <2>3, <2>4, <3>6, <4>1
        <5> QED
          BY <2>2, <3>4, <4>1, <5>1
      <4>2. CASE Commanded(c, d) /\ wire'[c][d][i].gen = occupant[d]
        BY <3>6, <4>2 DEF Commanded, Covered
      <4>3. CASE wire'[c][d] = wire[c][d]
        BY <3>6, <4>1, <4>3 DEF n
      <4>4. CASE Commanded(c, d)
        <5>1. PICK r \in Requests : Extended(c, d, Command(r, occupant[d]))
          BY <4>4 DEF Commanded
        <5>2. Command(r, occupant[d]).gen = occupant[d]
          BY DEF Command
        <5> QED
          BY <2>2, <3>6, <4>1, <4>2, <4>4, <5>1, <5>2, PlaceInExtended DEF n
      <4>5. CASE Noticed(c, d)
        <5>1. Extended(c, d, OccupancyEnded(occupant[d]))
          BY <4>5 DEF Noticed
        <5>2. ~IsCommand(OccupancyEnded(occupant[d]))
          BY DEF IsCommand, OccupancyEnded
        <5> QED
          BY <2>2, <3>6, <4>1, <5>1, <5>2, PlaceInExtended DEF n
      <4> QED
        BY <3>2, <4>3, <4>4, <4>5
    <3> QED
      BY <2>1, <3>5, <3>6 DEF c
  <2>9. Shortened(c, d) => d \in Attached[a] /\ Takes(a, d)
    <3>1. ASSUME Shortened(c, d)
          PROVE  /\ wire'[c][d] # wire[c][d] /\ ~Commanded(c, d) /\ ~Noticed(c, d)
                 /\ \A b \in Agents : link[b] = c => b = a
      <4>1. Len(wire'[c][d]) = n - 1
        BY <3>1 DEF Shortened, n
      <4>2. \A m : ~Extended(c, d, m)
        BY <2>2, <4>1 DEF Extended, n
      <4>3. wire'[c][d] # wire[c][d]
        BY <2>2, <4>1 DEF n
      <4> QED
        BY <1>2, <4>2, <4>3 DEF Commanded, Noticed, Tunnels, c
    <3> QED
      BY <1>2, <2>1, <2>2, <3>1, WireSteps DEF c
  <2> QED
    BY <2>7, <2>8, <2>9
<1> QED
  BY <1>1, <1>2

(* The newest generation a device was given a command of changes with an accepted one. *)
LEMMA NewestSteps ==
  ASSUME Fields, Effect, NEW d \in Devices
  PROVE  \/ newest'[d] = newest[d]
         \/ \E b \in Agents :
              /\ d \in Attached[b] /\ Accepts(b, d)
              /\ newest'[d] = IF newest[d] < Message(b, d).gen
                              THEN Message(b, d).gen ELSE newest[d]
<1>1. ASSUME NEW b \in Agents, NEW e \in Attached[b], Accepts(b, e), newest'[d] # newest[d]
      PROVE  /\ d = e
             /\ newest'[d] = IF newest[d] < Message(b, d).gen
                             THEN Message(b, d).gen ELSE newest[d]
  BY <1>1 DEF Accepts, Fields
<1>2. \/ newest' = newest
      \/ \E b \in Agents : \E e \in Attached[b] : Accepts(b, e)
  BY DEF Effect, Closes, Claims, Grants, Ends, Sends, Connects, Cuts, Takes, Refuses, Heeds,
     Agentwise
<1> QED
  BY <1>1, <1>2

(* Commands stay in the order of their generations. *)
LEMMA InOrderKept ==
  ASSUME OneHostPerDevice, Fields, Tunnels, OneDeviceEach, HostKnown, InOrder, Effect
  PROVE  InOrder'
<1>1. /\ nextGen \in Nat /\ nextGen' \in Nat /\ nextGen <= nextGen'
      /\ \A d \in Devices : Grants(d) => nextGen' = nextGen + 1
  BY NextGrows
<1>2. NoGeneration \notin Generations /\ NoGeneration = 0 /\ Generations \subseteq Nat
  BY PathAssumption DEF Generations, Registry!Issued, NoGeneration, Registry!Unoccupied
<1>3. /\ \A d \in Devices : occupant[d] \in Nat /\ newest[d] \in Nat
      /\ \A a \in Agents, d \in Devices : occupations[a][d] \in Nat
      /\ \A c \in Connections, d \in Devices :
           /\ Len(wire[c][d]) \in Nat
           /\ \A i \in 1..Len(wire[c][d]) : wire[c][d][i].gen \in Nat
  <2>1. \A x \in Generations \union {NoGeneration} : x \in Nat
    BY <1>2
  <2>2. ASSUME NEW d \in Devices PROVE occupant[d] \in Nat /\ newest[d] \in Nat
    <3>1. occupant[d] \in Generations \union {NoGeneration}
          /\ newest[d] \in Generations \union {NoGeneration}
      BY DEF Fields
    <3> QED
      BY <2>1, <3>1
  <2>3. ASSUME NEW a \in Agents, NEW d \in Devices PROVE occupations[a][d] \in Nat
    <3>1. occupations[a][d] \in Generations \union {NoGeneration}
      BY DEF Fields
    <3> QED
      BY <2>1, <3>1
  <2>4. ASSUME NEW c \in Connections, NEW d \in Devices
        PROVE  /\ Len(wire[c][d]) \in Nat
               /\ \A i \in 1..Len(wire[c][d]) : wire[c][d][i].gen \in Nat
    <3>1. Len(wire[c][d]) \in Nat
      BY DEF Fields
    <3>2. \A i \in 1..Len(wire[c][d]) : wire[c][d][i].gen \in Generations
      BY MessageGen
    <3> QED
      BY <2>1, <3>1, <3>2
  <2> QED
    BY <2>2, <2>3, <2>4
(* An accepted command is no older than what came before, and its device's only host has it. *)
<1>4. ASSUME NEW b \in Agents, NEW d \in Attached[b], Accepts(b, d)
      PROVE  /\ d \in Devices /\ link[b] \in Connections /\ occupant' = occupant
             /\ 1 \in 1..Len(wire[link[b]][d]) /\ Message(b, d) = wire[link[b]][d][1]
             /\ IsCommand(wire[link[b]][d][1]) /\ Shortened(link[b], d)
             /\ newest'[d] = Message(b, d).gen
             /\ \A a \in Agents : Involved(a, d) => a = b
             /\ \A c \in Connections : wire[c][d] # <<>> => c = link[b]
  <2>1. d \in Devices /\ Arrives(b, d, "command") /\ occupant' = occupant
    BY <1>4, PathAssumption DEF Accepts
  <2>2. /\ link[b] \in Connections /\ Message(b, d) = wire[link[b]][d][1]
        /\ IsCommand(Message(b, d)) /\ Shortened(link[b], d)
    BY <2>1, MessageTaken DEF IsCommand
  <2>3. 1 \in 1..Len(wire[link[b]][d])
    BY <1>3, <2>1, <2>2 DEF Shortened
  <2>4. newest[d] <= Message(b, d).gen
    BY <2>1, <2>2, <2>3 DEF InOrder, Ordered
  <2>5. newest'[d] = IF newest[d] < Message(b, d).gen THEN Message(b, d).gen ELSE newest[d]
    BY <1>4, <2>1 DEF Accepts, Fields
  <2>6. newest'[d] = Message(b, d).gen
    BY <1>3, <2>1, <2>2, <2>3, <2>4, <2>5
  <2>7. ASSUME NEW a \in Agents, Involved(a, d) PROVE a = b
    BY <2>1, <2>7 DEF HostKnown, OneHostPerDevice
  <2>8. ASSUME NEW c \in Connections, wire[c][d] # <<>> PROVE c = link[b]
    BY <2>1, <2>7, <2>8, PathAssumption DEF Tunnels, Read, Involved
  <2> QED
    BY <2>1, <2>2, <2>3, <2>6, <2>7, <2>8
<1>5. ASSUME NEW d \in Devices
      PROVE  newest'[d] < nextGen' /\ (occupant'[d] # NoGeneration => newest'[d] <= occupant'[d])
  <2>1. newest[d] < nextGen /\ (occupant[d] # NoGeneration => newest[d] <= occupant[d])
    BY DEF InOrder
  <2>2. CASE newest'[d] = newest[d]
    BY <1>1, <1>3, <2>1, <2>2, OccupantSteps
  <2>3. ASSUME NEW b \in Agents, d \in Attached[b], Accepts(b, d)
        PROVE  newest'[d] < nextGen' /\ (occupant'[d] # NoGeneration => newest'[d] <= occupant'[d])
    <3>1. Message(b, d).gen < nextGen
      BY <1>4, <2>3, OnWireIsIssued
    <3>2. occupant[d] # NoGeneration => Message(b, d).gen <= occupant[d]
      BY <1>4, <2>3 DEF InOrder, Ordered
    <3>3. newest'[d] = Message(b, d).gen /\ occupant' = occupant /\ Message(b, d).gen \in Nat
      BY <1>3, <1>4, <2>3
    <3> QED
      BY <1>1, <3>1, <3>2, <3>3
  <2> QED
    BY <2>2, <2>3, NewestSteps
<1>6. ASSUME NEW a \in Agents, NEW d \in Devices, occupations'[a][d] # NoGeneration
      PROVE  newest'[d] <= occupations'[a][d]
  <2>1. CASE newest'[d] = newest[d]
    <3>1. CASE occupations'[a][d] = occupations[a][d]
      BY <1>6, <2>1, <3>1 DEF InOrder
    <3>2. CASE d \in Attached[a] /\ Accepts(a, d) /\ occupations'[a][d] = Message(a, d).gen
      BY <1>3, <1>4, <3>2
    <3> QED
      BY <1>6, <3>1, <3>2, OccupationSteps
  <2>2. ASSUME NEW b \in Agents, d \in Attached[b], Accepts(b, d)
        PROVE  newest'[d] <= occupations'[a][d]
    <3>1. Message(b, d).gen \in Generations /\ newest'[d] = Message(b, d).gen
      BY <1>4, <2>2, MessageGen
    <3>2. occupations'[a][d] = IF a # b THEN occupations[a][d] ELSE Message(b, d).gen
      <4>1. ~Refuses(b, d) \/ occupations[b][d] = Message(b, d).gen
        BY <2>2, PathAssumption DEF Refuses, Accepts, Fields
      <4> QED
        BY <2>2, <3>1, <4>1, OccupationsThen DEF Takes
    <3>3. a = b
      BY <1>4, <1>6, <2>2, <3>2 DEF Involved
    <3>4. newest'[d] = occupations'[a][d] /\ newest'[d] \in Nat
      BY <1>2, <3>1, <3>2, <3>3
    <3> QED
      BY <3>4
  <2> QED
    BY <2>1, <2>2, NewestSteps
<1>7. ASSUME NEW c \in Connections, NEW d \in Devices PROVE Ordered(c, d)'
  <2> DEFINE n == Len(wire[c][d])
  <2>1. ASSUME NEW i \in 1..n, IsCommand(wire[c][d][i])
        PROVE  /\ wire[c][d][i].gen \in Nat
               /\ newest[d] <= wire[c][d][i].gen
               /\ occupant[d] # NoGeneration => wire[c][d][i].gen <= occupant[d]
               /\ occupant'[d] # NoGeneration => wire[c][d][i].gen <= occupant'[d]
               /\ \A j \in (i + 1)..n :
                    IsCommand(wire[c][d][j]) => wire[c][d][i].gen <= wire[c][d][j].gen
    <3>1. /\ newest[d] <= wire[c][d][i].gen
          /\ occupant[d] # NoGeneration => wire[c][d][i].gen <= occupant[d]
          /\ \A j \in (i + 1)..n :
               IsCommand(wire[c][d][j]) => wire[c][d][i].gen <= wire[c][d][j].gen
      BY <2>1 DEF InOrder, Ordered
    <3>2. wire[c][d][i].gen \in Nat /\ wire[c][d][i].gen < nextGen
      BY <1>3, OnWireIsIssued
    <3>3. occupant'[d] # NoGeneration => wire[c][d][i].gen <= occupant'[d]
      BY <1>1, <3>1, <3>2, OccupantSteps
    <3> QED
      BY <3>1, <3>2, <3>3
  <2>2. /\ n \in Nat /\ newest[d] \in Nat /\ occupant[d] \in Nat
        /\ occupant[d] # NoGeneration => newest[d] <= occupant[d]
    BY <1>3 DEF InOrder
  <2>3. ASSUME NEW b \in Agents, d \in Attached[b], Accepts(b, d)
        PROVE  \/ c = link[b] /\ Shortened(c, d)
               \/ wire[c][d] = <<>> /\ wire'[c][d] = <<>>
    <3>1. CASE c = link[b]
      BY <1>4, <2>3, <3>1
    <3>2. CASE c # link[b]
      <4>1. wire[c][d] = <<>>
        BY <1>4, <2>3, <3>2
      <4>2. d \in Devices /\ Arrives(b, d, "command")
        BY <2>3 DEF Accepts
      <4>3. wire'[c][d] = wire[c][d]
        BY <3>2, <4>2, MessageTaken
      <4> QED
        BY <4>1, <4>3
    <3> QED
      BY <3>1, <3>2
  <2>4. ASSUME NEW i \in 1..Len(wire'[c][d]), IsCommand(wire'[c][d][i])
        PROVE  /\ newest'[d] <= wire'[c][d][i].gen
               /\ occupant'[d] # NoGeneration => wire'[c][d][i].gen <= occupant'[d]
               /\ \A j \in (i + 1)..Len(wire'[c][d]) :
                    IsCommand(wire'[c][d][j]) => wire'[c][d][i].gen <= wire'[c][d][j].gen
    <3>1. CASE Shortened(c, d)
      <4>1. i + 1 \in 1..n /\ wire'[c][d][i] = wire[c][d][i + 1]
        BY <3>1, PlaceInShortened
      <4>2. ASSUME NEW j \in (i + 1)..Len(wire'[c][d])
            PROVE  j + 1 \in (i + 1 + 1)..n /\ wire'[c][d][j] = wire[c][d][j + 1]
        BY <2>2, <3>1 DEF Shortened
      <4>3. newest'[d] <= wire[c][d][i + 1].gen
        <5>1. ASSUME NEW b \in Agents, d \in Attached[b], Accepts(b, d)
              PROVE  newest'[d] <= wire[c][d][i + 1].gen
          <6>1. c = link[b]
            BY <2>2, <2>3, <3>1, <5>1 DEF Shortened
          <6>2. IsCommand(wire[c][d][1]) /\ newest'[d] = wire[c][d][1].gen /\ 1 \in 1..n
            BY <1>4, <5>1, <6>1
          <6>3. i + 1 \in (1 + 1)..n
            BY <2>2, <4>1
          <6> QED
            BY <2>1, <2>4, <4>1, <6>2, <6>3
        <5> QED
          BY <2>1, <2>4, <4>1, <5>1, NewestSteps
      <4> QED
        BY <2>1, <2>4, <4>1, <4>2, <4>3
    <3>2. CASE ~Shortened(c, d)
      <4>1. newest'[d] = newest[d]
        <5>1. ASSUME NEW b \in Agents, d \in Attached[b], Accepts(b, d) PROVE FALSE
          BY <2>3, <2>4, <3>2, <5>1
        <5> QED
          BY <5>1, NewestSteps
      <4>2. CASE wire'[c][d] = wire[c][d]
        BY <2>1, <2>4, <4>1, <4>2
      <4>3. CASE Commanded(c, d)
        <5>1. PICK r \in Requests : Extended(c, d, Command(r, occupant[d]))
          BY <4>3 DEF Commanded
        <5>2. /\ Command(r, occupant[d]).gen = occupant[d] /\ occupant' = occupant
              /\ occupant[d] # NoGeneration
          BY <1>2, <4>3 DEF Command, Commanded
        <5>3. CASE i \in 1..n /\ wire'[c][d][i] = wire[c][d][i]
          <6>1. ASSUME NEW j \in (i + 1)..Len(wire'[c][d])
                PROVE  \/ j \in (i + 1)..n /\ wire'[c][d][j] = wire[c][d][j]
                       \/ wire'[c][d][j].gen = occupant[d]
            <7>1. j \in 1..Len(wire'[c][d]) /\ i \in Nat /\ j \in (i + 1)..(n + 1)
              BY <2>2, <5>1, <5>3 DEF Extended
            <7> QED
              BY <2>2, <5>1, <5>2, <7>1, PlaceInExtended
          <6> QED
            BY <2>1, <2>4, <4>1, <5>2, <5>3, <6>1
        <5>4. CASE i = n + 1 /\ wire'[c][d][i].gen = occupant[d]
          <6>1. (i + 1)..Len(wire'[c][d]) = {}
            BY <2>2, <5>1, <5>4 DEF Extended
          <6> QED
            BY <2>2, <4>1, <5>2, <5>4, <6>1
        <5> QED
          BY <5>1, <5>2, <5>3, <5>4, PlaceInExtended
      <4>4. CASE Noticed(c, d)
        <5>1. Extended(c, d, OccupancyEnded(occupant[d]))
          BY <4>4 DEF Noticed
        <5>2. ~IsCommand(OccupancyEnded(occupant[d]))
          BY DEF IsCommand, OccupancyEnded
        <5>3. i \in 1..n /\ wire'[c][d][i] = wire[c][d][i]
          BY <2>4, <5>1, <5>2, PlaceInExtended
        <5>4. ASSUME NEW j \in (i + 1)..Len(wire'[c][d]), IsCommand(wire'[c][d][j])
              PROVE  j \in (i + 1)..n /\ wire'[c][d][j] = wire[c][d][j]
          BY <2>2, <5>1, <5>2, <5>3, <5>4 DEF Extended
        <5>5. IsCommand(wire[c][d][i])
          BY <2>4, <5>3
        <5> QED
          BY <2>1, <4>1, <5>3, <5>4, <5>5
      <4> QED
        BY <2>4, <3>2, <4>2, <4>3, <4>4, WireSteps
    <3> QED
      BY <3>1, <3>2
  <2> QED
    BY <2>4 DEF Ordered, IsCommand
<1> QED
  BY <1>5, <1>6, <1>7 DEF InOrder

-------------------------------------------------------------------------------
(* The inductive invariant, and what it is with one host per device. *)
PathInv == Fields /\ Tunnels /\ OneDeviceEach /\ NoticeIsLast /\ RevokedIsOver

HostInv == HostKnown /\ Covering /\ InOrder

(* The invariant holds before anything is connected. *)
LEMMA InitPath == Init => PathInv /\ HostInv
<1> SUFFICES ASSUME Init PROVE PathInv /\ HostInv
  OBVIOUS
<1> USE PathAssumption
<1>1. Fields
  BY DEF Init, Server!Init, Server!Registry!Init, Fields, EmptyWire, NoOccupations, NoGeneration,
     Registry!Unoccupied, Server!Registry!Unoccupied
<1>2. /\ \A d \in Devices : /\ occupant[d] = NoGeneration /\ newest[d] = NoGeneration
                            /\ agentOf[d] = NoAgent
      /\ \A a \in Agents : /\ link[a] = NoConnection /\ agentSocket[a] = NoConnection
                           /\ revoked[a] = {}
                          /\ \A d \in Devices : occupations[a][d] = NoGeneration
      /\ \A c \in Connections, d \in Devices : wire[c][d] = <<>>
      /\ nextGen = 1
  BY DEF Init, Server!Init, Server!Registry!Init, EmptyWire, NoOccupations, NoGeneration,
     Registry!Unoccupied, Server!Registry!Unoccupied
<1>3. \A d \in Devices, g \in Generations : ~Carries(d, g)
  BY <1>2 DEF Carries
<1>4. Tunnels /\ OneDeviceEach /\ NoticeIsLast /\ RevokedIsOver
  BY <1>2, <1>3 DEF Tunnels, OwnSockets, OneDeviceEach, NoticeIsLast, RevokedIsOver
<1>5. HostKnown /\ Covering /\ InOrder
  BY <1>2 DEF HostKnown, Involved, Covering, Healthy, InOrder, Ordered, NoGeneration,
     Registry!Unoccupied
<1> QED
  BY <1>1, <1>4, <1>5 DEF PathInv, HostInv

(* In every reachable state a socket is read by one agent, a generation belongs to
   one device wherever it is met, an end notice is the last word on its generation,
   and what an agent took the notice of is over. *)
THEOREM PathInvariant == Spec => []PathInv
<1>1. PathInv /\ [Next]_vars => PathInv'
  <2> SUFFICES ASSUME PathInv, [Next]_vars PROVE PathInv'
    OBVIOUS
  <2>1. Effect
    BY StepEffect DEF PathInv, Tunnels
  <2> QED
    BY <2>1, FieldsKept, TunnelsKept, OneDeviceKept, NoticeKept, RevokedKept DEF PathInv
<1> QED
  BY <1>1, InitPath, PTL DEF Spec

(* No generation whose end notice an agent has taken is current to its executor
   again: no retry, no reconnection and no late command revives it. *)
THEOREM RevokedForGood == Spec => []RevokedStaysRevoked
<1>1. PathInv => RevokedStaysRevoked
  BY DEF PathInv, RevokedIsOver, RevokedStaysRevoked
<1> QED
  BY <1>1, PathInvariant, PTL

(* If every phone hangs on one host: only that host hears of it, whatever its
   executor takes for current or will read is the occupation or has its end notice
   behind it, and commands travel in the order of their generations. *)
THEOREM HostInvariant ==
  ASSUME OneHostPerDevice PROVE Spec => []HostInv
<1>1. PathInv /\ HostInv /\ [Next]_vars => HostInv'
  <2> SUFFICES ASSUME PathInv, HostInv, [Next]_vars PROVE HostInv'
    OBVIOUS
  <2>1. Effect
    BY StepEffect DEF PathInv, Tunnels
  <2> QED
    BY <2>1, HostKept, CoveringKept, InOrderKept DEF PathInv, HostInv
<1> QED
  BY <1>1, InitPath, PathInvariant, PTL DEF Spec

(* On a working tunnel, what the executor takes for current holds the device or
   has its end notice on the way. *)
THEOREM NoticesCoverHandover ==
  ASSUME OneHostPerDevice PROVE Spec => []NoticeCovers
<1>1. PathInv /\ HostInv => NoticeCovers
  <2> SUFFICES ASSUME PathInv, HostInv, NEW a \in Agents, NEW d \in Attached[a], Healthy(a),
                      occupations[a][d] # NoGeneration, occupant[d] # occupations[a][d]
               PROVE  OccupancyEnded(occupations[a][d]) \in ToSet(wire[link[a]][d])
    BY DEF NoticeCovers
  <2>1. d \in Devices
    BY PathAssumption
  <2>2. Covered(a, d, occupations[a][d], 1)
    BY <2>1 DEF HostInv, Covering
  <2>3. PICK j \in 1..Len(wire[link[a]][d]) :
           wire[link[a]][d][j] = OccupancyEnded(occupations[a][d])
    BY <2>2 DEF Covered
  <2>4. wire[link[a]][d] \in Seq(Messages)
    BY <2>1 DEF PathInv, Fields, Healthy
  <2> QED
    BY <2>3, <2>4 DEF ToSet
<1> QED
  BY <1>1, PathInvariant, HostInvariant, PTL

(* What waits in an executor's queue is what it was given. *)
QueueFunction == queue \in [Agents -> [Devices -> Seq(Waiting)]]

(* Queues keep their type. *)
LEMMA QueueKept ==
  ASSUME PathInv, QueueFunction, [Next]_vars PROVE QueueFunction'
<1> USE PathAssumption DEF QueueFunction
<1>0. \A a \in Agents, d \in Devices : queue[a][d] \in Seq(Waiting)
  OBVIOUS
<1>1. ASSUME NEW a \in Agents, NEW d \in Attached[a], AcceptCommand(a, d) PROVE QueueFunction'
  <2>1. d \in Devices /\ Arrives(a, d, "command")
    BY <1>1 DEF AcceptCommand
  <2>2. /\ link[a] \in Connections /\ Message(a, d) \in Messages
        /\ IsCommand(Message(a, d))
    BY <2>1, MessageTaken DEF PathInv, IsCommand
  <2> DEFINE item == [req |-> Message(a, d).req, gen |-> Message(a, d).gen,
                      conn |-> link[a], age |-> 0]
  <2>3. item \in Waiting
    BY <2>2 DEF Messages, Command, OccupancyEnded, IsCommand, Waiting
  <2>4. PICK q \in Seq(Waiting) :
          queue' = [queue EXCEPT ![a] = [queue[a] EXCEPT ![d] = q]]
    <3>1. queue' = [queue EXCEPT ![a] = [queue[a] EXCEPT ![d] = Append(queue[a][d], item)]]
      BY <1>1 DEF AcceptCommand
    <3> HIDE DEF item
    <3>2. Append(queue[a][d], item) \in Seq(Waiting)
      BY <1>0, <2>1, <2>3
    <3> QED
      BY <3>1, <3>2
  <2>5. [queue[a] EXCEPT ![d] = q] \in [Devices -> Seq(Waiting)]
    OBVIOUS
  <2> QED
    BY <2>4, <2>5
<1>2. ASSUME NEW a \in Agents, NEW d \in Attached[a], NextInQueue(a, d) PROVE QueueFunction'
  <2>1. d \in Devices /\ queue[a][d] # <<>>
    BY <1>2 DEF NextInQueue
  <2>2. Tail(queue[a][d]) \in Seq(Waiting)
    BY <1>0, <2>1
  <2>3. PICK q \in Seq(Waiting) :
          queue' = [queue EXCEPT ![a] = [queue[a] EXCEPT ![d] = q]]
    BY <1>2, <2>2 DEF NextInQueue
  <2>4. [queue[a] EXCEPT ![d] = q] \in [Devices -> Seq(Waiting)]
    OBVIOUS
  <2> QED
    BY <2>3, <2>4
<1>3. ASSUME NEW a \in Agents, AgentRestarts(a) PROVE QueueFunction'
  <2>1. EmptyWire \in [Devices -> Seq(Waiting)]
    BY DEF EmptyWire
  <2> QED
    BY <1>3, <2>1 DEF AgentRestarts
<1>4. CASE Tick
  <2>1. ASSUME NEW a \in Agents, NEW d \in Devices
        PROVE  [i \in DOMAIN queue[a][d] |->
                  [queue[a][d][i] EXCEPT !.age = Registry!Older(@, QueueStale + 1)]]
                    \in Seq(Waiting)
    <3>1. ASSUME NEW item \in Waiting
          PROVE  [item EXCEPT !.age = Registry!Older(@, QueueStale + 1)] \in Waiting
      <4>1. Registry!Older(item.age, QueueStale + 1) \in 0..(QueueStale + 1)
        BY DEF Waiting, Registry!Older
      <4> QED
        BY <4>1 DEF Waiting
    <3>2. queue[a][d] \in Seq(Waiting) /\ Len(queue[a][d]) \in Nat
          /\ DOMAIN queue[a][d] = 1..Len(queue[a][d])
      BY <1>0
    <3>3. \A i \in 1..Len(queue[a][d]) :
            [queue[a][d][i] EXCEPT !.age = Registry!Older(@, QueueStale + 1)] \in Waiting
      BY <3>1, <3>2
    <3> QED
      BY <3>2, <3>3
  <2> QED
    BY <1>4, <2>1 DEF Tick
<1>5. ASSUME queue' = queue PROVE QueueFunction'
  BY <1>5
<1>6. \/ queue' = queue
      \/ Tick
      \/ \E a \in Agents : AgentRestarts(a)
      \/ \E a \in Agents : \E d \in Attached[a] : AcceptCommand(a, d) \/ NextInQueue(a, d)
  BY DEF Next, vars, executorVars, ServerStep, Release, IdleSweep, StaleSweep, SendCommand,
     ServerOnly, AgentReports, ResultArrives, AgentStep, AgentConnects, LoseTunnel,
     ExecutorStep, RefuseCommand, TakeNotice, StartCommand, DiscardCommand, FinishCommand
<1> QED
  BY <1>1, <1>2, <1>3, <1>4, <1>5, <1>6

(* Once an agent has accepted a command of a later occupation of a device, no
   command of an earlier one starts on it, however long it waited in the queue and
   whatever was lost, retried or restarted in between. *)
THEOREM NoGhostAfterHandover ==
  ASSUME OneHostPerDevice PROVE Spec => HandoverOrder
<1>1. Init => QueueFunction
  BY DEF Init, QueueFunction, EmptyWire
<1>2. PathInv /\ QueueFunction /\ HostInv
        => [\A a \in Agents, d \in Devices :
              StartCommand(a, d) => Head(queue[a][d]).gen >= newest[d]]_vars
  <2> SUFFICES ASSUME PathInv, QueueFunction, HostInv, NEW a \in Agents, NEW d \in Devices,
                      StartCommand(a, d)
               PROVE  Head(queue[a][d]).gen >= newest[d]
    OBVIOUS
  <2>1. queue[a][d] \in Seq(Waiting) /\ queue[a][d] # <<>>
    BY DEF QueueFunction, StartCommand, NextInQueue
  <2>2. Head(queue[a][d]) \in Waiting
    BY <2>1
  <2>3. Head(queue[a][d]).gen \in Generations
    BY <2>2 DEF Waiting
  <2>4. Head(queue[a][d]).gen \in Nat \ {0} /\ newest[d] \in Nat
    BY <2>3, PathAssumption DEF Generations, Registry!Issued, PathInv, Fields, NoGeneration,
       Registry!Unoccupied
  <2>5. occupations[a][d] = Head(queue[a][d]).gen
    BY DEF StartCommand, Startable
  <2>6. newest[d] <= occupations[a][d]
    BY <2>4, <2>5 DEF HostInv, InOrder, NoGeneration, Registry!Unoccupied
  <2> QED
    BY <2>4, <2>5, <2>6
<1> QED
  BY <1>1, <1>2, QueueKept, PathInvariant, HostInvariant, PTL DEF Spec, HandoverOrder

(* What executes, and what is answered, are requests. *)
AnswersTyped ==
  /\ running \in [Agents -> [Devices -> Requests \union {NoRequest}]]
  /\ results \in SUBSET [conn : Connections, req : Requests]

(* Executors and results keep their types. *)
LEMMA AnswersKept ==
  ASSUME PathInv, QueueFunction, AnswersTyped, [Next]_vars PROVE AnswersTyped'
<1> USE PathAssumption
<1>1. ASSUME NEW a \in Agents, NEW r \in Requests, Reply(a, r)
      PROVE  results' \in SUBSET [conn : Connections, req : Requests]
  BY <1>1 DEF Reply, AnswersTyped, PathInv, Fields
<1>2. ASSUME NEW a \in Agents, NEW d \in Devices, NEW r \in Requests \union {NoRequest},
             running' = [running EXCEPT ![a][d] = r]
      PROVE  running' \in [Agents -> [Devices -> Requests \union {NoRequest}]]
  BY <1>2 DEF AnswersTyped
<1>3. ASSUME NEW a \in Agents, NEW d \in Attached[a], ExecutorStep(a, d) PROVE AnswersTyped'
  <2>1. d \in Devices /\ queue[a][d] \in Seq(Waiting)
    BY DEF QueueFunction
  <2>2. queue[a][d] # <<>> => Head(queue[a][d]).req \in Requests
    <3>1. queue[a][d] # <<>> => Head(queue[a][d]) \in Waiting
      BY <2>1
    <3> QED
      BY <3>1 DEF Waiting
  <2>3. running[a][d] \in Requests \union {NoRequest}
    BY <2>1 DEF AnswersTyped
  <2>4. CASE AcceptCommand(a, d) \/ TakeNotice(a, d)
    BY <2>4 DEF AcceptCommand, TakeNotice, AnswersTyped
  <2>5. CASE RefuseCommand(a, d)
    <3>1. Message(a, d) \in Messages /\ Message(a, d).type = "command"
      BY <2>1, <2>5, MessageTaken DEF RefuseCommand, PathInv
    <3>2. Message(a, d).req \in Requests
      BY <3>1 DEF Messages, Command, OccupancyEnded
    <3>3. results' \in SUBSET [conn : Connections, req : Requests]
      BY <1>1, <2>5, <3>2 DEF RefuseCommand
    <3> QED
      BY <2>5, <3>3 DEF RefuseCommand, executorVars, AnswersTyped
  <2>6. CASE StartCommand(a, d)
    <3>1. running' \in [Agents -> [Devices -> Requests \union {NoRequest}]]
      BY <1>2, <2>1, <2>2, <2>6 DEF StartCommand, NextInQueue
    <3> QED
      BY <2>6, <3>1 DEF StartCommand, AnswersTyped
  <2>7. CASE DiscardCommand(a, d)
    <3>1. results' \in SUBSET [conn : Connections, req : Requests]
      BY <1>1, <2>2, <2>7 DEF DiscardCommand, NextInQueue
    <3> QED
      BY <2>7, <3>1 DEF DiscardCommand, AnswersTyped
  <2>8. CASE FinishCommand(a, d)
    <3>1. results' \in SUBSET [conn : Connections, req : Requests]
      BY <1>1, <2>3, <2>8 DEF FinishCommand, Busy
    <3>2. running' \in [Agents -> [Devices -> Requests \union {NoRequest}]]
      BY <1>2, <2>1, <2>8 DEF FinishCommand
    <3> QED
      BY <3>1, <3>2 DEF AnswersTyped
  <2> QED
    BY <1>3, <2>4, <2>5, <2>6, <2>7, <2>8 DEF ExecutorStep
<1>4. ASSUME NEW a \in Agents, AgentRestarts(a) PROVE AnswersTyped'
  BY <1>4 DEF AgentRestarts, AnswersTyped
<1>5. ASSUME running' = running, results' \subseteq results PROVE AnswersTyped'
  BY <1>5 DEF AnswersTyped
<1>6. \/ running' = running /\ results' \subseteq results
      \/ \E a \in Agents : AgentRestarts(a)
      \/ \E a \in Agents : \E d \in Attached[a] : ExecutorStep(a, d)
  BY DEF Next, vars, executorVars, ServerStep, Release, IdleSweep, StaleSweep, SendCommand,
     ServerOnly, AgentReports, ResultArrives, AgentStep, AgentConnects, LoseTunnel, Tick
<1> QED
  BY <1>3, <1>4, <1>5, <1>6

(* What a step does to the server is a step of the server: all that holds of it
   by itself holds of it here. *)
LEMMA ServerSteps ==
  ASSUME PathInv, AnswersTyped, [Next]_vars PROVE [Server!Next]_(Server!vars)
<1> USE DEF Generations, Registry!Issued, Server!Registry!Issued, Server!UserStep,
   Server!AgentStep, Server!TimerStep, Server!Next
<1>1. CASE \E d \in Devices, g \in Generations : Release(d, g)
  BY <1>1 DEF Release
<1>2. CASE IdleSweep \/ StaleSweep
  BY <1>2 DEF IdleSweep, StaleSweep
<1>3. CASE \E r \in Requests, d \in Devices, g \in Generations, kind \in Server!ActionKinds :
             SendCommand(r, d, g, kind)
  BY <1>3 DEF SendCommand
<1>4. CASE ServerOnly
  BY <1>4 DEF ServerOnly
<1>5. ASSUME NEW c \in Connections, AgentReports(c) PROVE Server!Next
  <2>1. Attached[peer[c]] \subseteq Devices
    BY <1>5, PathAssumption DEF AgentReports, Server!Current, PathInv, Fields
  <2>2. PICK D \in SUBSET Devices :
           Server!RegisterArrives(c, D, Server!ActionKinds) \/ Server!HeartbeatArrives(c, D)
    BY <1>5, <2>1 DEF AgentReports
  <2> QED
    BY <2>2
<1>6. ASSUME NEW m \in results, ResultArrives(m) PROVE [Server!Next]_(Server!vars)
  <2>1. m.conn \in Connections /\ m.req \in Requests
    BY DEF AnswersTyped
  <2> QED
    BY <1>6, <2>1 DEF ResultArrives, serverVars, Server!vars, Server!registryVars,
       Server!socketVars,
       Server!commandVars
<1>7. ASSUME NEW a \in Agents, AgentStep(a) PROVE [Server!Next]_(Server!vars)
  <2>1. ASSUME NEW c \in Connections, AgentConnects(a, c) PROVE Server!Next
    BY <2>1 DEF AgentConnects
  <2>2. ASSUME UNCHANGED serverVars PROVE UNCHANGED Server!vars
    BY <2>2 DEF serverVars, Server!vars, Server!registryVars, Server!socketVars,
       Server!commandVars
  <2>3. UNCHANGED serverVars \/ \E c \in Connections : AgentConnects(a, c)
    BY <1>7 DEF AgentStep, LoseTunnel, AgentRestarts, ExecutorStep, AcceptCommand, RefuseCommand,
       TakeNotice, StartCommand, DiscardCommand, FinishCommand
  <2> QED
    BY <2>1, <2>2, <2>3
<1>8. CASE Tick
  BY <1>8 DEF Tick
<1>9. CASE UNCHANGED vars
  BY <1>9 DEF vars, serverVars, Server!vars, Server!registryVars, Server!socketVars,
     Server!commandVars
<1> QED
  BY <1>1, <1>2, <1>3, <1>4, <1>5, <1>6, <1>7, <1>8, <1>9 DEF Next, ServerStep

(* The server with tunnels and agents around it is the server: whatever order
   frames, losses and restarts come in, its part of a behaviour is a behaviour
   of FarmServer. *)
THEOREM RefinesServer == Spec => Server!Spec
<1>1. Init => Server!Init /\ QueueFunction /\ AnswersTyped
  BY DEF Init, QueueFunction, AnswersTyped, EmptyWire
<1> QED
  BY <1>1, QueueKept, AnswersKept, ServerSteps, PathInvariant, PTL DEF Spec, Server!Spec
================================================================================
