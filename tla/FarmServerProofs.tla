--------------------------- MODULE FarmServerProofs ---------------------------
(***************************************************************************)
(* Proofs about FarmServer, for any set of devices, agents, sockets,       *)
(* viewers and requests and any timeouts with CommandTimeout below         *)
(* OccupationTtl.  The inductive invariant is ServerInv: the invariants of *)
(* FarmServer and PendingRecent, the reason why a device with a command    *)
(* under way is never idle.                                                *)
(***************************************************************************)
EXTENDS FarmServer, TLAPS

(* A device was used at least as recently as its waiting commands were sent. *)
PendingRecent == \A p \in pending : idleAge[p.device] <= p.age

ServerInv ==
  /\ TypeOK
  /\ PendingOfOccupant
  /\ ViewersOfOccupant
  /\ WaitingIsPending
  /\ SocketsConsistent
  /\ PendingRecent

-------------------------------------------------------------------------------
(* Every step of the server is an operation of the registry or leaves the
   registry alone. *)
LEMMA StepOfRegistry ==
  ASSUME TypeOK, [Next]_vars
  PROVE  Registry!Next \/ UNCHANGED registryVars
<1> USE ServerAssumption
<1> DEFINE Goal == Registry!Next \/ UNCHANGED registryVars
<1>1. ASSUME NEW d \in Devices, OccupyRequest(d) PROVE Goal
  BY <1>1 DEF OccupyRequest, Registry!Next
<1>2. ASSUME NEW d \in Devices, NEW g \in Registry!Issued,
             ReleaseRequest(d, g) \/ RenewRequest(d, g)
      PROVE  Goal
  BY <1>2 DEF ReleaseRequest, RenewRequest, Registry!Next
<1>3. ASSUME NEW r \in Requests, NEW d \in Devices, NEW g \in Registry!Issued,
             NEW kind \in ActionKinds,
             CommandSent(r, d, g, kind) \/ CommandRejected(r, d, g, kind)
      PROVE  Goal
  BY <1>3 DEF CommandSent, CommandRejected, CommandAllowed, Registry!Next
<1>4. ASSUME NEW c \in Connections, AgentDisconnects(c) PROVE Goal
  <2>1. peer[c] \in Agents /\ Registry!MarkAgentOffline(peer[c])
    BY <1>4 DEF AgentDisconnects, Current, TypeOK
  <2> QED
    BY <2>1 DEF Registry!Next
<1>5. ASSUME NEW c \in Connections, NEW D \in SUBSET Devices,
             NEW kinds \in {LegacyKinds, ActionKinds}, RegisterArrives(c, D, kinds)
      PROVE  Goal
  <2>1. peer[c] \in Agents /\ Registry!Upsert(peer[c], D)
    BY <1>5 DEF RegisterArrives, Current, TypeOK
  <2> QED
    BY <2>1 DEF Registry!Next
<1>6. ASSUME NEW c \in Connections, NEW D \in SUBSET Devices, HeartbeatArrives(c, D)
      PROVE  Goal
  <2>1. peer[c] \in Agents /\ Registry!Heartbeat(peer[c], D)
    BY <1>6 DEF HeartbeatArrives, Current, TypeOK
  <2> QED
    BY <2>1 DEF Registry!Next
<1>7. ASSUME IdleSweep \/ StaleSweep \/ Tick PROVE Goal
  BY <1>7 DEF IdleSweep, StaleSweep, Tick, Registry!Next
<1>8. ASSUME \/ \E v \in Viewers, d \in Devices, g \in Registry!Issued : ViewerConnects(v, d, g)
             \/ \E v \in Viewers : ViewerCloses(v)
             \/ \E a \in Agents, c \in Connections : AgentConnects(a, c)
             \/ \E c \in Connections : SocketCloses(c) \/ ReplacedSocketGone(c)
             \/ \E c \in Connections, r \in Requests : ResultArrives(c, r)
             \/ \E p \in pending : CommandTimesOut(p)
             \/ Crash
             \/ UNCHANGED vars
      PROVE  UNCHANGED registryVars
  BY <1>8 DEF ViewerConnects, ViewerCloses, AgentConnects, SocketCloses, ReplacedSocketGone,
              ResultArrives, CommandTimesOut, Crash, vars
<1> QED
  BY <1>1, <1>2, <1>3, <1>4, <1>5, <1>6, <1>7, <1>8
  DEF Next, UserStep, AgentStep, TimerStep

(* The registry stays within its types. *)
LEMMA RegistryTypes ==
  ASSUME TypeOK, [Next]_vars
  PROVE  Registry!TypeOK'
<1> USE ServerAssumption
    DEF Registry!TypeOK, Registry!StaleAge, Registry!IdleAge, Registry!Unoccupied, Registry!Issued
<1>0. Registry!TypeOK
  BY DEF TypeOK
<1>1. ASSUME NEW a \in Agents, NEW D \in SUBSET Devices, Registry!Upsert(a, D)
      PROVE  Registry!TypeOK'
  BY <1>0, <1>1 DEF Registry!Upsert
<1>2. ASSUME NEW d \in Devices, Registry!Occupy(d) PROVE Registry!TypeOK'
  BY <1>0, <1>2 DEF Registry!Occupy
<1>3. ASSUME NEW d \in Devices, NEW g \in Registry!Issued, Registry!Release(d, g)
      PROVE  Registry!TypeOK'
  BY <1>0, <1>3 DEF Registry!Release
<1>4. ASSUME NEW d \in Devices, NEW g \in Registry!Issued, Registry!Renew(d, g)
      PROVE  Registry!TypeOK'
  BY <1>0, <1>4 DEF Registry!Renew
<1>5. ASSUME NEW a \in Agents, NEW D \in SUBSET Devices, Registry!Heartbeat(a, D)
      PROVE  Registry!TypeOK'
  BY <1>0, <1>5 DEF Registry!Heartbeat
<1>6. ASSUME NEW a \in Agents, Registry!MarkAgentOffline(a) PROVE Registry!TypeOK'
  BY <1>0, <1>6 DEF Registry!MarkAgentOffline
<1>7. CASE Registry!ExpireIdle
  BY <1>0, <1>7 DEF Registry!ExpireIdle, Registry!EndOccupations
<1>8. CASE Registry!MarkStaleOffline
  BY <1>0, <1>8 DEF Registry!MarkStaleOffline, Registry!EndOccupations
<1>9. CASE Registry!Tick
  <2>1. ASSUME NEW limit \in Nat, NEW age \in 0..limit
        PROVE  Registry!Older(age, limit) \in 0..limit
    BY DEF Registry!Older
  <2>2. /\ \A d \in Devices : Registry!Older(heartbeatAge[d], HeartbeatTimeout + 1)
                                \in 0..(HeartbeatTimeout + 1)
        /\ \A d \in Devices : Registry!Older(idleAge[d], OccupationTtl + 1)
                                \in 0..(OccupationTtl + 1)
    BY <1>0, <2>1
  <2> QED
    BY <1>0, <1>9, <2>2 DEF Registry!Tick
<1>10. CASE UNCHANGED registryVars
  BY <1>0, <1>10 DEF registryVars
<1> QED
  BY <1>1, <1>2, <1>3, <1>4, <1>5, <1>6, <1>7, <1>8, <1>9, <1>10, StepOfRegistry
  DEF Registry!Next

(* What a step may do to the waiting commands and the answers: fail some of
   them with a final answer, add a fresh one, make all of them older, or
   refuse a request; or nothing. *)
Finals == Answers \ {"unused", "waiting"}

Failing == \E P \in SUBSET pending, why \in Finals : Fail(P, why)

Sending(r, d, g) ==
  /\ answer[r] = "unused"
  /\ Registry!Renew(d, g)
  /\ agentOf[d] # NoAgent
  /\ agentSocket[agentOf[d]] \in open
  /\ pending' = pending \union
       {[req |-> r, agent |-> agentOf[d], device |-> d, gen |-> g, age |-> 0]}
  /\ answer' = [answer EXCEPT ![r] = "waiting"]
  /\ UNCHANGED <<socketVars, viewers>>

Refusing(r) ==
  /\ answer[r] = "unused"
  /\ answer' \in {[answer EXCEPT ![r] = why] : why \in Finals}
  /\ UNCHANGED pending

Aging ==
  /\ \A p \in pending : p.age < CommandTimeout
  /\ Registry!Tick
  /\ pending' = {[p EXCEPT !.age = @ + 1] : p \in pending}
  /\ UNCHANGED <<answer, socketVars, viewers>>

(* Each step does one of these to the waiting commands. *)
LEMMA CommandSteps ==
  ASSUME TypeOK, [Next]_vars
  PROVE  \/ Failing
         \/ \E r \in Requests, d \in Devices, g \in Registry!Issued : Sending(r, d, g)
         \/ \E r \in Requests : Refusing(r)
         \/ Aging
         \/ UNCHANGED commandVars
<1> USE DEF Finals, Answers
<1>1. ASSUME NEW D, Revoke(D) PROVE Failing
  BY <1>1 DEF Revoke, Failing
<1>2. ASSUME NEW p \in pending, CommandTimesOut(p) PROVE Failing
  <2>1. {p} \in SUBSET pending /\ Fail({p}, "timeout")
    BY <1>2 DEF CommandTimesOut
  <2> QED
    BY <2>1 DEF Failing
<1>3. ASSUME NEW c \in Connections, NEW r \in Requests, ResultArrives(c, r) PROVE Failing
  <2>1. PICK p \in pending : Fail({p}, "result")
    BY <1>3 DEF ResultArrives
  <2> QED
    BY <2>1 DEF Failing
<1>4. ASSUME NEW c \in Connections, AgentDisconnects(c) PROVE Failing
  BY <1>4 DEF AgentDisconnects, Failing
<1>5. CASE Crash
  BY <1>5 DEF Crash, Failing
<1>6. ASSUME NEW r \in Requests, NEW d \in Devices, NEW g \in Registry!Issued,
             NEW kind \in ActionKinds, CommandSent(r, d, g, kind)
      PROVE  Sending(r, d, g)
  BY <1>6 DEF CommandSent, CommandAllowed, Reachable, Sending
<1>7. ASSUME NEW r \in Requests, NEW d \in Devices, NEW g \in Registry!Issued,
             NEW kind \in ActionKinds, CommandRejected(r, d, g, kind)
      PROVE  Refusing(r)
  BY <1>7 DEF CommandRejected, CommandAllowed, Refusing
<1>8. CASE Tick
  BY <1>8 DEF Tick, Aging
<1>9. ASSUME \/ \E d \in Devices : OccupyRequest(d)
             \/ \E d \in Devices, g \in Registry!Issued : RenewRequest(d, g)
             \/ \E v \in Viewers, d \in Devices, g \in Registry!Issued : ViewerConnects(v, d, g)
             \/ \E v \in Viewers : ViewerCloses(v)
             \/ \E a \in Agents, c \in Connections : AgentConnects(a, c)
             \/ \E c \in Connections : SocketCloses(c) \/ ReplacedSocketGone(c)
             \/ \E c \in Connections, D \in SUBSET Devices, kinds \in {LegacyKinds, ActionKinds} :
                  RegisterArrives(c, D, kinds)
             \/ \E c \in Connections, D \in SUBSET Devices : HeartbeatArrives(c, D)
             \/ UNCHANGED vars
      PROVE  UNCHANGED commandVars
  BY <1>9 DEF OccupyRequest, RenewRequest, ViewerConnects, ViewerCloses, AgentConnects,
              SocketCloses, ReplacedSocketGone, RegisterArrives, HeartbeatArrives,
              commandVars, vars
<1>10. ASSUME \/ \E d \in Devices, g \in Registry!Issued : ReleaseRequest(d, g)
              \/ IdleSweep
              \/ StaleSweep
       PROVE  Failing
  BY <1>1, <1>10 DEF ReleaseRequest, IdleSweep, StaleSweep
<1> QED
  BY <1>2, <1>3, <1>4, <1>5, <1>6, <1>7, <1>8, <1>9, <1>10
  DEF Next, UserStep, AgentStep, TimerStep

-------------------------------------------------------------------------------
(* An entry that gets one tick older differs in nothing else. *)
LEMMA AgedEntry ==
  ASSUME NEW p \in Pending, p.age < CommandTimeout
  PROVE  LET q == [p EXCEPT !.age = @ + 1]
         IN  /\ q \in Pending
             /\ q.req = p.req /\ q.agent = p.agent /\ q.device = p.device /\ q.gen = p.gen
             /\ q.age = p.age + 1
  BY ServerAssumption DEF Pending

(* Entries and answers stay within their types. *)
LEMMA CommandTypes ==
  ASSUME TypeOK, [Next]_vars
  PROVE  pending' \in SUBSET Pending /\ answer' \in [Requests -> Answers]
<1> USE ServerAssumption
<1>0. pending \in SUBSET Pending /\ answer \in [Requests -> Answers]
  BY DEF TypeOK
<1>1. CASE Failing
  BY <1>0, <1>1 DEF Failing, Fail, Finals, Answers
<1>2. ASSUME NEW r \in Requests, NEW d \in Devices, NEW g \in Registry!Issued, Sending(r, d, g)
      PROVE  pending' \in SUBSET Pending /\ answer' \in [Requests -> Answers]
  <2>1. agentOf[d] \in Agents
    BY <1>2 DEF Sending, TypeOK, Registry!TypeOK
  <2>2. [req |-> r, agent |-> agentOf[d], device |-> d, gen |-> g, age |-> 0] \in Pending
    BY <2>1 DEF Pending
  <2> QED
    BY <1>0, <1>2, <2>2 DEF Sending, Answers
<1>3. ASSUME NEW r \in Requests, Refusing(r)
      PROVE  pending' \in SUBSET Pending /\ answer' \in [Requests -> Answers]
  BY <1>0, <1>3 DEF Refusing, Finals
<1>4. CASE Aging
  <2>1. \A p \in pending : [p EXCEPT !.age = @ + 1] \in Pending
    BY <1>0, <1>4, AgedEntry DEF Aging
  <2> QED
    BY <1>0, <1>4, <2>1 DEF Aging
<1>5. CASE UNCHANGED commandVars
  BY <1>0, <1>5 DEF commandVars
<1> QED
  BY <1>1, <1>2, <1>3, <1>4, <1>5, CommandSteps

(* Sockets, specs and restarts stay within their types. *)
SocketTypes ==
  /\ agentSocket \in [Agents -> Connections \union {NoConnection}]
  /\ peer \in [Connections -> Agents \union {NoAgent}]
  /\ open \in SUBSET Connections
  /\ capabilities \in [Agents -> {LegacyKinds, ActionKinds}]

(* A step keeps the tables of the sockets in their types. *)
LEMMA SocketsTyped ==
  ASSUME TypeOK, [Next]_vars
  PROVE  SocketTypes'
<1> USE DEF SocketTypes
<1>0. SocketTypes
  BY DEF TypeOK
<1>1. ASSUME NEW a \in Agents, NEW c \in Connections, AgentConnects(a, c) PROVE SocketTypes'
  BY <1>0, <1>1 DEF AgentConnects
<1>2. ASSUME NEW c \in Connections, SocketCloses(c) \/ ReplacedSocketGone(c) PROVE SocketTypes'
  BY <1>0, <1>2 DEF SocketCloses, ReplacedSocketGone
<1>3. ASSUME NEW c \in Connections, AgentDisconnects(c) PROVE SocketTypes'
  BY <1>0, <1>3 DEF AgentDisconnects
<1>4. ASSUME NEW c \in Connections, NEW D \in SUBSET Devices,
             NEW kinds \in {LegacyKinds, ActionKinds}, RegisterArrives(c, D, kinds)
      PROVE  SocketTypes'
  BY <1>0, <1>4 DEF RegisterArrives
<1>5. CASE Crash
  BY <1>0, <1>5 DEF Crash
<1>6. CASE UNCHANGED socketVars
  BY <1>0, <1>6 DEF socketVars
<1> QED
  BY <1>1, <1>2, <1>3, <1>4, <1>5, <1>6
  DEF Next, UserStep, AgentStep, TimerStep, OccupyRequest, ReleaseRequest, RenewRequest,
      CommandSent, CommandRejected, CommandAllowed, ViewerConnects, ViewerCloses,
      HeartbeatArrives, ResultArrives, CommandTimesOut, IdleSweep, StaleSweep, Tick, vars

(* A viewer enters as the occupant, and otherwise viewers only leave: the ones
   whose occupation ends among them. *)
Entering(v, d, g) ==
  /\ Registry!Owns(d, g)
  /\ viewers' = viewers \union {[socket |-> v, device |-> d, gen |-> g]}
  /\ UNCHANGED <<registryVars, pending>>

(* A step admits at most one viewer, of the present occupation. *)
LEMMA ViewerSteps ==
  ASSUME TypeOK, [Next]_vars
  PROVE  \/ \E v \in Viewers, d \in Devices, g \in Registry!Issued : Entering(v, d, g)
         \/ viewers' \subseteq viewers
  BY DEF Next, UserStep, AgentStep, TimerStep, OccupyRequest, ReleaseRequest, RenewRequest,
         CommandSent, CommandRejected, CommandAllowed, ViewerConnects, ViewerCloses, Entering,
         AgentConnects, SocketCloses, AgentDisconnects, ReplacedSocketGone, RegisterArrives,
         HeartbeatArrives, ResultArrives, CommandTimesOut, IdleSweep, StaleSweep, Tick, Crash,
         Revoke, commandVars, vars

(* The server stays within its types. *)
LEMMA StepTypes ==
  ASSUME TypeOK, [Next]_vars
  PROVE  TypeOK'
<1>1. viewers' \in SUBSET Viewing
  <2>1. viewers \in SUBSET Viewing
    BY DEF TypeOK
  <2>2. ASSUME NEW v \in Viewers, NEW d \in Devices, NEW g \in Registry!Issued, Entering(v, d, g)
        PROVE  viewers' \in SUBSET Viewing
    BY <2>1, <2>2 DEF Entering, Viewing
  <2> QED
    BY <2>1, <2>2, ViewerSteps
<1>2. crashes' \in 0..MaxCrashes
  <2>1. crashes \in 0..MaxCrashes
    BY DEF TypeOK
  <2>2. CASE Crash
    BY <2>1, <2>2, ServerAssumption DEF Crash
  <2>3. Crash \/ crashes' = crashes
    BY DEF Next, UserStep, AgentStep, TimerStep, OccupyRequest, ReleaseRequest, RenewRequest,
           CommandSent, CommandRejected, CommandAllowed, ViewerConnects, ViewerCloses,
           AgentConnects, SocketCloses, AgentDisconnects, ReplacedSocketGone, RegisterArrives,
           HeartbeatArrives, ResultArrives, CommandTimesOut, IdleSweep, StaleSweep, Tick, vars
  <2> QED
    BY <2>1, <2>2, <2>3
<1> QED
  BY <1>1, <1>2, RegistryTypes, CommandTypes, SocketsTyped
  DEF TypeOK, SocketTypes, Pending, Viewing, Registry!Issued

-------------------------------------------------------------------------------
(* What a step may do to occupations, and to the commands and viewers that
   live under them: begin one on a free device, end some together with
   everything that was under them, or keep all of them. *)
Beginning(d) ==
  /\ occupant[d] = Registry!Unoccupied
  /\ occupant' = [occupant EXCEPT ![d] = nextGen]
  /\ idleAge' = [idleAge EXCEPT ![d] = 0]
  /\ UNCHANGED <<pending, viewers>>

Ending(D) ==
  /\ occupant' = [d \in Devices |-> IF d \in D THEN Registry!Unoccupied ELSE occupant[d]]
  /\ idleAge' = [d \in Devices |-> IF d \in D THEN Registry!IdleAge ELSE idleAge[d]]
  /\ viewers' = {v \in viewers : ~(v.device \in D /\ v.gen = occupant[v.device])}
  /\ pending' = {p \in pending : ~(p.device \in D /\ p.gen = occupant[p.device])}

Keeping ==
  /\ occupant' = occupant
  /\ \A d \in Devices : idleAge'[d] <= idleAge[d]
  /\ viewers' \subseteq viewers
  /\ pending' \subseteq pending

(* Ending an occupation under a device means ending it on the device: what
   Revoke is called with and what the table is updated with agree. *)
LEMMA EndingSteps ==
  ASSUME TypeOK
  PROVE  /\ \A d \in Devices, g \in Registry!Issued : ReleaseRequest(d, g) => Ending({d})
         /\ IdleSweep => Ending(Registry!IdleDevices)
         /\ StaleSweep => Ending(Registry!StaleDevices)
<1> USE ServerAssumption
<1>1. ASSUME NEW d \in Devices, NEW g \in Registry!Issued, ReleaseRequest(d, g)
      PROVE  Ending({d})
  <2>1. /\ occupant' = [occupant EXCEPT ![d] = Registry!Unoccupied]
        /\ idleAge' = [idleAge EXCEPT ![d] = Registry!IdleAge]
    BY <1>1 DEF ReleaseRequest, Registry!Release
  <2>2. occupant \in [Devices -> Registry!Issued \union {Registry!Unoccupied}]
    BY DEF TypeOK, Registry!TypeOK
  <2>3. idleAge \in [Devices -> 0..Registry!IdleAge]
    BY DEF TypeOK, Registry!TypeOK
  <2>4. /\ occupant' = [e \in Devices |-> IF e \in {d} THEN Registry!Unoccupied ELSE occupant[e]]
        /\ idleAge' = [e \in Devices |-> IF e \in {d} THEN Registry!IdleAge ELSE idleAge[e]]
    BY <2>1, <2>2, <2>3
  <2>5. /\ viewers' = {v \in viewers : ~(v.device \in {d} /\ v.gen = occupant[v.device])}
        /\ pending' = {p \in pending : ~(p.device \in {d} /\ p.gen = occupant[p.device])}
    BY <1>1 DEF ReleaseRequest, Revoke, Fail
  <2> QED
    BY <2>4, <2>5 DEF Ending
<1>2. ASSUME IdleSweep PROVE Ending(Registry!IdleDevices)
  BY <1>2 DEF IdleSweep, Registry!ExpireIdle, Registry!EndOccupations, Revoke, Fail, Ending
<1>3. ASSUME StaleSweep PROVE Ending(Registry!StaleDevices)
  <2> DEFINE D == {d \in Registry!StaleDevices : occupant[d] # Registry!Unoccupied}
  <2>1. /\ occupant' = [d \in Devices |-> IF d \in Registry!StaleDevices
                                          THEN Registry!Unoccupied ELSE occupant[d]]
        /\ idleAge' = [d \in Devices |-> IF d \in Registry!StaleDevices
                                         THEN Registry!IdleAge ELSE idleAge[d]]
    BY <1>3 DEF StaleSweep, Registry!MarkStaleOffline, Registry!EndOccupations
  <2>2. /\ viewers' = {v \in viewers : ~(v.device \in D /\ v.gen = occupant[v.device])}
        /\ pending' = {p \in pending : ~(p.device \in D /\ p.gen = occupant[p.device])}
    BY <1>3 DEF StaleSweep, Revoke, Fail
  <2>3. /\ \A v \in viewers : v.gen # Registry!Unoccupied
        /\ \A p \in pending : p.gen # Registry!Unoccupied
    BY DEF TypeOK, Viewing, Pending, Registry!Issued, Registry!Unoccupied
  <2> QED
    BY <2>1, <2>2, <2>3 DEF Ending
<1> QED
  BY <1>1, <1>2, <1>3

(* Operations of the registry that end and begin nothing only make devices
   look more recently used. *)
LEMMA KeepingSteps ==
  ASSUME TypeOK,
         \/ \E d \in Devices, g \in Registry!Issued : RenewRequest(d, g)
         \/ \E r \in Requests, d \in Devices, g \in Registry!Issued, kind \in ActionKinds :
              CommandRejected(r, d, g, kind)
         \/ \E v \in Viewers : ViewerCloses(v)
         \/ AgentStep
         \/ \E p \in pending : CommandTimesOut(p)
         \/ Crash
         \/ UNCHANGED vars
  PROVE  Keeping
<1> USE ServerAssumption
<1>0. idleAge \in [Devices -> Nat]
  BY DEF TypeOK, Registry!TypeOK, Registry!IdleAge
<1>1. ASSUME NEW d \in Devices, NEW g \in Registry!Issued, RenewRequest(d, g)
      PROVE  Keeping
  BY <1>0, <1>1 DEF RenewRequest, Registry!Renew, Keeping, commandVars
<1>2. ASSUME NEW r \in Requests, NEW d \in Devices, NEW g \in Registry!Issued,
             NEW kind \in ActionKinds, CommandRejected(r, d, g, kind)
      PROVE  Keeping
  BY <1>0, <1>2 DEF CommandRejected, CommandAllowed, Registry!Renew, Keeping
<1>3. ASSUME NEW c \in Connections, AgentDisconnects(c) PROVE Keeping
  BY <1>0, <1>3 DEF AgentDisconnects, Registry!MarkAgentOffline, Fail, Keeping
<1>4. ASSUME NEW c \in Connections, NEW D \in SUBSET Devices,
             NEW kinds \in {LegacyKinds, ActionKinds},
             RegisterArrives(c, D, kinds) \/ HeartbeatArrives(c, D)
      PROVE  Keeping
  BY <1>0, <1>4
  DEF RegisterArrives, HeartbeatArrives, Registry!Upsert, Registry!Heartbeat, Keeping, commandVars
<1>5. ASSUME NEW c \in Connections, NEW r \in Requests, ResultArrives(c, r) PROVE Keeping
  BY <1>0, <1>5 DEF ResultArrives, Fail, registryVars, Keeping
<1>6. ASSUME \/ \E v \in Viewers : ViewerCloses(v)
             \/ \E a \in Agents, c \in Connections : AgentConnects(a, c)
             \/ \E c \in Connections : SocketCloses(c) \/ ReplacedSocketGone(c)
             \/ \E p \in pending : CommandTimesOut(p)
             \/ Crash
             \/ UNCHANGED vars
      PROVE  Keeping
  <2>1. UNCHANGED <<occupant, idleAge>> /\ viewers' \subseteq viewers /\ pending' \subseteq pending
    BY <1>6 DEF ViewerCloses, AgentConnects, SocketCloses, ReplacedSocketGone, CommandTimesOut,
                Crash, Fail, registryVars, commandVars, vars
  <2> QED
    BY <1>0, <2>1 DEF Keeping
<1> QED
  BY <1>1, <1>2, <1>3, <1>4, <1>5, <1>6 DEF AgentStep

(* What a step of the server does to the occupations and to those who depend on them. *)
LEMMA OccupationSteps ==
  ASSUME TypeOK, [Next]_vars
  PROVE  \/ \E d \in Devices : Beginning(d)
         \/ \E D \in SUBSET Devices : Ending(D)
         \/ \E r \in Requests, d \in Devices, g \in Registry!Issued : Sending(r, d, g)
         \/ \E v \in Viewers, d \in Devices, g \in Registry!Issued : Entering(v, d, g)
         \/ Aging
         \/ Keeping
<1>1. ASSUME NEW d \in Devices, OccupyRequest(d) PROVE Beginning(d)
  BY <1>1 DEF OccupyRequest, Registry!Occupy, Beginning, commandVars
<1>2. Registry!IdleDevices \in SUBSET Devices /\ Registry!StaleDevices \in SUBSET Devices
  BY DEF Registry!IdleDevices, Registry!StaleDevices
<1>3. ASSUME \/ \E d \in Devices, g \in Registry!Issued : ReleaseRequest(d, g)
             \/ IdleSweep
             \/ StaleSweep
      PROVE  \E D \in SUBSET Devices : Ending(D)
  <2>1. \A d \in Devices : {d} \in SUBSET Devices
    OBVIOUS
  <2> QED
    BY <1>2, <1>3, <2>1, EndingSteps
<1>4. ASSUME NEW r \in Requests, NEW d \in Devices, NEW g \in Registry!Issued,
             NEW kind \in ActionKinds, CommandSent(r, d, g, kind)
      PROVE  Sending(r, d, g)
  BY <1>4 DEF CommandSent, CommandAllowed, Reachable, Sending
<1>5. ASSUME NEW v \in Viewers, NEW d \in Devices, NEW g \in Registry!Issued,
             ViewerConnects(v, d, g)
      PROVE  Entering(v, d, g)
  BY <1>5 DEF ViewerConnects, Entering, commandVars
<1>6. CASE Tick
  BY <1>6 DEF Tick, Aging
<1> QED
  BY <1>1, <1>3, <1>4, <1>5, <1>6, KeepingSteps DEF Next, UserStep, TimerStep

-------------------------------------------------------------------------------
(* Waiting commands and viewers stay under the occupation they began in, and
   a waiting command was sent no longer ago than its device was used. *)
Tenancy == PendingOfOccupant /\ ViewersOfOccupant /\ PendingRecent

(* A step leaves no command and no viewer of an occupation that is over. *)
LEMMA StepTenancy ==
  ASSUME TypeOK, Tenancy, [Next]_vars
  PROVE  Tenancy'
<1> USE ServerAssumption DEF Tenancy, PendingOfOccupant, ViewersOfOccupant, PendingRecent
<1>0. /\ pending \in SUBSET Pending
      /\ viewers \in SUBSET Viewing
      /\ occupant \in [Devices -> Registry!Issued \union {Registry!Unoccupied}]
      /\ idleAge \in [Devices -> 0..Registry!IdleAge]
      /\ Registry!IdleAge \in Nat
  BY DEF TypeOK, Registry!TypeOK, Registry!IdleAge
<1>1. ASSUME NEW d \in Devices, Beginning(d) PROVE Tenancy'
  BY <1>0, <1>1 DEF Beginning, Pending, Viewing, Registry!Issued, Registry!Unoccupied
<1>2. ASSUME NEW D \in SUBSET Devices, Ending(D) PROVE Tenancy'
  BY <1>0, <1>2 DEF Ending, Pending, Viewing
<1>3. ASSUME NEW r \in Requests, NEW d \in Devices, NEW g \in Registry!Issued, Sending(r, d, g)
      PROVE  Tenancy'
  <2> DEFINE sent == [req |-> r, agent |-> agentOf[d], device |-> d, gen |-> g, age |-> 0]
  <2>1. /\ occupant' = occupant
        /\ occupant[d] = g
        /\ idleAge' = [idleAge EXCEPT ![d] = 0]
        /\ pending' = pending \union {sent}
        /\ viewers' = viewers
    BY <1>3 DEF Sending, Registry!Renew, Registry!Owns
  <2>2. sent.device = d /\ sent.gen = g /\ sent.age = 0
    OBVIOUS
  <2>3. \A p \in pending : p.device \in Devices /\ p.age \in Nat
    BY <1>0 DEF Pending
  <2>4. PendingOfOccupant' /\ ViewersOfOccupant'
    BY <2>1, <2>2
  <2>5. ASSUME NEW p \in pending' PROVE idleAge'[p.device] <= p.age
    <3>1. CASE p = sent
      BY <1>0, <2>1, <2>2, <3>1
    <3>2. CASE p \in pending
      BY <1>0, <2>1, <2>3, <3>2
    <3> QED
      BY <2>1, <3>1, <3>2
  <2> QED
    BY <2>4, <2>5
<1>4. ASSUME NEW v \in Viewers, NEW d \in Devices, NEW g \in Registry!Issued, Entering(v, d, g)
      PROVE  Tenancy'
  BY <1>0, <1>4 DEF Entering, Registry!Owns, registryVars
<1>5. CASE Aging
  <2>1. /\ occupant' = occupant
        /\ viewers' = viewers
        /\ \A d \in Devices : idleAge'[d] <= idleAge[d] + 1
    BY <1>0, <1>5 DEF Aging, Registry!Tick, Registry!Older
  <2>2. ASSUME NEW q \in pending'
        PROVE  occupant[q.device] = q.gen /\ idleAge'[q.device] <= q.age
    <3>1. PICK p \in pending : q = [p EXCEPT !.age = @ + 1]
      BY <1>5 DEF Aging
    <3>2. q.device = p.device /\ q.gen = p.gen /\ q.age = p.age + 1
      BY <1>0, <1>5, <3>1, AgedEntry DEF Aging
    <3>3. p.device \in Devices /\ p.age \in Nat
      BY <1>0 DEF Pending
    <3>4. /\ idleAge'[p.device] <= idleAge[p.device] + 1
          /\ idleAge[p.device] <= p.age
          /\ idleAge[p.device] \in Nat
      BY <1>0, <2>1, <3>3
    <3>5. idleAge'[p.device] \in Nat
      BY <1>5, <3>3, RegistryTypes DEF Registry!TypeOK, Registry!IdleAge
    <3> QED
      BY <3>2, <3>3, <3>4, <3>5
  <2> QED
    BY <2>1, <2>2
<1>6. CASE Keeping
  <2>1. idleAge' \in [Devices -> Nat]
    BY RegistryTypes DEF Registry!TypeOK, Registry!IdleAge
  <2> QED
    BY <1>0, <1>6, <2>1 DEF Keeping, Pending, Viewing
<1> QED
  BY <1>1, <1>2, <1>3, <1>4, <1>5, <1>6, OccupationSteps

(* Callers and waiting entries stay in correspondence. *)
LEMMA StepWaiting ==
  ASSUME TypeOK, WaitingIsPending, [Next]_vars
  PROVE  WaitingIsPending'
<1> USE DEF WaitingIsPending
<1>0. pending \in SUBSET Pending /\ answer \in [Requests -> Answers]
  BY DEF TypeOK
<1>1. CASE Failing
  BY <1>0, <1>1 DEF Failing, Fail, Finals, Pending
<1>2. ASSUME NEW r \in Requests, NEW d \in Devices, NEW g \in Registry!Issued, Sending(r, d, g)
      PROVE  WaitingIsPending'
  <2> DEFINE sent == [req |-> r, agent |-> agentOf[d], device |-> d, gen |-> g, age |-> 0]
  <2>1. /\ pending' = pending \union {sent}
        /\ answer' = [answer EXCEPT ![r] = "waiting"]
        /\ sent.req = r
        /\ answer[r] # "waiting"
    BY <1>2 DEF Sending
  <2>2. \A p \in pending : p.req # r
    BY <2>1
  <2> HIDE DEF sent
  <2> QED
    BY <1>0, <2>1, <2>2
<1>3. ASSUME NEW r \in Requests, Refusing(r) PROVE WaitingIsPending'
  BY <1>0, <1>3 DEF Refusing, Finals
<1>4. CASE Aging
  <2> DEFINE aged(p) == [p EXCEPT !.age = @ + 1]
  <2>1. \A p \in pending : aged(p).req = p.req
    BY <1>0, <1>4, AgedEntry DEF Aging
  <2>2. pending' = {aged(p) : p \in pending} /\ answer' = answer
    BY <1>4 DEF Aging
  <2> HIDE DEF aged
  <2>3. \A r \in Requests : (\E p \in pending' : p.req = r) <=> \E p \in pending : p.req = r
    BY <2>1, <2>2
  <2>4. \A p, q \in pending' : p.req = q.req => p = q
    BY <2>1, <2>2
  <2> QED
    BY <2>2, <2>3, <2>4
<1>5. CASE UNCHANGED commandVars
  BY <1>5 DEF commandVars
<1> QED
  BY <1>1, <1>2, <1>3, <1>4, <1>5, CommandSteps

(* A command is only sent to an agent with a current socket, so no step makes
   an agent without one responsible for an answer. *)
LEMMA ResponsibleAgents ==
  ASSUME TypeOK, [Next]_vars
  PROVE  \A p \in pending' :
           \/ \E q \in pending : q.agent = p.agent
           \/ agentSocket[p.agent] \in open /\ UNCHANGED socketVars
<1>0. pending \in SUBSET Pending
  BY DEF TypeOK
<1>1. ASSUME Failing \/ UNCHANGED commandVars \/ \E r \in Requests : Refusing(r)
      PROVE  pending' \subseteq pending
  BY <1>1 DEF Failing, Fail, Refusing, commandVars
<1>2. ASSUME NEW r \in Requests, NEW d \in Devices, NEW g \in Registry!Issued, Sending(r, d, g),
             NEW p \in pending'
      PROVE  p \in pending \/ (agentSocket[p.agent] \in open /\ UNCHANGED socketVars)
  BY <1>2 DEF Sending
<1>3. ASSUME Aging, NEW p \in pending' PROVE \E q \in pending : q.agent = p.agent
  <2>1. PICK q \in pending : p = [q EXCEPT !.age = @ + 1]
    BY <1>3 DEF Aging
  <2>2. p.agent = q.agent
    BY <1>0, <1>3, <2>1, AgedEntry DEF Aging
  <2> QED
    BY <2>2
<1> QED
  BY <1>1, <1>2, <1>3, CommandSteps

(* Current sockets point at their agents, and agents without one have nothing
   waiting and no spec: whatever order connections replace each other and
   their late closes arrive in. *)
LEMMA StepSockets ==
  ASSUME TypeOK, SocketsConsistent, [Next]_vars
  PROVE  SocketsConsistent'
<1> USE ServerAssumption DEF SocketsConsistent
<1>0. SocketTypes
  BY DEF TypeOK, SocketTypes
<1>1. ASSUME NEW a \in Agents, NEW c \in Connections, AgentConnects(a, c)
      PROVE  SocketsConsistent'
  BY <1>0, <1>1 DEF AgentConnects, SocketTypes, commandVars
<1>2. ASSUME NEW c \in Connections, SocketCloses(c) PROVE SocketsConsistent'
  BY <1>2 DEF SocketCloses, commandVars
<1>3. ASSUME NEW c \in Connections, AgentDisconnects(c) PROVE SocketsConsistent'
  BY <1>0, <1>3 DEF AgentDisconnects, Current, Fail, SocketTypes
<1>4. ASSUME NEW c \in Connections, ReplacedSocketGone(c) PROVE SocketsConsistent'
  BY <1>0, <1>4 DEF ReplacedSocketGone, Current, SocketTypes, commandVars
<1>5. ASSUME NEW c \in Connections, NEW D \in SUBSET Devices,
             NEW kinds \in {LegacyKinds, ActionKinds}, RegisterArrives(c, D, kinds)
      PROVE  SocketsConsistent'
  BY <1>0, <1>5 DEF RegisterArrives, Current, SocketTypes, commandVars
<1>6. CASE Crash
  BY <1>6 DEF Crash, Fail
<1>7. CASE UNCHANGED socketVars
  BY <1>0, <1>7, ResponsibleAgents DEF socketVars, SocketTypes
<1> QED
  BY <1>1, <1>2, <1>3, <1>4, <1>5, <1>6, <1>7
  DEF Next, UserStep, AgentStep, TimerStep, OccupyRequest, ReleaseRequest, RenewRequest,
      CommandSent, CommandRejected, CommandAllowed, ViewerConnects, ViewerCloses,
      HeartbeatArrives, ResultArrives, CommandTimesOut, IdleSweep, StaleSweep, Tick, vars

-------------------------------------------------------------------------------
(* The invariant holds of a server that has just started. *)
LEMMA InitInv == Init => ServerInv
<1> SUFFICES ASSUME Init PROVE ServerInv
  OBVIOUS
<1>1. TypeOK
  BY ServerAssumption
  DEF Init, TypeOK, Registry!Init, Registry!TypeOK, Registry!StaleAge, Registry!IdleAge,
      Registry!Unoccupied, Registry!Issued, Answers
<1>2. PendingOfOccupant /\ ViewersOfOccupant /\ WaitingIsPending /\ PendingRecent
  BY DEF Init, PendingOfOccupant, ViewersOfOccupant, WaitingIsPending, PendingRecent
<1>3. SocketsConsistent
  BY DEF Init, SocketsConsistent
<1> QED
  BY <1>1, <1>2, <1>3 DEF ServerInv

(* The server's tables agree with each other in every reachable state. *)
THEOREM ServerInvariant == Spec => []ServerInv
<1>1. ServerInv /\ [Next]_vars => ServerInv'
  BY StepTypes, StepTenancy, StepWaiting, StepSockets DEF ServerInv, Tenancy
<1> QED
  BY InitInv, <1>1, PTL DEF Spec

(* The tables of the server always have their types. *)
THEOREM TypeCorrect == Spec => []TypeOK
<1>1. ServerInv => TypeOK
  BY DEF ServerInv
<1> QED
  BY <1>1, ServerInvariant, PTL

(* A waiting command belongs to the current occupation of its device, whatever
   ended an earlier one, and a viewer watches under the current one. *)
THEOREM OccupantOnly == Spec => []OnlyForOccupant
<1>1. ServerInv => OnlyForOccupant
  BY DEF ServerInv, OnlyForOccupant
<1> QED
  BY <1>1, ServerInvariant, PTL

(* Whoever waits for an answer has exactly one entry that will give it. *)
THEOREM WaitersMatched == Spec => []WaitingIsPending
<1>1. ServerInv => WaitingIsPending
  BY DEF ServerInv
<1> QED
  BY <1>1, ServerInvariant, PTL

(* The socket tables agree with each other at every moment of a replacement. *)
THEOREM SocketsAgree == Spec => []SocketsConsistent
<1>1. ServerInv => SocketsConsistent
  BY DEF ServerInv
<1> QED
  BY <1>1, ServerInvariant, PTL

(* With a command timeout below the TTL, no device is swept as idle while a
   command on it waits. *)
THEOREM CommandsKeepOccupation == Spec => []PendingNeverIdle
<1>1. ServerInv => PendingNeverIdle
  <2> SUFFICES ASSUME ServerInv, NEW p \in pending, p.device \in Registry!IdleDevices
               PROVE  FALSE
    BY DEF PendingNeverIdle
  <2>1. p \in Pending
    BY DEF ServerInv, TypeOK
  <2>2. p.device \in Devices /\ p.age <= CommandTimeout /\ p.age \in Nat
    BY <2>1, ServerAssumption DEF Pending
  <2>3. idleAge[p.device] <= p.age /\ idleAge[p.device] \in Nat
    BY <2>2, ServerAssumption DEF ServerInv, TypeOK, Registry!TypeOK, Registry!IdleAge, PendingRecent
  <2>4. idleAge[p.device] > OccupationTtl
    BY DEF Registry!IdleDevices
  <2> QED
    BY <2>2, <2>3, <2>4, ServerAssumption
<1> QED
  BY <1>1, ServerInvariant, PTL

-------------------------------------------------------------------------------
(* Online rows have an owner with a tunnel until the first restart; without
   the owner the second half would not be inductive. *)
OnlineOwned ==
  /\ \A d \in Devices : status[d] = "online" => agentOf[d] \in Agents
  /\ OnlineIsConnected

(* Before the first restart, no step leaves a device online without its agent's tunnel. *)
LEMMA StepOnline ==
  ASSUME TypeOK, OnlineOwned, [Next]_vars
  PROVE  OnlineOwned'
<1> USE ServerAssumption DEF OnlineOwned, OnlineIsConnected
<1>0. SocketTypes /\ Registry!TypeOK /\ crashes \in Nat
  BY DEF TypeOK, SocketTypes
<1>1. ASSUME NEW c \in Connections, NEW D \in SUBSET Devices,
             NEW kinds \in {LegacyKinds, ActionKinds}, RegisterArrives(c, D, kinds)
      PROVE  OnlineOwned'
  BY <1>0, <1>1 DEF RegisterArrives, Registry!Upsert, Registry!TypeOK, Current, SocketTypes
<1>2. ASSUME NEW c \in Connections, NEW D \in SUBSET Devices, HeartbeatArrives(c, D)
      PROVE  OnlineOwned'
  BY <1>0, <1>2
  DEF HeartbeatArrives, Registry!Heartbeat, Registry!TypeOK, Current, SocketTypes, socketVars
<1>3. ASSUME NEW c \in Connections, AgentDisconnects(c) PROVE OnlineOwned'
  BY <1>0, <1>3
  DEF AgentDisconnects, Registry!MarkAgentOffline, Registry!TypeOK, Current, SocketTypes
<1>4. ASSUME NEW a \in Agents, NEW c \in Connections, AgentConnects(a, c) PROVE OnlineOwned'
  BY <1>0, <1>4 DEF AgentConnects, registryVars, SocketTypes
<1>5. CASE StaleSweep
  BY <1>0, <1>5 DEF StaleSweep, Registry!MarkStaleOffline, Registry!TypeOK, socketVars
<1>6. CASE Crash
  BY <1>0, <1>6 DEF Crash, registryVars
<1>7. CASE UNCHANGED <<status, agentOf, agentSocket, crashes>>
  BY <1>7
<1> QED
  BY <1>1, <1>2, <1>3, <1>4, <1>5, <1>6, <1>7
  DEF Next, UserStep, AgentStep, TimerStep, OccupyRequest, ReleaseRequest, RenewRequest,
      CommandSent, CommandRejected, CommandAllowed, ViewerConnects, ViewerCloses, SocketCloses,
      ReplacedSocketGone, ResultArrives, CommandTimesOut, IdleSweep, Tick, Registry!Occupy,
      Registry!Release, Registry!Renew, Registry!ExpireIdle, Registry!Tick, registryVars,
      socketVars, vars

(* Until the server restarts, an online device has an agent whose tunnel is up. *)
THEOREM OnlineMeansConnected == Spec => []OnlineIsConnected
<1>1. Init => OnlineOwned
  BY DEF Init, Registry!Init, OnlineOwned, OnlineIsConnected
<1>2. TypeOK /\ OnlineOwned /\ [Next]_vars => OnlineOwned'
  BY StepOnline
<1>3. OnlineOwned => OnlineIsConnected
  BY DEF OnlineOwned
<1> QED
  BY <1>1, <1>2, <1>3, TypeCorrect, PTL DEF Spec

(* No caller is answered twice or goes back to waiting. *)
THEOREM NoSecondAnswer == Spec => AnsweredOnce
<1> DEFINE Kept == \A r \in Requests :
                     answer[r] \notin {"unused", "waiting"} => answer'[r] = answer[r]
<1>1. ServerInv /\ [Next]_vars => [Kept]_vars
  <2> SUFFICES ASSUME ServerInv, [Next]_vars,
                      NEW r \in Requests, answer[r] \notin {"unused", "waiting"}
               PROVE  answer'[r] = answer[r]
    OBVIOUS
  <2>0. TypeOK /\ WaitingIsPending /\ answer \in [Requests -> Answers]
    BY DEF ServerInv, TypeOK
  <2>1. CASE Failing
    BY <2>0, <2>1 DEF Failing, Fail, WaitingIsPending
  <2>2. ASSUME NEW q \in Requests, NEW d \in Devices, NEW g \in Registry!Issued, Sending(q, d, g)
        PROVE  answer'[r] = answer[r]
    BY <2>0, <2>2 DEF Sending
  <2>3. ASSUME NEW q \in Requests, Refusing(q) PROVE answer'[r] = answer[r]
    BY <2>0, <2>3 DEF Refusing
  <2>4. ASSUME Aging \/ UNCHANGED commandVars PROVE answer'[r] = answer[r]
    BY <2>4 DEF Aging, commandVars
  <2> QED
    BY <2>0, <2>1, <2>2, <2>3, <2>4, CommandSteps
<1> QED
  BY <1>1, ServerInvariant, PTL DEF Spec, AnsweredOnce

(* Devices go offline only with the current socket of their agent or when
   heartbeats have stopped. *)
THEOREM NoSpuriousOffline == Spec => OfflineOnlyWhenGone
<1> DEFINE Gone ==
      \A d \in Devices, a \in Agents :
        status[d] = "online" /\ agentOf[d] = a /\ status'[d] = "offline" =>
          \/ heartbeatAge[d] > HeartbeatTimeout
          \/ agentSocket[a] # NoConnection /\ agentSocket'[a] = NoConnection
<1>1. TypeOK /\ [Next]_vars => [Gone]_vars
  <2> SUFFICES ASSUME TypeOK, [Next]_vars, NEW d \in Devices, NEW a \in Agents,
                      status[d] = "online", agentOf[d] = a, status'[d] = "offline"
               PROVE  \/ heartbeatAge[d] > HeartbeatTimeout
                      \/ agentSocket[a] # NoConnection /\ agentSocket'[a] = NoConnection
    OBVIOUS
  <2> USE ServerAssumption
  <2>0. SocketTypes /\ Registry!TypeOK
    BY DEF TypeOK, SocketTypes
  <2>1. ASSUME NEW c \in Connections, NEW D \in SUBSET Devices,
               NEW kinds \in {LegacyKinds, ActionKinds}, RegisterArrives(c, D, kinds)
        PROVE  FALSE
    BY <2>0, <2>1 DEF RegisterArrives, Registry!Upsert
  <2>2. ASSUME NEW c \in Connections, NEW D \in SUBSET Devices, HeartbeatArrives(c, D)
        PROVE  FALSE
    BY <2>0, <2>2 DEF HeartbeatArrives, Registry!Heartbeat
  <2>3. ASSUME NEW c \in Connections, AgentDisconnects(c)
        PROVE  agentSocket[a] # NoConnection /\ agentSocket'[a] = NoConnection
    BY <2>0, <2>3 DEF AgentDisconnects, Registry!MarkAgentOffline, Current, SocketTypes
  <2>4. CASE StaleSweep
    BY <2>0, <2>4 DEF StaleSweep, Registry!MarkStaleOffline, Registry!StaleDevices
  <2>5. CASE UNCHANGED status
    BY <2>5
  <2> QED
    BY <2>1, <2>2, <2>3, <2>4, <2>5
    DEF Next, UserStep, AgentStep, TimerStep, OccupyRequest, ReleaseRequest, RenewRequest,
        CommandSent, CommandRejected, CommandAllowed, ViewerConnects, ViewerCloses, AgentConnects,
        SocketCloses, ReplacedSocketGone, ResultArrives, CommandTimesOut, IdleSweep, Tick, Crash,
        Registry!Occupy, Registry!Release, Registry!Renew, Registry!ExpireIdle, Registry!Tick,
        registryVars, vars
<1> QED
  BY <1>1, TypeCorrect, PTL DEF Spec, OfflineOnlyWhenGone

-------------------------------------------------------------------------------
(* The server implements the registry: sockets, commands, viewers and restarts
   add nothing to what can happen to the table. *)
THEOREM RefinesRegistry == Spec => Registry!Spec
<1>1. Init => Registry!Init
  BY DEF Init
<1>2. TypeOK /\ [Next]_vars => [Registry!Next]_(Registry!vars)
  BY StepOfRegistry DEF registryVars, Registry!vars
<1> QED
  BY <1>1, <1>2, TypeCorrect, PTL DEF Spec, Registry!Spec

===============================================================================
