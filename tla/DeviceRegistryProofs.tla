------------------------- MODULE DeviceRegistryProofs -------------------------
(***************************************************************************)
(* Proofs about DeviceRegistry, for any set of devices and agents and any  *)
(* timeouts, and about the Clients of the API it implements, for any       *)
(* limits.  The inductive invariants are RegistryInv (types, uniqueness of *)
(* the live generations, an owner for every online row) and ClientsInv     *)
(* (types, and how old the occupation may be that a tab keeps alive).      *)
(***************************************************************************)
EXTENDS DeviceRegistry, Clients, TLAPS

RegistryInv == TypeOK /\ OneDevicePerGeneration /\ OnlineHasAgent

-------------------------------------------------------------------------------
(* The sweeps act on devices of the table. *)
LEMMA SweptDevices == IdleDevices \subseteq Devices /\ StaleDevices \subseteq Devices
  BY DEF IdleDevices, StaleDevices

(* An age stays within its saturated range when the clock ticks. *)
LEMMA OlderInRange ==
  ASSUME NEW limit \in Nat, NEW n \in 0..limit
  PROVE  Older(n, limit) \in 0..limit
  BY DEF Older

(* The empty table has its types. *)
LEMMA InitTypes == Init => TypeOK
  BY RegistryAssumption DEF Init, TypeOK, StaleAge, IdleAge, Unoccupied, Issued

(* Every operation of the repository keeps the columns in their types. *)
LEMMA StepTypes == TypeOK /\ [Next]_vars => TypeOK'
<1> SUFFICES ASSUME TypeOK, [Next]_vars PROVE TypeOK'
  OBVIOUS
<1> USE RegistryAssumption DEF TypeOK, StaleAge, IdleAge, Unoccupied, Issued
<1>1. ASSUME NEW a \in Agents, NEW D \in SUBSET Devices, Upsert(a, D) PROVE TypeOK'
  BY <1>1 DEF Upsert
<1>2. ASSUME NEW d \in Devices, Occupy(d) PROVE TypeOK'
  BY <1>2 DEF Occupy
<1>3. ASSUME NEW d \in Devices, NEW g \in Issued, Release(d, g) PROVE TypeOK'
  BY <1>3 DEF Release
<1>4. ASSUME NEW d \in Devices, NEW g \in Issued, Renew(d, g) PROVE TypeOK'
  BY <1>4 DEF Renew
<1>5. ASSUME NEW a \in Agents, NEW D \in SUBSET Devices, Heartbeat(a, D) PROVE TypeOK'
  BY <1>5 DEF Heartbeat
<1>6. ASSUME NEW a \in Agents, MarkAgentOffline(a) PROVE TypeOK'
  BY <1>6 DEF MarkAgentOffline
<1>7. CASE ExpireIdle
  BY <1>7, SweptDevices DEF ExpireIdle, EndOccupations
<1>8. CASE MarkStaleOffline
  BY <1>8, SweptDevices DEF MarkStaleOffline, EndOccupations
<1>9. CASE Tick
  <2>1. \A d \in Devices : Older(heartbeatAge[d], StaleAge) \in 0..StaleAge
    BY OlderInRange
  <2>2. \A d \in Devices : Older(idleAge[d], IdleAge) \in 0..IdleAge
    BY OlderInRange
  <2> QED
    BY <1>9, <2>1, <2>2 DEF Tick
<1>10. CASE UNCHANGED vars
  BY <1>10 DEF vars
<1> QED
  BY <1>1, <1>2, <1>3, <1>4, <1>5, <1>6, <1>7, <1>8, <1>9, <1>10 DEF Next

(* An operation issues the next generation to one free device, or takes the
   occupant away from some devices, or leaves every occupant alone: the only
   three things that ever happen to the occupant column. *)
Issues(d) ==
  /\ occupant[d] = Unoccupied
  /\ nextGen <= MaxGenerations
  /\ occupant' = [occupant EXCEPT ![d] = nextGen]
  /\ nextGen' = nextGen + 1

Frees(D) ==
  /\ D # {}
  /\ \A d \in D : occupant[d] # Unoccupied
  /\ occupant' = [d \in Devices |-> IF d \in D THEN Unoccupied ELSE occupant[d]]
  /\ nextGen' = nextGen

LEMMA OccupantSteps ==
  ASSUME TypeOK, [Next]_vars
  PROVE  \/ \E d \in Devices : Issues(d)
         \/ \E D \in SUBSET Devices : Frees(D)
         \/ UNCHANGED <<occupant, nextGen>>
<1>1. ASSUME NEW d \in Devices, Occupy(d) PROVE Issues(d)
  BY <1>1 DEF Occupy, Issues
<1>2. ASSUME NEW d \in Devices, NEW g \in Issued, Release(d, g) PROVE Frees({d})
  BY <1>2 DEF Release, Owns, Frees, TypeOK
<1>3. ASSUME ExpireIdle PROVE Frees(IdleDevices)
  BY <1>3 DEF ExpireIdle, EndOccupations, Frees, IdleDevices
<1>4. ASSUME MarkStaleOffline
      PROVE  \/ Frees({d \in StaleDevices : occupant[d] # Unoccupied})
             \/ UNCHANGED <<occupant, nextGen>>
  <2> DEFINE D == {d \in StaleDevices : occupant[d] # Unoccupied}
  <2>1. occupant' = [d \in Devices |-> IF d \in D THEN Unoccupied ELSE occupant[d]]
    BY <1>4 DEF MarkStaleOffline, EndOccupations, StaleDevices, TypeOK
  <2>2. nextGen' = nextGen
    BY <1>4 DEF MarkStaleOffline
  <2>3. D = {} => occupant' = occupant
    BY <2>1 DEF TypeOK
  <2> QED
    BY <2>1, <2>2, <2>3 DEF Frees
<1>5. {d \in StaleDevices : occupant[d] # Unoccupied} \in SUBSET Devices
  BY SweptDevices
<1>6. ASSUME NEW a \in Agents, NEW D \in SUBSET Devices, Upsert(a, D) \/ Heartbeat(a, D)
      PROVE  UNCHANGED <<occupant, nextGen>>
  BY <1>6 DEF Upsert, Heartbeat
<1>7. ASSUME NEW a \in Agents, MarkAgentOffline(a) PROVE UNCHANGED <<occupant, nextGen>>
  BY <1>7 DEF MarkAgentOffline
<1>8. ASSUME NEW d \in Devices, NEW g \in Issued, Renew(d, g)
      PROVE  UNCHANGED <<occupant, nextGen>>
  BY <1>8 DEF Renew
<1>9. ASSUME Tick \/ UNCHANGED vars PROVE UNCHANGED <<occupant, nextGen>>
  BY <1>9 DEF Tick, vars
<1> QED
  BY <1>1, <1>2, <1>3, <1>4, <1>5, <1>6, <1>7, <1>8, <1>9, SweptDevices DEF Next
-------------------------------------------------------------------------------
(* Uniqueness of the live generations is preserved. *)
LEMMA StepUnique ==
  ASSUME TypeOK, OneDevicePerGeneration, [Next]_vars
  PROVE  OneDevicePerGeneration'
<1> USE RegistryAssumption DEF TypeOK, OneDevicePerGeneration, Unoccupied, Issued
<1>1. ASSUME NEW d \in Devices, Issues(d) PROVE OneDevicePerGeneration'
  BY <1>1 DEF Issues
<1>2. ASSUME NEW D \in SUBSET Devices, Frees(D) PROVE OneDevicePerGeneration'
  BY <1>2 DEF Frees
<1>3. CASE UNCHANGED <<occupant, nextGen>>
  BY <1>3
<1> QED
  BY <1>1, <1>2, <1>3, OccupantSteps

(* Only a registration or a heartbeat of the owner puts a row online, and
   losing the owner takes it offline. *)
LEMMA StepOwned ==
  ASSUME TypeOK, OnlineHasAgent, [Next]_vars
  PROVE  OnlineHasAgent'
<1> USE DEF TypeOK, OnlineHasAgent
<1>1. ASSUME NEW a \in Agents, NEW D \in SUBSET Devices, Upsert(a, D)
      PROVE  OnlineHasAgent'
  BY <1>1 DEF Upsert
<1>2. ASSUME NEW a \in Agents, NEW D \in SUBSET Devices, Heartbeat(a, D)
      PROVE  OnlineHasAgent'
  BY <1>2 DEF Heartbeat
<1>3. ASSUME NEW a \in Agents, MarkAgentOffline(a) PROVE OnlineHasAgent'
  BY <1>3 DEF MarkAgentOffline
<1>4. CASE MarkStaleOffline
  BY <1>4 DEF MarkStaleOffline
<1>5. CASE UNCHANGED <<status, agentOf>>
  BY <1>5
<1> QED
  BY <1>1, <1>2, <1>3, <1>4, <1>5
  DEF Next, vars, Occupy, Release, Renew, ExpireIdle, Tick

(* The invariant holds of the empty table. *)
LEMMA InitInv == Init => RegistryInv
  BY InitTypes DEF Init, RegistryInv, OneDevicePerGeneration, OnlineHasAgent, Unoccupied

(* Types, one device per generation and an agent for every device online: in every
   reachable state of the devices table. *)
THEOREM RegistryInvariant == Spec => []RegistryInv
<1>1. RegistryInv /\ [Next]_vars => RegistryInv'
  BY StepTypes, StepUnique, StepOwned DEF RegistryInv
<1> QED
  BY InitInv, <1>1, PTL DEF Spec
-------------------------------------------------------------------------------
(* The rows always have the types of their columns. *)
THEOREM TypeCorrect == Spec => []TypeOK
<1>1. RegistryInv => TypeOK
  BY DEF RegistryInv
<1> QED
  BY <1>1, RegistryInvariant, PTL

(* At every moment a generation is on at most one device, and was handed out. *)
THEOREM GenerationsExclusive == Spec => []OneDevicePerGeneration
<1>1. RegistryInv => OneDevicePerGeneration
  BY DEF RegistryInv
<1> QED
  BY <1>1, RegistryInvariant, PTL

(* An online row always has an agent to route commands to. *)
THEOREM OnlineOwned == Spec => []OnlineHasAgent
<1>1. RegistryInv => OnlineHasAgent
  BY DEF RegistryInv
<1> QED
  BY <1>1, RegistryInvariant, PTL

(* No step takes a device from its user before a release, the TTL or the
   heartbeat timeout. *)
THEOREM NeverEndedEarly == Spec => NoEarlyEnd
<1> DEFINE Justified ==
      \A d \in Devices, g \in Issued :
        occupant[d] = g /\ occupant'[d] # g =>
          \/ Release(d, g)
          \/ idleAge[d] > OccupationTtl
          \/ heartbeatAge[d] > HeartbeatTimeout
<1>1. TypeOK /\ [Next]_vars => [Justified]_vars
  <2> SUFFICES ASSUME TypeOK, Next,
                      NEW d \in Devices, NEW g \in Issued,
                      occupant[d] = g, occupant'[d] # g
               PROVE  \/ Release(d, g)
                      \/ idleAge[d] > OccupationTtl
                      \/ heartbeatAge[d] > HeartbeatTimeout
    OBVIOUS
  <2> USE DEF TypeOK, Unoccupied, Issued
  <2>1. ASSUME NEW e \in Devices, Occupy(e) PROVE FALSE
    BY <2>1 DEF Occupy
  <2>2. ASSUME NEW e \in Devices, NEW h \in Issued, Release(e, h) PROVE Release(d, g)
    <3>1. e = d
      BY <2>2 DEF Release
    <3>2. h = g
      BY <2>2, <3>1 DEF Release, Owns
    <3> QED
      BY <2>2, <3>1, <3>2
  <2>3. CASE ExpireIdle
    BY <2>3 DEF ExpireIdle, EndOccupations, IdleDevices
  <2>4. CASE MarkStaleOffline
    BY <2>4 DEF MarkStaleOffline, EndOccupations, StaleDevices
  <2> QED
    BY <2>1, <2>2, <2>3, <2>4
    DEF Next, Upsert, Renew, Heartbeat, MarkAgentOffline, Tick
<1> QED
  BY <1>1, TypeCorrect, PTL DEF Spec, NoEarlyEnd
-------------------------------------------------------------------------------
(* The refinement mapping: with unique holders, a live generation is mapped
   to the device that carries it. *)
LEMMA LeaseValue ==
  ASSUME TypeOK, OneDevicePerGeneration, NEW g \in Issued
  PROVE  /\ g >= nextGen => LeaseOf(g) = "unissued"
         /\ \A d \in Devices : occupant[d] = g => LeaseOf(g) = d
         /\ g < nextGen /\ (\A d \in Devices : occupant[d] # g) => LeaseOf(g) = "ended"
<1> USE RegistryAssumption DEF TypeOK, Issued, Unoccupied
<1>1. ASSUME NEW d \in Devices, occupant[d] = g PROVE LeaseOf(g) = d
  <2>1. g < nextGen /\ Holders(g) # {}
    BY <1>1 DEF OneDevicePerGeneration, Holders
  <2>2. \A e \in Devices : occupant[e] = g => e = d
    BY <1>1 DEF OneDevicePerGeneration
  <2>3. HolderOf(g) = d
    BY <1>1, <2>2 DEF HolderOf
  <2> QED
    BY <2>1, <2>3 DEF LeaseOf
<1>2. ASSUME g < nextGen, \A d \in Devices : occupant[d] # g PROVE LeaseOf(g) = "ended"
  BY <1>2 DEF LeaseOf, Holders
<1>3. ASSUME g >= nextGen PROVE LeaseOf(g) = "unissued"
  BY <1>3 DEF LeaseOf
<1> QED
  BY <1>1, <1>2, <1>3

(* A step that changes neither who holds g nor whether g was issued keeps its
   lease. *)
LEMMA LeaseKept ==
  ASSUME NEW g, \A e \in Devices : occupant'[e] = g <=> occupant[e] = g,
         (g >= nextGen)' <=> g >= nextGen
  PROVE  LeaseOf(g)' = LeaseOf(g)
<1>1. Holders(g)' = Holders(g)
  BY DEF Holders
<1>2. HolderOf(g)' = HolderOf(g)
  BY DEF HolderOf
<1> QED
  BY <1>1, <1>2 DEF LeaseOf

(* Issuing the next generation is the abstract Grant. *)
LEMMA IssueGrants ==
  ASSUME TypeOK, OneDevicePerGeneration, TypeOK', OneDevicePerGeneration',
         NEW d \in Devices, Issues(d),
         "unissued" \notin Devices, "ended" \notin Devices
  PROVE  Lease!Grant(nextGen, d)
<1> USE RegistryAssumption
<1>0. nextGen \in Issued /\ nextGen \in Nat /\ nextGen' = nextGen + 1 /\ nextGen # Unoccupied
  BY DEF TypeOK, Issued, Unoccupied, Issues
<1>1. leaseMap[nextGen] = "unissued"
  BY <1>0, LeaseValue DEF leaseMap
<1>2. \A h \in Issued : leaseMap[h] # d
  <2> SUFFICES ASSUME NEW h \in Issued, LeaseOf(h) = d PROVE FALSE
    BY DEF leaseMap
  <2>1. PICK e \in Devices : occupant[e] = h
    BY LeaseValue DEF TypeOK, Issued
  <2>2. e = d
    BY <2>1, LeaseValue
  <2> QED
    BY <2>1, <2>2 DEF Issues, Issued, Unoccupied
<1>3. ASSUME NEW g \in Issued
      PROVE  LeaseOf(g)' = IF g = nextGen THEN d ELSE leaseMap[g]
  <2>1. CASE g = nextGen
    <3>1. occupant'[d] = g
      BY <2>1 DEF Issues, TypeOK
    <3>2. g < nextGen'
      BY <2>1, <1>0
    <3>3. \A e \in Devices : occupant'[e] = g => e = d
      BY <2>1, <1>0, <3>1 DEF OneDevicePerGeneration, TypeOK
    <3>4. HolderOf(g)' = d
      BY <3>1, <3>3 DEF HolderOf
    <3>5. Holders(g)' # {}
      BY <3>1 DEF Holders
    <3> QED
      BY <2>1, <1>0, <3>2, <3>4, <3>5 DEF LeaseOf
  <2>2. CASE g # nextGen
    <3>1. \A e \in Devices : occupant'[e] = g <=> occupant[e] = g
      BY <2>2 DEF Issues, TypeOK, Issued, Unoccupied
    <3>2. (g >= nextGen)' <=> g >= nextGen
      BY <2>2, <1>0 DEF Issued
    <3> QED
      BY <2>2, <3>1, <3>2, LeaseKept DEF leaseMap
  <2> QED
    BY <2>1, <2>2
<1>4. leaseMap' = [leaseMap EXCEPT ![nextGen] = d]
  <2>1. leaseMap' = [g \in Issued |-> LeaseOf(g)']
    BY DEF leaseMap
  <2>2. DOMAIN leaseMap = Issued
    BY DEF leaseMap
  <2> QED
    BY <1>3, <2>1, <2>2 DEF leaseMap
<1> QED
  BY <1>1, <1>2, <1>4 DEF Lease!Grant

(* Taking occupants away is the abstract End of the generations they had. *)
LEMMA FreeEnds ==
  ASSUME TypeOK, OneDevicePerGeneration, TypeOK', OneDevicePerGeneration',
         NEW D \in SUBSET Devices, Frees(D)
  PROVE  Lease!End({occupant[d] : d \in D})
<1> USE RegistryAssumption DEF TypeOK, Issued, Unoccupied
<1> DEFINE G == {occupant[d] : d \in D}
<1>1. G # {} /\ G \subseteq Lease!Live
  BY LeaseValue DEF Frees, Lease!Live, leaseMap
<1>2. ASSUME NEW g \in Issued
      PROVE  LeaseOf(g)' = IF g \in G THEN "ended" ELSE leaseMap[g]
  <2>1. CASE g \in G
    <3>1. PICK d \in D : occupant[d] = g
      BY <2>1
    <3>2. g < nextGen'
      BY <3>1 DEF Frees, OneDevicePerGeneration
    <3>3. \A e \in Devices : occupant'[e] # g
      BY <3>1 DEF Frees, OneDevicePerGeneration
    <3> QED
      BY <2>1, <3>2, <3>3 DEF LeaseOf, Holders
  <2>2. CASE g \notin G
    <3>1. \A e \in Devices : occupant'[e] = g <=> occupant[e] = g
      BY <2>2 DEF Frees
    <3>2. (g >= nextGen)' <=> g >= nextGen
      BY DEF Frees
    <3> QED
      BY <2>2, <3>1, <3>2, LeaseKept DEF leaseMap
  <2> QED
    BY <2>1, <2>2
<1>3. leaseMap' = [g \in Issued |-> IF g \in G THEN "ended" ELSE leaseMap[g]]
  <2>1. leaseMap' = [g \in Issued |-> LeaseOf(g)']
    BY DEF leaseMap
  <2> QED
    BY <1>2, <2>1
<1> QED
  BY <1>1, <1>3 DEF Lease!End

(* The registry implements Occupancy, provided the two marks of the abstract
   lease are not device ids. *)
THEOREM RefinesOccupancy ==
  ASSUME "unissued" \notin Devices, "ended" \notin Devices
  PROVE  Spec => ImplementsOccupancy
<1>1. Init => Lease!Init
  BY RegistryAssumption DEF Init, Lease!Init, leaseMap, LeaseOf, Issued
<1>2. RegistryInv /\ RegistryInv' /\ [Next]_vars => [Lease!Next]_leaseMap
  <2> SUFFICES ASSUME RegistryInv, RegistryInv', [Next]_vars
               PROVE  Lease!Next \/ leaseMap' = leaseMap
    OBVIOUS
  <2> USE RegistryAssumption DEF RegistryInv
  <2>1. ASSUME NEW d \in Devices, Issues(d) PROVE Lease!Next
    <3>1. nextGen \in Issued
      BY <2>1 DEF Issues, Issued, TypeOK
    <3> QED
      BY <2>1, <3>1, IssueGrants DEF Lease!Next
  <2>2. ASSUME NEW D \in SUBSET Devices, Frees(D) PROVE Lease!Next
    <3>1. {occupant[d] : d \in D} \in SUBSET Issued
      BY <2>2 DEF Frees, TypeOK
    <3> QED
      BY <2>2, <3>1, FreeEnds DEF Lease!Next
  <2>3. CASE UNCHANGED <<occupant, nextGen>>
    BY <2>3 DEF leaseMap, LeaseOf, Holders, HolderOf
  <2> QED
    BY <2>1, <2>2, <2>3, OccupantSteps
<1> QED
  BY <1>1, <1>2, RegistryInvariant, PTL DEF Spec, ImplementsOccupancy, Lease!Spec
-------------------------------------------------------------------------------
(* Reclaiming the devices D, whoever asked for it, as the API sees it. *)
LEMMA ReclaimSeen ==
  ASSUME TypeOK, NEW D \in SUBSET Devices, EndOccupations(D), nextGen' = nextGen
  PROVE  Api!End({d \in D : occupant[d] # Unoccupied})
BY DEF TypeOK, EndOccupations, Api!End, Api!Nobody, ageSeen, Unoccupied

(* Every operation of the registry is an operation of the API, or is not seen
   through it. *)
LEMMA ApiSteps == TypeOK /\ [Next]_vars => [Api!ApiNext]_(Api!apiVars)
<1> SUFFICES ASSUME TypeOK, [Next]_vars PROVE Api!ApiNext \/ UNCHANGED Api!apiVars
  OBVIOUS
<1> USE RegistryAssumption DEF TypeOK, Unoccupied, Issued, Api!Nobody, Api!Ids, Api!Answer,
        Api!apiVars
<1>0. \A d \in Devices : ageSeen[d] = IF occupant[d] = 0 THEN 0 ELSE idleAge[d]
  BY DEF ageSeen
<1>1. ASSUME NEW d \in Devices, Occupy(d) PROVE Api!ApiNext
  <2> DEFINE answer == Api!Answer(200, nextGen)
  <2>1. nextGen \in 1..MaxGenerations /\ answer \in Api!Answers
    BY <1>1 DEF Occupy, Api!Answers
  <2>2. ageSeen' = [ageSeen EXCEPT ![d] = 0]
    BY <1>1, <2>1 DEF Occupy, ageSeen
  <2>3. nextGen' - 1 = (nextGen - 1) + 1 /\ nextGen - 1 < MaxGenerations
    BY <1>1, <2>1 DEF Occupy
  <2>4. Api!ServeOccupy(d, answer)
    BY <1>1, <2>1, <2>2, <2>3 DEF Api!ServeOccupy, Occupy
  <2> QED
    BY <2>1, <2>4 DEF Api!ApiNext
<1>2. ASSUME NEW d \in Devices, NEW g \in Issued, Release(d, g) PROVE Api!ApiNext
  <2> DEFINE answer == Api!Answer(200, g)
  <2>1. answer \in Api!Answers
    BY DEF Api!Answers
  <2>2. ageSeen' = [ageSeen EXCEPT ![d] = 0]
    BY <1>2 DEF Release, ageSeen
  <2>3. Api!ServeRelease(d, g, answer)
    BY <1>2, <2>2 DEF Api!ServeRelease, Release, Owns
  <2> QED
    BY <2>1, <2>3 DEF Api!ApiNext
<1>3. ASSUME NEW d \in Devices, NEW g \in Issued, Renew(d, g) PROVE Api!ApiNext
  <2> DEFINE answer == Api!Answer(200, g)
  <2>1. answer \in Api!Answers
    BY DEF Api!Answers
  <2>2. ageSeen' = [ageSeen EXCEPT ![d] = 0]
    BY <1>3 DEF Renew, ageSeen
  <2>3. Api!ServeKeepalive(d, g, answer)
    BY <1>3, <2>2 DEF Api!ServeKeepalive, Renew, Owns
  <2> QED
    BY <2>1, <2>3 DEF Api!ApiNext
<1>4. CASE ExpireIdle
  <2>1. IdleDevices = Api!Expired
    BY DEF IdleDevices, Api!Expired, Api!Occupied, ageSeen
  <2>2. IdleDevices \in SUBSET Devices /\ \A d \in IdleDevices : occupant[d] # 0
    BY DEF IdleDevices
  <2>3. EndOccupations(IdleDevices) /\ nextGen' = nextGen /\ IdleDevices # {}
    BY <1>4 DEF ExpireIdle
  <2>4. Api!End({d \in IdleDevices : occupant[d] # Unoccupied})
    BY <2>2, <2>3, ReclaimSeen
  <2>5. {d \in IdleDevices : occupant[d] # Unoccupied} = IdleDevices
    BY <2>2
  <2> QED
    BY <2>1, <2>3, <2>4, <2>5 DEF Api!Sweep, Api!ApiNext
<1>5. CASE MarkStaleOffline
  <2> DEFINE D == {d \in StaleDevices : occupant[d] # Unoccupied}
  <2>1. StaleDevices \in SUBSET Devices
    BY DEF StaleDevices
  <2>2. Api!End(D)
    BY <1>5, <2>1, ReclaimSeen DEF MarkStaleOffline
  <2>3. D \in SUBSET Api!Occupied
    BY <2>1 DEF Api!Occupied
  <2>4. CASE D # {}
    BY <2>2, <2>3, <2>4 DEF Api!Reclaim, Api!ApiNext
  <2>5. CASE D = {}
    <3>1. occupant' = occupant /\ ageSeen' = ageSeen
      BY <1>5, <2>1, <2>5 DEF MarkStaleOffline, EndOccupations, ageSeen
    <3>2. nextGen' = nextGen
      BY <1>5 DEF MarkStaleOffline
    <3> QED
      BY <3>1, <3>2
  <2> QED
    BY <2>4, <2>5
<1>6. CASE Tick
  <2>1. occupant' = occupant /\ nextGen' = nextGen
    BY <1>6 DEF Tick
  <2>2. ageSeen' = Api!Aged
    BY <1>6 DEF Tick, Api!Aged, ageSeen, Older, IdleAge
  <2> QED
    BY <2>1, <2>2 DEF Api!TimePasses, Api!ApiNext
<1>7. ASSUME \/ \E a \in Agents, D \in SUBSET Devices : Upsert(a, D) \/ Heartbeat(a, D)
             \/ \E a \in Agents : MarkAgentOffline(a)
             \/ UNCHANGED vars
      PROVE  UNCHANGED Api!apiVars
  <2>1. UNCHANGED <<occupant, idleAge, nextGen>>
    BY <1>7 DEF Upsert, Heartbeat, MarkAgentOffline, vars
  <2> QED
    BY <2>1 DEF ageSeen
<1> QED
  BY <1>1, <1>2, <1>3, <1>4, <1>5, <1>6, <1>7 DEF Next

(* The registry implements the server its clients are checked against: agents,
   heartbeats and both sweeps show at the API as grants, renewals, releases
   and reclaimed occupations only. *)
THEOREM RefinesApi == Spec => ImplementsApi
<1>1. Init => Api!ApiInit
  BY DEF Init, Api!ApiInit, ageSeen, Unoccupied, Api!Nobody
<1> QED
  BY <1>1, ApiSteps, TypeCorrect, PTL DEF Spec, ImplementsApi, Api!ApiSpec
-------------------------------------------------------------------------------
(* The clients.  ClientsInv is inductive whatever the bounds are; its last part
   needs an environment that names no session. *)
(* A keepalive for the session is still to be answered. *)
Renewing == \E r \in requests :
  r.kind = "keepalive" /\ r.answer = Pending /\ r.dev = session.dev /\ r.id = session.id

(* While the tab does its part, the server's occupation is as old as the
   requests that were lost, and one interval more when the next is under way. *)
AgeBounded ==
  /\ steady => session # NoSession /\ connected
  /\ steady /\ owner[session.dev] = session.id =>
       age[session.dev] <= losses + (IF due \/ Renewing THEN 1 ELSE 0)

(* An occupation that was granted and not yet told of is not older than that. *)
GrantsFresh ==
  \A r \in requests : r.kind = "occupy" /\ r.answer.status = 200 =>
    /\ r.answer.id \in Ids
    /\ owner[r.dev] = r.answer.id => age[r.dev] = 0

(* The occupation of the stored session is over, and its id never comes back. *)
SessionOver == file # NoFile /\ owner[file.dev] # file.id

(* The ids the command line knows are ones the server has granted. *)
IdsGranted ==
  /\ file # NoFile => file.id <= issued
  /\ command # Idle /\ command.cmd = "occupy" =>
       /\ command.answer.status # 403
       /\ command.answer.status = 200 => command.answer.id \in 1..issued

(* A command aimed at the session is about that session; an answer that ends it
   came after its end. *)
CommandSound ==
  command # Idle =>
    /\ command.aimed => file # NoFile
    /\ command.aimed /\ command.cmd # "occupy" => command.dev = file.dev /\ command.id = file.id
    /\ (command.cmd = "release" /\ command.answer.status = 200
          /\ file # NoFile /\ file.dev = command.dev) => SessionOver
    /\ SessionInvalid => SessionOver

ClientsInv == ClientsTypeOK /\ AgeBounded /\ GrantsFresh /\ IdsGranted

(* What the server does to the devices between two ticks: an occupation is as
   old as before, or new, used, or over; and an id is granted once. *)
Calm ==
  \A d \in Devices : age'[d] = 0 \/ (owner'[d] = owner[d] /\ age'[d] = age[d])

Onward ==
  /\ issued <= issued'
  /\ \A d \in Devices, id \in 1..issued : owner[d] # id => owner'[d] # id

ApiCalm == ApiTypeOK' /\ Calm /\ Onward

(* However a request is answered, the server is calm. *)
LEMMA ServeCalm ==
  ASSUME ApiTypeOK, NEW d \in Devices, NEW kind, NEW id, NEW answer,
         Serve(kind, d, id, answer)
  PROVE  ApiCalm
<1> USE FarmApiAssumption DEF ApiTypeOK, Ids, Nobody, ApiCalm, Calm, Onward, apiVars
<1>1. CASE ServeOccupy(d, answer)
  BY <1>1 DEF ServeOccupy
<1>2. CASE ServeRelease(d, id, answer)
  BY <1>2 DEF ServeRelease
<1>3. CASE ServeKeepalive(d, id, answer)
  BY <1>3 DEF ServeKeepalive
<1>4. CASE ServeAction(d, id, answer)
  BY <1>4 DEF ServeAction
<1> QED
  BY <1>1, <1>2, <1>3, <1>4 DEF Serve

(* So it is when it ends occupations, or does nothing. *)
LEMMA EndCalm ==
  ASSUME ApiTypeOK, Sweep \/ Reclaim \/ UNCHANGED apiVars
  PROVE  ApiCalm
<1> USE FarmApiAssumption DEF ApiTypeOK, Ids, Nobody, ApiCalm, Calm, Onward
<1>1. ASSUME NEW D, End(D) PROVE ApiCalm
  BY <1>1 DEF End
<1>2. CASE UNCHANGED apiVars
  BY <1>2 DEF apiVars
<1> QED
  BY <1>1, <1>2 DEF Sweep, Reclaim

(* What each kind of request is answered with. *)
LEMMA ServeAnswers ==
  ASSUME ApiTypeOK, NEW d \in Devices, NEW kind, NEW id, NEW answer,
         Serve(kind, d, id, answer)
  PROVE  /\ kind = "occupy" => answer.status # 403
         /\ kind = "occupy" /\ answer.status = 200 =>
              /\ answer.id \in Ids /\ answer.id \in 1..issued'
              /\ owner'[d] = answer.id /\ age'[d] = 0
         /\ kind = "keepalive" /\ owner'[d] = id => age'[d] = 0
         /\ kind = "release" /\ answer.status = 200 => owner'[d] = Nobody
         /\ kind # "occupy" /\ answer.status = 403 => owner'[d] # id
         /\ kind \in {"keepalive", "release"} /\ answer.status = 409 => owner'[d] # id
BY FarmApiAssumption DEF ApiTypeOK, Serve, ServeOccupy, ServeRelease, ServeKeepalive, ServeAction,
   Answer, Mismatch, Ids, Nobody, apiVars
-------------------------------------------------------------------------------
(* The web console.  Requests stay what they are until the server answers. *)
SameRequest(q, r) == q.kind = r.kind /\ q.dev = r.dev /\ q.id = r.id /\ q.answer = r.answer

CarriedOver ==
  \A q \in requests' : q.answer = Pending \/ \E r \in requests : SameRequest(q, r)

(* The cleanup of the keepalive hook changes nothing else about a request. *)
LEMMA UnheardSame ==
  ASSUME NEW R \in SUBSET Requests
  PROVE  /\ Unheard(R) \in SUBSET Requests
         /\ \A q \in Unheard(R) : \E r \in R : SameRequest(q, r)
         /\ \A r \in R : \E q \in Unheard(R) : SameRequest(q, r)
<1>1. ASSUME NEW r \in R
      PROVE  /\ [r EXCEPT !.heeded = (r.kind # "keepalive")] \in Requests
             /\ SameRequest([r EXCEPT !.heeded = (r.kind # "keepalive")], r)
  <2>1. (r.kind # "keepalive") \in BOOLEAN
    OBVIOUS
  <2> DEFINE b == (r.kind # "keepalive")
  <2> HIDE DEF b
  <2>2. [r EXCEPT !.heeded = b] \in Requests /\ SameRequest([r EXCEPT !.heeded = b], r)
    BY <2>1 DEF Requests, SameRequest, b
  <2> QED
    BY <2>2 DEF b
<1> QED
  BY <1>1 DEF Unheard

(* A new request is typed and has no answer yet. *)
LEMMA FreshTyped ==
  ASSUME NEW kind \in Kinds, NEW d \in Devices, NEW id \in Ids \union {Nobody}
  PROVE  /\ Fresh(kind, d, id) \in Requests
         /\ Fresh(kind, d, id).answer = Pending
BY DEF Fresh, Requests, Answers

(* A session is a device and an id; no such pair is NoSession. *)
LEMMA SessionIsPair ==
  /\ \A s \in Sessions : s.dev \in Devices /\ s.id \in Ids /\ s # NoSession
  /\ \A d \in Devices, id \in Ids : [dev |-> d, id |-> id] \in Sessions
<1>1. Nobody \notin Ids
  BY FarmApiAssumption DEF Nobody, Ids
<1> QED
  BY <1>1 DEF Sessions, NoSession

(* setOccupation(s) *)
LEMMA SessionSet ==
  ASSUME ClientsTypeOK, NEW s \in Sessions \union {NoSession}, NEW R \in SUBSET requests,
         SetSession(s, R)
  PROVE  /\ WebTypeOK'
         /\ session' = s /\ connected' = connected /\ losses' = losses
         /\ steady' => s # NoSession /\ connected
         /\ requests' = Unheard(R)
<1>1. R \in SUBSET Requests
  BY DEF ClientsTypeOK, WebTypeOK
<1>2. (s # NoSession) \in BOOLEAN
  OBVIOUS
<1>3. /\ session' = s /\ connected' = connected /\ losses' = losses
      /\ due' = FALSE /\ idle' = 0 /\ requests' = Unheard(R)
      /\ stream' \in {"off", "connecting"}
  BY DEF SetSession, Effects, NoEffects
<1>4. (connected /\ steady' = (s # NoSession)) \/ steady' = FALSE
  BY DEF SetSession, NoEffects
<1>5. steady' \in BOOLEAN /\ (steady' => s # NoSession /\ connected)
  BY <1>2, <1>4, Zenon
<1>6. Unheard(R) \in SUBSET Requests
  BY <1>1, UnheardSame
<1>7. connected' \in BOOLEAN /\ due' \in BOOLEAN
  BY <1>3, Zenon DEF ClientsTypeOK, WebTypeOK
<1>8. idle' \in 0..IdleLimit + 1
  BY <1>3, WebAssumption
<1>9. WebTypeOK'
  BY <1>3, <1>5, <1>6, <1>7, <1>8 DEF ClientsTypeOK, WebTypeOK
<1> QED
  BY <1>3, <1>5, <1>9
(* The session stays, and so does the reason why it is renewed in time. *)
Stays ==
  /\ session' = session /\ connected' = connected
  /\ steady' => steady
  /\ losses <= losses'
  /\ due \/ Renewing => due' \/ Renewing' \/ losses < losses'

(* What is asked for stays asked for when requests are only added. *)
LEMMA RenewingKept ==
  ASSUME session' = session, requests \subseteq requests', Renewing PROVE Renewing'
BY DEF Renewing

(* The steps of the tab itself: it gives its part in the session up, or keeps it. *)
LEMMA WebEffect ==
  ASSUME ClientsTypeOK, AgeBounded, WebStep
  PROVE  WebTypeOK' /\ CarriedOver /\ (~steady' \/ Stays)
<1> USE WebAssumption
<1> DEFINE Goal == WebTypeOK' /\ CarriedOver /\ (~steady' \/ Stays)
<1>0. /\ WebTypeOK /\ requests \in SUBSET Requests
      /\ \A r \in requests : SameRequest(r, r)
      /\ losses \in Nat
  BY DEF ClientsTypeOK, WebTypeOK, SameRequest
<1>1. CASE Connect
  <2>1. /\ session' = session /\ connected' = TRUE /\ losses' = losses /\ ~connected
        /\ due' = FALSE /\ idle' = 0 /\ requests' = Unheard(requests)
        /\ stream' \in {"off", "connecting"} /\ steady' = steady
    BY <1>1 DEF Connect, Effects
  <2>2. ~steady'
    BY <2>1 DEF AgeBounded
  <2>3. requests' \subseteq Requests /\ CarriedOver
    BY <1>0, <2>1, UnheardSame DEF CarriedOver
  <2>4. connected' \in BOOLEAN /\ due' \in BOOLEAN
    BY <2>1, Zenon
  <2> QED
    BY <1>0, <2>1, <2>2, <2>3, <2>4 DEF WebTypeOK
<1>2. CASE Disconnect \/ Reload
  <2>1. /\ session' = session /\ connected' = FALSE /\ losses' = losses
        /\ due' = FALSE /\ idle' = 0 /\ steady' = FALSE /\ stream' = "off"
        /\ requests' = Unheard(requests) \/ requests' = Unheard({})
    BY <1>2 DEF Disconnect, Reload, NoEffects
  <2>2. Unheard({}) = {}
    BY DEF Unheard
  <2>3. requests' \subseteq Requests /\ CarriedOver
    BY <1>0, <2>1, <2>2, UnheardSame DEF CarriedOver
  <2>4. connected' \in BOOLEAN /\ due' \in BOOLEAN /\ steady' \in BOOLEAN
    BY <2>1, Zenon
  <2>5. ~steady'
    BY <2>1
  <2> QED
    BY <1>0, <2>1, <2>3, <2>4, <2>5 DEF WebTypeOK
<1>3. ASSUME NEW kind \in Kinds, NEW d \in Devices, NEW id \in Ids \union {Nobody},
             Requested(kind, d, id) \/ UNCHANGED requests,
             idle' \in {idle, 0},
             UNCHANGED <<session, connected, due, steady, stream, losses>>
      PROVE  Goal
  <2>1. requests' \subseteq Requests /\ CarriedOver /\ requests \subseteq requests'
    BY <1>0, <1>3, FreshTyped DEF Requested, CarriedOver
  <2>2. Renewing => Renewing'
    BY <1>3, <2>1, RenewingKept
  <2>3. WebTypeOK'
    BY <1>0, <1>3, <2>1 DEF WebTypeOK
  <2> QED
    BY <1>0, <1>3, <2>1, <2>2, <2>3 DEF Stays
<1>4. CASE ClickRelease \/ Act
  <2>1. session \in Sessions
    BY <1>0, <1>4 DEF ClickRelease, Act, HasHooks, WebTypeOK
  <2>2. session.dev \in Devices /\ session.id \in Ids \union {Nobody}
    BY <2>1, SessionIsPair
  <2>3. "release" \in Kinds /\ "action" \in Kinds
    BY DEF Kinds
  <2> QED
    BY <1>3, <1>4, <2>2, <2>3 DEF ClickRelease, Act
<1>5. ASSUME NEW d \in Devices, ClickOccupy(d) PROVE Goal
  <2>1. "occupy" \in Kinds /\ Nobody \in Ids \union {Nobody}
    BY DEF Kinds
  <2> QED
    BY <1>3, <1>5, <2>1 DEF ClickOccupy, hookVars
<1>6. CASE KeepaliveFires
  <2>1. session \in Sessions /\ "keepalive" \in Kinds
    BY <1>0, <1>6 DEF KeepaliveFires, HasHooks, WebTypeOK, Kinds
  <2>2. session.dev \in Devices /\ session.id \in Ids \union {Nobody}
    BY <2>1, SessionIsPair
  <2> DEFINE r == Fresh("keepalive", session.dev, session.id)
  <2>3. r \in Requests /\ r.answer = Pending
    BY <2>1, <2>2, FreshTyped
  <2>4. /\ UNCHANGED <<session, connected, idle, stream, losses>> /\ due' = FALSE
        /\ \/ steady' = FALSE /\ UNCHANGED requests
           \/ UNCHANGED steady /\ requests' = requests \union {r}
    BY <1>6 DEF KeepaliveFires
  <2>5. requests' \subseteq Requests /\ CarriedOver
    BY <1>0, <2>3, <2>4 DEF CarriedOver
  <2>6. due' \in BOOLEAN /\ steady' \in BOOLEAN
    BY <1>0, <2>4, Zenon DEF WebTypeOK
  <2>7. WebTypeOK'
    BY <1>0, <2>4, <2>5, <2>6 DEF WebTypeOK
  <2>8. ~steady' \/ Stays
    <3>1. CASE steady' = FALSE
      BY <3>1
    <3>2. CASE UNCHANGED steady /\ requests' = requests \union {r}
      <4>1. r.kind = "keepalive" /\ r.dev = session'.dev /\ r.id = session'.id /\ r \in requests'
        BY <2>4, <3>2 DEF Fresh
      <4>2. Renewing'
        BY <2>3, <4>1 DEF Renewing
      <4> QED
        BY <1>0, <2>4, <3>2, <4>2 DEF Stays
    <3> QED
      BY <2>4, <3>1, <3>2
  <2> QED
    BY <2>5, <2>7, <2>8
<1>7. CASE Polled
  BY <1>0, <1>7, RenewingKept DEF Polled, webVars, WebTypeOK, CarriedOver, Stays
<1>8. CASE StreamLost
  <2>1. /\ requests \in SUBSET requests
        /\ NoSession \in Sessions \union {NoSession}
    OBVIOUS
  <2>2. WebTypeOK' /\ ~steady' /\ requests' = Unheard(requests)
    BY <1>8, <2>1, SessionSet DEF StreamLost
  <2> QED
    BY <1>0, <2>2, UnheardSame DEF CarriedOver
<1>9. ASSUME stream' \in {"open", "ended", "waiting", "connecting"},
             losses' = losses \/ (losses < MaxLosses /\ losses' = losses + 1),
             UNCHANGED <<session, connected, due, idle, steady, requests>>
      PROVE  Goal
  <2>1. Renewing => Renewing'
    BY <1>9, RenewingKept
  <2>2. WebTypeOK' /\ losses <= losses'
    BY <1>0, <1>9 DEF WebTypeOK
  <2> QED
    BY <1>0, <1>9, <2>1, <2>2 DEF CarriedOver, Stays
<1>10. CASE StreamConnects \/ StreamRevoked \/ StreamRefused \/ StreamBreaks \/ StreamRetries
  BY <1>8, <1>9, <1>10 DEF StreamConnects, StreamRevoked, StreamRefused, StreamBreaks,
     StreamRetries
<1>11. ASSUME NEW r \in requests, TimesOut(r) PROVE Goal
  <2>1. WebTypeOK' /\ CarriedOver /\ losses < losses'
    BY <1>0, <1>11 DEF TimesOut, WebTypeOK, CarriedOver, hookVars
  <2> QED
    BY <1>0, <1>11, <2>1 DEF TimesOut, Stays, hookVars
<1> QED
  BY <1>1, <1>2, <1>4, <1>5, <1>6, <1>7, <1>10, <1>11 DEF WebStep, UserClicks
(* Request r was answered and is gone; the others are still there, and so is a
   keepalive that waits for its answer. *)
LEMMA RestKept ==
  ASSUME requests \in SUBSET Requests, NEW r \in requests, r.answer # Pending,
         session' = session,
         requests' = requests \ {r} \/ requests' = Unheard(requests \ {r})
  PROVE  CarriedOver /\ requests' \subseteq Requests /\ (Renewing => Renewing')
<1> DEFINE R == requests \ {r}
<1>0. R \in SUBSET Requests /\ R \subseteq requests
  OBVIOUS
<1>1. /\ requests' \in SUBSET Requests
      /\ \A q \in requests' : \E p \in R : SameRequest(q, p)
      /\ \A p \in R : \E q \in requests' : SameRequest(q, p)
  BY <1>0, UnheardSame DEF SameRequest
<1>2. CarriedOver
  BY <1>0, <1>1 DEF CarriedOver
<1>3. ASSUME Renewing PROVE Renewing'
  <2>1. PICK p \in requests :
          p.kind = "keepalive" /\ p.answer = Pending /\ p.dev = session.dev /\ p.id = session.id
    BY <1>3 DEF Renewing
  <2>2. PICK q \in requests' : SameRequest(q, p)
    BY <1>1, <2>1
  <2> QED
    BY <2>1, <2>2 DEF SameRequest, Renewing
<1> QED
  BY <1>1, <1>2, <1>3

(* An answer arrives: the session stays, is given up, or is the one an occupy
   was granted. *)
LEMMA AnswerEffect ==
  ASSUME ClientsTypeOK, GrantsFresh, NEW r \in requests, Answered(r)
  PROVE  /\ WebTypeOK' /\ CarriedOver
         /\ \/ ~steady'
            \/ Stays
            \/ /\ session' \in Sessions /\ connected' /\ losses' = losses
               /\ owner[session'.dev] = session'.id => age[session'.dev] = 0
<1>0. /\ WebTypeOK /\ requests \in SUBSET Requests /\ r.answer # Pending
      /\ losses \in Nat /\ r.dev \in Devices
      /\ requests \ {r} \in SUBSET requests
  BY WebAssumption DEF ClientsTypeOK, WebTypeOK, Answered, Requests
<1> DEFINE Goal ==
      /\ WebTypeOK' /\ CarriedOver
      /\ \/ ~steady'
         \/ Stays
         \/ /\ session' \in Sessions /\ connected' /\ losses' = losses
            /\ owner[session'.dev] = session'.id => age[session'.dev] = 0
<1>1. CASE Ignored(r)
  <2>1. /\ UNCHANGED <<session, connected, due, idle, steady, stream, losses>>
        /\ requests' = requests \ {r}
    BY <1>1 DEF Ignored, hookVars
  <2>2. CarriedOver /\ requests' \subseteq Requests /\ (Renewing => Renewing')
    BY <1>0, <2>1, RestKept
  <2>3. WebTypeOK'
    BY <1>0, <2>1, <2>2 DEF WebTypeOK
  <2> QED
    BY <1>0, <2>1, <2>2, <2>3 DEF Stays
<1>2. ASSUME NEW s \in Sessions \union {NoSession}, SetSession(s, requests \ {r})
      PROVE  /\ WebTypeOK' /\ CarriedOver /\ session' = s /\ losses' = losses
             /\ connected' = connected /\ (steady' => s # NoSession /\ connected)
  <2>1. /\ WebTypeOK' /\ session' = s /\ losses' = losses /\ connected' = connected
        /\ steady' => s # NoSession /\ connected
        /\ requests' = Unheard(requests \ {r})
    BY <1>0, <1>2, SessionSet
  <2>2. CarriedOver
    BY <1>0, <2>1, UnheardSame DEF CarriedOver
  <2> QED
    BY <2>1, <2>2
<1>3. CASE SetSession(NoSession, requests \ {r})
  BY <1>2, <1>3
<1>4. CASE r.kind = "occupy" /\ OccupyAnswered(r)
  <2>1. CASE r.answer.status = 200 /\ SetSession([dev |-> r.dev, id |-> r.answer.id], requests \ {r})
    <3> DEFINE s == [dev |-> r.dev, id |-> r.answer.id]
    <3>1. r.answer.id \in Ids /\ (owner[r.dev] = r.answer.id => age[r.dev] = 0)
      BY <1>4, <2>1 DEF GrantsFresh
    <3>2. s \in Sessions
      BY <1>0, <3>1, SessionIsPair
    <3>3. /\ WebTypeOK' /\ CarriedOver /\ session' = s /\ losses' = losses
          /\ connected' = connected /\ (steady' => connected)
      BY <1>2, <2>1, <3>2
    <3>4. s.dev = r.dev /\ s.id = r.answer.id
      OBVIOUS
    <3> QED
      BY <3>1, <3>2, <3>3, <3>4
  <2> QED
    BY <1>1, <1>4, <2>1 DEF OccupyAnswered
<1>5. CASE ReleaseAnswered(r) \/ KeepaliveAnswered(r) \/ ActionAnswered(r)
  BY <1>1, <1>3, <1>5 DEF ReleaseAnswered, KeepaliveAnswered, ActionAnswered
<1> QED
  BY <1>4, <1>5 DEF Answered

(* The session stays while the server is calm: its age is still accounted for. *)
LEMMA BoundKept ==
  ASSUME ClientsTypeOK, AgeBounded, Calm, losses' \in Nat, session \in Sessions \union {NoSession},
         session' = session, connected' = connected, steady' => steady, losses <= losses',
         \/ due \/ Renewing => due' \/ Renewing' \/ losses < losses'
         \/ owner'[session.dev] = session.id => age'[session.dev] = 0
  PROVE  AgeBounded'
<1>1. CASE ~steady'
  BY <1>1 DEF AgeBounded
<1>2. CASE steady'
  <2>1. session \in Sessions /\ connected'
    BY <1>2 DEF AgeBounded
  <2> DEFINE d == session.dev
  <2>2. d \in Devices /\ session # NoSession
    BY <2>1, SessionIsPair
  <2>3. age[d] \in Nat /\ losses \in Nat
    BY <2>2, FarmApiAssumption DEF ClientsTypeOK, ApiTypeOK, WebTypeOK
  <2>4. ASSUME owner'[d] = session.id
        PROVE  age'[d] <= losses' + (IF due' \/ Renewing' THEN 1 ELSE 0)
    <3>1. age'[d] = 0 \/ (owner'[d] = owner[d] /\ age'[d] = age[d])
      BY <2>2 DEF Calm
    <3>2. CASE age'[d] = 0
      <4> DEFINE e == IF due' \/ Renewing' THEN 1 ELSE 0
      <4>1. e \in {0, 1}
        OBVIOUS
      <4> HIDE DEF e
      <4>2. \A n \in Nat : 0 <= n + e
        BY <4>1
      <4>3. 0 <= losses' + e
        BY <4>2
      <4> QED
        BY <3>2, <4>3 DEF e
    <3>3. CASE owner'[d] = owner[d] /\ age'[d] = age[d] /\ age'[d] # 0
      <4>1. age[d] <= losses + (IF due \/ Renewing THEN 1 ELSE 0)
        BY <1>2, <2>4, <3>3 DEF AgeBounded
      <4>2. due \/ Renewing => due' \/ Renewing' \/ losses < losses'
        BY <2>4, <3>3
      <4> QED
        BY <2>3, <3>3, <4>1, <4>2
    <3> QED
      BY <3>1, <3>2, <3>3
  <2> QED
    BY <2>1, <2>2, <2>4 DEF AgeBounded
<1> QED
  BY <1>1, <1>2

(* What was granted stays fresh while the server is calm. *)
LEMMA FreshKept ==
  ASSUME ClientsTypeOK, GrantsFresh, Calm, CarriedOver PROVE GrantsFresh'
<1> SUFFICES ASSUME NEW q \in requests', q.kind = "occupy", q.answer.status = 200
             PROVE  /\ q.answer.id \in Ids
                    /\ owner'[q.dev] = q.answer.id => age'[q.dev] = 0
  BY DEF GrantsFresh
<1>1. q.answer # Pending
  BY DEF Pending
<1>2. PICK r \in requests : SameRequest(q, r)
  BY <1>1 DEF CarriedOver
<1>3. r.dev \in Devices
  BY DEF ClientsTypeOK, WebTypeOK, Requests
<1>4. r.answer.id \in Ids /\ (owner[r.dev] = r.answer.id => age[r.dev] = 0)
  BY <1>2 DEF GrantsFresh, SameRequest
<1> QED
  BY <1>2, <1>3, <1>4 DEF SameRequest, Calm

(* The server serves a request: a keepalive that was waited for has made the
   occupation new, and one that is granted is new. *)
LEMMA ServedKeeps ==
  ASSUME ClientsTypeOK, AgeBounded, GrantsFresh, NEW r \in requests, Served(r)
  PROVE  ApiCalm /\ WebTypeOK' /\ AgeBounded' /\ GrantsFresh'
<1>0. requests \in SUBSET Requests /\ losses \in Nat /\ ApiTypeOK
  BY WebAssumption DEF ClientsTypeOK, WebTypeOK
<1>1. r.dev \in Devices /\ r.answer = Pending
  BY <1>0 DEF Requests, Served
<1>2. PICK answer \in Answers :
        /\ Serve(r.kind, r.dev, r.id, answer)
        /\ requests' = (requests \ {r}) \union {[r EXCEPT !.answer = answer]}
  BY DEF Served
<1> DEFINE q == [r EXCEPT !.answer = answer]
<1>3. q \in Requests /\ q.answer = answer /\ q.kind = r.kind /\ q.dev = r.dev /\ q.id = r.id
  BY <1>0 DEF Requests
<1> HIDE DEF q
<1>4. /\ UNCHANGED <<session, connected, due, idle, steady, stream, losses>>
      /\ requests' = (requests \ {r}) \union {q}
  BY <1>2 DEF Served, hookVars, q
<1>5. ApiCalm
  BY <1>0, <1>1, <1>2, ServeCalm
<1>6. WebTypeOK'
  <2>1. requests' \subseteq Requests
    BY <1>0, <1>3, <1>4
  <2> QED
    BY <1>4, <2>1 DEF ClientsTypeOK, WebTypeOK
<1>7. AgeBounded'
  <2>1. \/ due \/ Renewing => due' \/ Renewing' \/ losses < losses'
        \/ owner'[session.dev] = session.id => age'[session.dev] = 0
    <3>1. CASE due
      BY <1>4, <3>1
    <3>2. ASSUME Renewing
          PROVE  Renewing' \/ (owner'[session.dev] = session.id => age'[session.dev] = 0)
      <4>1. PICK p \in requests :
              p.kind = "keepalive" /\ p.answer = Pending /\ p.dev = session.dev /\ p.id = session.id
        BY <3>2 DEF Renewing
      <4>2. CASE p = r
        BY <1>0, <1>1, <1>2, <4>1, <4>2, ServeAnswers
      <4>3. CASE p # r
        BY <1>4, <4>1, <4>3 DEF Renewing
      <4> QED
        BY <4>2, <4>3
    <3> QED
      BY <3>1, <3>2
  <2>2. Calm /\ losses' \in Nat /\ losses <= losses' /\ session \in Sessions \union {NoSession}
    BY <1>0, <1>4, <1>5 DEF ApiCalm, ClientsTypeOK, WebTypeOK
  <2>3. session' = session /\ connected' = connected /\ (steady' => steady)
    BY <1>4
  <2> QED
    BY <2>1, <2>2, <2>3, BoundKept
<1>8. GrantsFresh'
  <2> SUFFICES ASSUME NEW x \in requests', x.kind = "occupy", x.answer.status = 200
               PROVE  /\ x.answer.id \in Ids
                      /\ owner'[x.dev] = x.answer.id => age'[x.dev] = 0
    BY DEF GrantsFresh
  <2>1. CASE x = q
    BY <1>0, <1>1, <1>2, <1>3, <2>1, ServeAnswers
  <2>2. CASE x \in requests
    <3>1. x.answer.id \in Ids /\ (owner[x.dev] = x.answer.id => age[x.dev] = 0) /\ x.dev \in Devices
      BY <1>0, <2>2 DEF GrantsFresh, Requests
    <3> QED
      BY <1>5, <3>1 DEF ApiCalm, Calm
  <2> QED
    BY <1>4, <2>1, <2>2
<1> QED
  BY <1>5, <1>6, <1>7, <1>8

(* A tick makes an occupation one older, and the keepalive due. *)
LEMMA TickKeeps ==
  ASSUME ClientsTypeOK, AgeBounded, ClientsTick
  PROVE  ApiTypeOK' /\ Onward /\ WebTypeOK' /\ AgeBounded' /\ GrantsFresh'
<1>0. /\ ApiTypeOK /\ WebTypeOK /\ requests = {} /\ ~due /\ due' = HasHooks
      /\ idle' \in {idle, idle + 1} /\ (idle' = idle \/ idle <= IdleLimit)
      /\ UNCHANGED <<session, connected, steady, stream, requests, losses, owner, issued>>
      /\ age' = Aged
  BY DEF ClientsTypeOK, ClientsTick, WebTick, TimePasses
<1>1. ApiTypeOK' /\ \A d \in Devices : age[d] \in Nat /\ age'[d] \in Nat /\ age'[d] <= age[d] + 1
  BY <1>0, FarmApiAssumption DEF ApiTypeOK, Aged
<1>2. Onward
  BY <1>0, FarmApiAssumption DEF Onward, ApiTypeOK
<1>3. WebTypeOK'
  <2>1. due' \in BOOLEAN
    BY <1>0, Zenon DEF HasHooks, WebTypeOK
  <2>2. idle' \in 0..IdleLimit + 1
    BY <1>0, WebAssumption DEF WebTypeOK
  <2> QED
    BY <1>0, <2>1, <2>2 DEF WebTypeOK
<1>4. AgeBounded'
  <2>1. CASE ~steady'
    BY <2>1 DEF AgeBounded
  <2>2. CASE steady'
    <3>1. steady /\ session # NoSession /\ connected /\ due'
      BY <1>0, <2>2 DEF AgeBounded, HasHooks
    <3>2. session.dev \in Devices /\ losses \in Nat
      BY <1>0, <3>1, SessionIsPair, WebAssumption DEF WebTypeOK
    <3>3. ~Renewing
      BY <1>0 DEF Renewing
    <3>4. owner[session.dev] = session.id => age[session.dev] <= losses
      BY <1>0, <3>1, <3>2, <3>3 DEF AgeBounded
    <3>5. owner[session.dev] = session.id => age'[session.dev] <= losses + 1
      BY <1>1, <3>2, <3>4
    <3> QED
      BY <1>0, <3>1, <3>5 DEF AgeBounded
  <2> QED
    BY <2>1, <2>2
<1>5. GrantsFresh'
  BY <1>0 DEF GrantsFresh
<1> QED
  BY <1>1, <1>2, <1>3, <1>4, <1>5

(* The tab and its requests stay as they are, and the server is calm. *)
LEMMA WebUntouched ==
  ASSUME ClientsTypeOK, AgeBounded, GrantsFresh, UNCHANGED webVars, ApiCalm
  PROVE  WebTypeOK' /\ AgeBounded' /\ GrantsFresh'
<1>1. /\ UNCHANGED <<session, connected, due, idle, steady, stream, requests, losses>>
      /\ requests \in SUBSET Requests /\ losses \in Nat
      /\ session \in Sessions \union {NoSession}
  BY WebAssumption DEF webVars, ClientsTypeOK, WebTypeOK
<1>2. WebTypeOK'
  BY <1>1 DEF ClientsTypeOK, WebTypeOK
<1>3. (due \/ Renewing) = (due \/ Renewing)' /\ losses' \in Nat /\ losses <= losses'
  BY <1>1 DEF Renewing
<1>4. AgeBounded'
  BY <1>1, <1>3, BoundKept DEF ApiCalm
<1>5. CarriedOver
  BY <1>1 DEF CarriedOver, SameRequest
<1> QED
  BY <1>2, <1>4, <1>5, FreshKept DEF ApiCalm
-------------------------------------------------------------------------------
(* The command line.  A command that was not answered yet says nothing. *)
LEMMA RunsTyped ==
  ASSUME NEW cmd \in {"occupy", "release", "keepalive", "action"}, NEW d \in Devices,
         NEW id \in Ids \union {Nobody}, NEW aimed \in BOOLEAN, Runs(cmd, d, id, aimed)
  PROVE  /\ command' \in Commands
         /\ command'.cmd = cmd /\ command'.dev = d /\ command'.id = id /\ command'.aimed = aimed
         /\ command'.answer.status = 0 /\ command'.answer = Pending
BY DEF Runs, Commands, Answers, Pending

(* What the user starts is typed, and in the second part, which is about an
   environment that names no occupant, aimed at the session it says it is. *)
LEMMA UserRunsKeeps ==
  ASSUME ClientsTypeOK, IdsGranted, UserRuns, UNCHANGED apiVars
  PROVE  /\ CliTypeOK' /\ IdsGranted'
         /\ EnvIds = {Nobody} /\ CommandSound => CommandSound'
<1>0. /\ file \in [dev : Devices, id : Ids] \union {NoFile}
      /\ command \in Commands \union {Idle}
      /\ issued \in 0..MaxIds /\ issued' = issued
  BY DEF ClientsTypeOK, CliTypeOK, ApiTypeOK, apiVars
<1>1. ASSUME NEW d \in Devices, RunOccupy(d)
      PROVE  CliTypeOK' /\ IdsGranted' /\ CommandSound'
  <2> DEFINE aimed == AimedAtSession(NoFlag, Nobody)
  <2>1. aimed \in BOOLEAN /\ (aimed => file # NoFile)
    BY DEF AimedAtSession
  <2> HIDE DEF aimed
  <2>2. Runs("occupy", d, Nobody, aimed) /\ file' = file
    BY <1>1 DEF RunOccupy, aimed
  <2>3. /\ command' \in Commands /\ command'.cmd = "occupy" /\ command'.aimed = aimed
        /\ command'.answer.status = 0
    BY <2>1, <2>2, RunsTyped
  <2> QED
    BY <1>0, <2>1, <2>2, <2>3 DEF CliTypeOK, IdsGranted, CommandSound, SessionInvalid
<1>2. ASSUME NEW cmd \in {"release", "keepalive", "action"}, NEW flagDev, NEW flagId \in 0..issued,
             NEW env \in EnvIds, RunOnTarget(cmd, flagDev, flagId, env)
      PROVE  CliTypeOK' /\ IdsGranted' /\ (EnvIds = {Nobody} => CommandSound')
  <2> DEFINE d == TargetDevice(flagDev)
             id == TargetId(d, flagId, env)
             aimed == AimedAtSession(flagDev, flagId)
  <2>1. Runs(cmd, d, id, aimed) /\ d \in Devices /\ file' = file
    BY <1>2 DEF RunOnTarget
  <2>2. id \in Ids \union {Nobody}
    <3>1. flagId \in Ids \union {Nobody} /\ env \in Ids \union {Nobody}
      BY <1>0, FarmApiAssumption, CliAssumption DEF Ids, Nobody
    <3>2. file.dev = d => file.id \in Ids \union {Nobody}
      BY <1>0 DEF NoFile
    <3> QED
      BY <3>1, <3>2 DEF TargetId
  <2>3. aimed \in BOOLEAN /\ (aimed => file # NoFile)
    BY DEF AimedAtSession
  <2>4. EnvIds = {Nobody} /\ aimed => d = file.dev /\ id = file.id
    BY DEF AimedAtSession, TargetDevice, TargetId
  <2> HIDE DEF d, id, aimed
  <2>5. /\ command' \in Commands /\ command'.cmd = cmd /\ command'.aimed = aimed
        /\ command'.dev = d /\ command'.id = id /\ command'.answer.status = 0
    BY <2>1, <2>2, <2>3, RunsTyped
  <2> QED
    BY <1>0, <2>1, <2>3, <2>4, <2>5 DEF CliTypeOK, IdsGranted, CommandSound, SessionInvalid
<1>3. CASE SessionClear
  <2>1. command' = Idle /\ command = Idle /\ file' = NoFile
    BY <1>3 DEF SessionClear
  <2> QED
    BY <2>1 DEF CliTypeOK, IdsGranted, CommandSound
<1> QED
  BY <1>1, <1>2, <1>3 DEF UserRuns

(* What is over stays over. *)
LEMMA OverForGood ==
  ASSUME ClientsTypeOK, IdsGranted, Onward, file' = file, SessionOver
  PROVE  SessionOver'
<1>1. file.dev \in Devices /\ file.id \in Ids /\ file.id <= issued /\ issued \in Nat
  BY FarmApiAssumption DEF ClientsTypeOK, CliTypeOK, ApiTypeOK, SessionOver, IdsGranted
<1>2. file.id \in 1..issued
  BY <1>1 DEF Ids
<1> QED
  BY <1>1, <1>2 DEF Onward, SessionOver

(* The command line does nothing. *)
LEMMA CliUntouched ==
  ASSUME ClientsTypeOK, IdsGranted, UNCHANGED cliVars, Onward, ApiTypeOK'
  PROVE  CliTypeOK' /\ IdsGranted' /\ (CommandSound => CommandSound')
<1>1. file' = file /\ command' = command /\ issued <= issued' /\ issued \in Nat /\ issued' \in Nat
  BY FarmApiAssumption DEF cliVars, Onward, ClientsTypeOK, ApiTypeOK
<1>2. CliTypeOK'
  BY <1>1 DEF ClientsTypeOK, CliTypeOK
<1>3. IdsGranted'
  BY <1>1 DEF IdsGranted, ClientsTypeOK, CliTypeOK, Ids
<1>4. SessionOver => SessionOver'
  BY <1>1, OverForGood
<1>5. ASSUME CommandSound PROVE CommandSound'
  BY <1>1, <1>4, <1>5 DEF CommandSound, SessionInvalid
<1> QED
  BY <1>2, <1>3, <1>5

(* The server serves the command: where the answer ends the session, it is over. *)
LEMMA CommandServedKeeps ==
  ASSUME ClientsTypeOK, IdsGranted, CommandServed
  PROVE  /\ ApiCalm /\ CliTypeOK' /\ IdsGranted'
         /\ CommandSound => CommandSound'
<1>0. ApiTypeOK /\ command \in Commands /\ command # Idle /\ file' = file
      /\ command.dev \in Devices
  BY DEF ClientsTypeOK, CliTypeOK, CommandServed, Commands
<1>1. PICK answer \in Answers :
        /\ Serve(command.cmd, command.dev, command.id, answer)
        /\ command' = [command EXCEPT !.answer = answer]
  BY DEF CommandServed
<1>2. /\ command' \in Commands /\ command'.answer = answer
      /\ command'.cmd = command.cmd /\ command'.dev = command.dev /\ command'.id = command.id
      /\ command'.aimed = command.aimed
  BY <1>0, <1>1 DEF Commands
<1>3. ApiCalm
  BY <1>0, <1>1, ServeCalm
<1>4. /\ command.cmd = "occupy" => answer.status # 403
      /\ command.cmd = "occupy" /\ answer.status = 200 => answer.id \in 1..issued'
      /\ command.cmd = "release" /\ answer.status = 200 => owner'[command.dev] = Nobody
      /\ command.cmd # "occupy" /\ answer.status = 403 => owner'[command.dev] # command.id
      /\ command.cmd \in {"keepalive", "release"} /\ answer.status = 409 =>
           owner'[command.dev] # command.id
  BY <1>0, <1>1, ServeAnswers
<1>5. CliTypeOK'
  BY <1>0, <1>2 DEF ClientsTypeOK, CliTypeOK
<1>6. IdsGranted'
  <2>1. file # NoFile => file.id \in Nat
    BY DEF ClientsTypeOK, CliTypeOK, Ids
  <2>2. issued <= issued' /\ issued \in Nat /\ issued' \in Nat
    BY <1>3, FarmApiAssumption DEF ApiCalm, Onward, ClientsTypeOK, ApiTypeOK
  <2>3. file' # NoFile => file'.id <= issued'
    BY <1>0, <2>1, <2>2 DEF IdsGranted
  <2> QED
    BY <1>2, <1>4, <2>3 DEF IdsGranted
<1>7. ASSUME CommandSound PROVE CommandSound'
  <2>1. command.aimed => file # NoFile
    BY <1>0, <1>7 DEF CommandSound
  <2>2. command.aimed /\ command.cmd # "occupy" => command.dev = file.dev /\ command.id = file.id
    BY <1>0, <1>7 DEF CommandSound
  <2>3. file # NoFile => file.id # Nobody
    BY FarmApiAssumption DEF ClientsTypeOK, CliTypeOK, Ids, Nobody
  <2>4. (command'.cmd = "release" /\ command'.answer.status = 200
          /\ file' # NoFile /\ file'.dev = command'.dev) => SessionOver'
    BY <1>0, <1>2, <1>4, <2>3 DEF SessionOver
  <2>5. SessionInvalid' => SessionOver'
    <3>1. ASSUME SessionInvalid' PROVE owner'[command.dev] # command.id /\ command.cmd # "occupy"
      BY <1>2, <1>4, <3>1 DEF SessionInvalid
    <3> QED
      BY <1>0, <1>2, <2>1, <2>2, <3>1 DEF SessionInvalid, SessionOver
  <2> QED
    BY <1>0, <1>2, <2>1, <2>2, <2>4, <2>5 DEF CommandSound
<1> QED
  BY <1>3, <1>5, <1>6, <1>7

(* The command ends, with its answer or without. *)
LEMMA CommandEnds ==
  ASSUME ClientsTypeOK, IdsGranted, CommandAnswered \/ CommandKilled
  PROVE  UNCHANGED apiVars /\ CliTypeOK' /\ IdsGranted' /\ CommandSound'
<1>1. command' = Idle /\ UNCHANGED apiVars /\ command # Idle /\ command \in Commands
      /\ issued' = issued
  BY DEF CommandAnswered, CommandKilled, apiVars, ClientsTypeOK, CliTypeOK
<1>2. \/ file' = file \/ file' = NoFile
      \/ /\ command.cmd = "occupy" /\ command.answer.status = 200
         /\ file' = [dev |-> command.dev, id |-> command.answer.id]
  BY DEF CommandAnswered, CommandKilled, Succeeded, Refused
<1>3. ASSUME command.cmd = "occupy", command.answer.status = 200,
             file' = [dev |-> command.dev, id |-> command.answer.id]
      PROVE  file' \in [dev : Devices, id : Ids] /\ file'.id <= issued'
  <2>1. command.answer.id \in 1..issued /\ issued \in 0..MaxIds /\ command.dev \in Devices
    BY <1>1, <1>3 DEF IdsGranted, ClientsTypeOK, ApiTypeOK, Commands
  <2>2. command.answer.id \in Ids /\ command.answer.id <= issued
    BY <2>1, FarmApiAssumption DEF Ids
  <2> QED
    BY <1>1, <1>3, <2>1, <2>2
<1> QED
  BY <1>1, <1>2, <1>3 DEF CliTypeOK, IdsGranted, CommandSound, ClientsTypeOK
-------------------------------------------------------------------------------
(* Both clients and the server. *)
LEMMA ClientsInvInit == ClientsInit => ClientsInv /\ CommandSound
<1> SUFFICES ASSUME ClientsInit PROVE ClientsInv /\ CommandSound
  OBVIOUS
<1>1. ApiTypeOK
  BY FarmApiAssumption DEF ClientsInit, ApiInit, ApiTypeOK
<1>2. WebTypeOK /\ ~steady /\ requests = {}
  <2>1. /\ session = NoSession /\ idle = 0 /\ stream = "off" /\ requests = {} /\ losses = 0
        /\ connected = FALSE /\ due = FALSE /\ steady = FALSE
    BY DEF ClientsInit, WebInit
  <2>2. connected \in BOOLEAN /\ due \in BOOLEAN /\ steady \in BOOLEAN /\ ~steady
    BY <2>1, Zenon
  <2> QED
    BY <2>1, <2>2, WebAssumption DEF WebTypeOK
<1>3. CliTypeOK /\ file = NoFile /\ command = Idle
  BY DEF ClientsInit, CliInit, CliTypeOK
<1> QED
  BY <1>1, <1>2, <1>3 DEF ClientsInv, ClientsTypeOK, AgeBounded, GrantsFresh, IdsGranted,
     CommandSound

(* Every step keeps the types and the age of what the tab keeps alive; it keeps
   the commands right, too, where the environment names no occupant. *)
LEMMA ClientsInvKept ==
  ClientsInv /\ [ClientsNext]_clientsVars
    => ClientsInv' /\ (EnvIds = {Nobody} /\ CommandSound => CommandSound')
<1> SUFFICES ASSUME ClientsInv, [ClientsNext]_clientsVars
             PROVE  ClientsInv' /\ (EnvIds = {Nobody} /\ CommandSound => CommandSound')
  OBVIOUS
<1>0. /\ ClientsTypeOK /\ AgeBounded /\ GrantsFresh /\ IdsGranted
      /\ ApiTypeOK /\ WebTypeOK /\ losses \in Nat
      /\ session \in Sessions \union {NoSession} /\ requests \in SUBSET Requests
  BY WebAssumption DEF ClientsInv, ClientsTypeOK, WebTypeOK
<1>1. UNCHANGED apiVars => ApiCalm
  BY <1>0, EndCalm
<1>2. ASSUME ApiTypeOK', WebTypeOK', AgeBounded', GrantsFresh', Onward, UNCHANGED cliVars
      PROVE  ClientsInv' /\ (CommandSound => CommandSound')
  BY <1>0, <1>2, CliUntouched DEF ClientsInv, ClientsTypeOK
<1>3. CASE WebStep /\ UNCHANGED <<apiVars, cliVars>>
  <2>1. WebTypeOK' /\ CarriedOver /\ (~steady' \/ Stays)
    BY <1>0, <1>3, WebEffect
  <2>2. ApiTypeOK' /\ Calm /\ Onward /\ losses' \in Nat
    BY <1>1, <1>3, <2>1, WebAssumption DEF ApiCalm, WebTypeOK
  <2>3. GrantsFresh'
    BY <1>0, <2>1, <2>2, FreshKept
  <2>4. AgeBounded'
    <3>1. CASE ~steady'
      BY <3>1 DEF AgeBounded
    <3>2. CASE Stays
      BY <1>0, <2>2, <3>2, BoundKept DEF Stays
    <3> QED
      BY <2>1, <3>1, <3>2
  <2> QED
    BY <1>2, <1>3, <2>1, <2>2, <2>3, <2>4
<1>4. CASE ServeStep
  <2>1. ApiCalm /\ WebTypeOK' /\ AgeBounded' /\ GrantsFresh' /\ UNCHANGED cliVars
    BY <1>0, <1>4, ServedKeeps DEF ServeStep
  <2> QED
    BY <1>2, <2>1 DEF ApiCalm
<1>5. CASE AnswerStep
  <2>1. PICK r \in requests : Answered(r) /\ UNCHANGED cliVars
    BY <1>5 DEF AnswerStep
  <2>2. UNCHANGED apiVars
    BY <2>1 DEF Answered
  <2>3. /\ WebTypeOK' /\ CarriedOver
        /\ \/ ~steady'
           \/ Stays
           \/ /\ session' \in Sessions /\ connected' /\ losses' = losses
              /\ owner[session'.dev] = session'.id => age[session'.dev] = 0
    BY <1>0, <2>1, AnswerEffect
  <2>4. ApiTypeOK' /\ Calm /\ Onward /\ losses' \in Nat
    BY <1>1, <2>2, <2>3, WebAssumption DEF ApiCalm, WebTypeOK
  <2>5. GrantsFresh'
    BY <1>0, <2>3, <2>4, FreshKept
  <2>6. AgeBounded'
    <3>1. CASE ~steady'
      BY <3>1 DEF AgeBounded
    <3>2. CASE Stays
      BY <1>0, <2>4, <3>2, BoundKept DEF Stays
    <3>3. CASE /\ session' \in Sessions /\ connected' /\ losses' = losses
               /\ owner[session'.dev] = session'.id => age[session'.dev] = 0
      <4>1. session' # NoSession /\ owner' = owner /\ age' = age
        BY <2>2, <3>3, SessionIsPair DEF apiVars
      <4> DEFINE e == IF due' \/ Renewing' THEN 1 ELSE 0
      <4>2. e \in {0, 1}
        OBVIOUS
      <4> HIDE DEF e
      <4>3. \A n \in Nat : 0 <= n + e
        BY <4>2
      <4>4. 0 <= losses' + e
        BY <2>4, <4>3
      <4>5. owner'[session'.dev] = session'.id => age'[session'.dev] <= losses' + e
        BY <3>3, <4>1, <4>4
      <4> QED
        BY <3>3, <4>1, <4>5 DEF AgeBounded, e
    <3> QED
      BY <2>3, <3>1, <3>2, <3>3
  <2> QED
    BY <1>2, <2>1, <2>3, <2>4, <2>5, <2>6
<1>6. CASE UserRuns /\ UNCHANGED <<apiVars, webVars>>
  <2>1. ApiCalm /\ WebTypeOK' /\ AgeBounded' /\ GrantsFresh'
    BY <1>0, <1>1, <1>6, WebUntouched
  <2>2. CliTypeOK' /\ IdsGranted' /\ (EnvIds = {Nobody} /\ CommandSound => CommandSound')
    BY <1>0, <1>6, UserRunsKeeps
  <2> QED
    BY <2>1, <2>2 DEF ClientsInv, ClientsTypeOK, ApiCalm
<1>7. CASE (CommandServed \/ CommandAnswered \/ CommandKilled) /\ UNCHANGED webVars
  <2>1. ApiCalm /\ CliTypeOK' /\ IdsGranted' /\ (CommandSound => CommandSound')
    BY <1>0, <1>1, <1>7, CommandServedKeeps, CommandEnds
  <2>2. WebTypeOK' /\ AgeBounded' /\ GrantsFresh'
    BY <1>0, <1>7, <2>1, WebUntouched
  <2> QED
    BY <2>1, <2>2 DEF ClientsInv, ClientsTypeOK, ApiCalm
<1>8. CASE SweepStep \/ ReclaimStep
  <2>1. ApiCalm /\ UNCHANGED <<webVars, cliVars>>
    BY <1>0, <1>8, EndCalm DEF SweepStep, ReclaimStep
  <2>2. WebTypeOK' /\ AgeBounded' /\ GrantsFresh'
    BY <1>0, <2>1, WebUntouched
  <2> QED
    BY <1>2, <2>1, <2>2 DEF ApiCalm
<1>9. CASE ClientsTick
  <2>1. ApiTypeOK' /\ Onward /\ WebTypeOK' /\ AgeBounded' /\ GrantsFresh'
    BY <1>0, <1>9, TickKeeps
  <2> QED
    BY <1>2, <1>9, <2>1 DEF ClientsTick
<1>10. CASE UNCHANGED clientsVars
  <2>1. UNCHANGED webVars /\ UNCHANGED cliVars /\ ApiCalm
    BY <1>1, <1>10 DEF clientsVars
  <2>2. WebTypeOK' /\ AgeBounded' /\ GrantsFresh'
    BY <1>0, <2>1, WebUntouched
  <2> QED
    BY <1>2, <2>1, <2>2 DEF ApiCalm
<1> QED
  BY <1>3, <1>4, <1>5, <1>6, <1>7, <1>8, <1>9, <1>10 DEF ClientsNext

(* The clients and the server keep their types; what the tab keeps alive is no
   older than its lost requests account for, and a grant on its way is new. *)
THEOREM ClientsInvariant == ClientsSpec => []ClientsInv
BY ClientsInvInit, ClientsInvKept, PTL DEF ClientsSpec

(* useOccupationKeepalive keeps the occupation of an active user: it is never
   reclaimed as idle, if fewer requests in all are lost than the server waits
   for.  However the answers are ordered, whatever the user clicks, and whatever
   else is under way. *)
THEOREM SessionKeptAlive == ASSUME MaxLosses < Ttl PROVE ClientsSpec => KeptAlive
<1>1. ASSUME ClientsInv, SweepStep, steady, Holds(session), session.dev \in Expired PROVE FALSE
  <2>1. age[session.dev] > Ttl /\ owner[session.dev] = session.id /\ session.dev \in Devices
    BY <1>1 DEF Expired, Occupied, Holds
  <2>2. age[session.dev] <= losses + (IF due \/ Renewing THEN 1 ELSE 0)
    BY <1>1, <2>1 DEF ClientsInv, AgeBounded
  <2>3. losses \in Nat /\ losses <= MaxLosses /\ age[session.dev] \in Nat
    BY <1>1, <2>1, WebAssumption, FarmApiAssumption
    DEF ClientsInv, ClientsTypeOK, ApiTypeOK, WebTypeOK
  <2> DEFINE e == IF due \/ Renewing THEN 1 ELSE 0
  <2>4. e \in {0, 1} /\ age[session.dev] <= losses + e
    BY <2>2
  <2> HIDE DEF e
  <2> QED
    BY <2>1, <2>3, <2>4, FarmApiAssumption, WebAssumption
<1>2. ClientsInv => (SweepStep => ~(steady /\ Holds(session) /\ session.dev \in Expired))
  BY <1>1
<1> QED
  BY <1>2, ClientsInvariant, PTL DEF ClientsSpec, KeptAlive

(* The command line gives its session up only when it is over or the user says
   so, if NEBULA_OCCUPANT_ID is not set. *)
THEOREM CliKeepsValidSession ==
  ASSUME EnvIds = {Nobody} PROVE ClientsSpec => CliForgetsForCause
<1>1. ClientsInit => CommandSound
  BY ClientsInvInit
<1>2. ClientsInv /\ CommandSound /\ [ClientsNext]_clientsVars => CommandSound'
  BY ClientsInvKept
<1>3. ASSUME ClientsInv, CommandSound, [ClientsNext]_clientsVars, file # NoFile, file' = NoFile,
             ~SessionClear
      PROVE  owner[file.dev] # file.id
  <2>1. command # Idle /\ (Succeeded \/ Refused)
    <3>1. ~UNCHANGED cliVars /\ ~UNCHANGED file
      BY <1>3 DEF cliVars
    <3>2. CASE UserRuns
      BY <1>3, <3>1, <3>2 DEF UserRuns, RunOccupy, RunOnTarget
    <3>3. CASE CommandServed \/ CommandAnswered \/ CommandKilled
      BY <3>1, <3>3 DEF CommandServed, CommandAnswered, CommandKilled
    <3>4. ~UNCHANGED clientsVars
      BY <3>1 DEF clientsVars
    <3> QED
      BY <1>3, <3>1, <3>2, <3>3, <3>4
      DEF ClientsNext, ServeStep, AnswerStep, SweepStep, ReclaimStep, ClientsTick
  <2>2. command.cmd = "occupy" /\ command.answer.status = 200 => file' # NoFile
    <3>1. CASE /\ command.cmd = "occupy" /\ command.answer.status = 200
               /\ file' = [dev |-> command.dev, id |-> command.answer.id]
      <4>1. command.answer.id \in 1..issued /\ issued \in Nat
        BY <1>3, <2>1, <3>1, FarmApiAssumption
        DEF ClientsInv, IdsGranted, ClientsTypeOK, ApiTypeOK
      <4>2. command.answer.id # Nobody
        BY <4>1 DEF Nobody
      <4> QED
        BY <3>1, <4>2 DEF NoFile
    <3> QED
      BY <2>1, <3>1 DEF Succeeded, Refused
  <2>3. CASE Succeeded
    BY <1>3, <2>1, <2>2, <2>3 DEF Succeeded, CommandSound, SessionOver
  <2>4. CASE Refused
    BY <1>3, <2>1, <2>4 DEF Refused, CommandSound, SessionOver
  <2> QED
    BY <2>1, <2>3, <2>4
<1>4. ClientsInv /\ CommandSound /\ [ClientsNext]_clientsVars
        => [(file # NoFile /\ file' = NoFile) => (owner[file.dev] # file.id \/ SessionClear)]_clientsVars
  BY <1>3
<1> QED
  BY <1>1, <1>2, <1>4, ClientsInvariant, PTL DEF ClientsSpec, CliForgetsForCause
-------------------------------------------------------------------------------
(* Everything but occupy names an occupation. *)
NamesOccupation(kind, id) == kind = "occupy" \/ id \in Ids

AllNamed ==
  /\ \A r \in requests : NamesOccupation(r.kind, r.id)
  /\ command # Idle => NamesOccupation(command.cmd, command.id)

(* A request the tab makes does, and it stays as it was made. *)
LEMMA RequestsNamed ==
  ASSUME ClientsTypeOK, AllNamed,
         \/ WebStep \/ WebTick \/ UNCHANGED webVars
         \/ \E r \in requests : Served(r) \/ Answered(r)
  PROVE  \A q \in requests' : NamesOccupation(q.kind, q.id)
<1> DEFINE Goal == \A q \in requests' : NamesOccupation(q.kind, q.id)
<1>0. /\ requests \in SUBSET Requests
      /\ session \in Sessions \union {NoSession}
      /\ \A r \in requests : NamesOccupation(r.kind, r.id)
  BY DEF ClientsTypeOK, WebTypeOK, AllNamed
<1>1. session # NoSession => session.id \in Ids
  BY <1>0, SessionIsPair
<1>2. ASSUME NEW R \in SUBSET requests, requests' \in {R, Unheard(R)} PROVE Goal
  <2>1. R \in SUBSET Requests
    BY <1>0
  <2>2. \A q \in requests' : \E r \in R : q.kind = r.kind /\ q.id = r.id
    BY <1>2, <2>1, UnheardSame DEF SameRequest
  <2> QED
    BY <1>0, <2>2
<1>3. ASSUME NEW kind, NEW d, NEW id, NamesOccupation(kind, id),
             requests' \in {requests, requests \union {Fresh(kind, d, id)}}
      PROVE  Goal
  <2>1. Fresh(kind, d, id).kind = kind /\ Fresh(kind, d, id).id = id
    BY DEF Fresh
  <2> QED
    BY <1>0, <1>3, <2>1
<1>4. ASSUME NEW s, NEW R \in SUBSET requests, SetSession(s, R) PROVE Goal
  BY <1>2, <1>4 DEF SetSession, Effects, NoEffects
<1>5. CASE UNCHANGED requests
  BY <1>0, <1>5
<1>6. CASE UserClicks
  <2>1. CASE Connect \/ Disconnect
    BY <1>2, <2>1 DEF Connect, Disconnect, Effects, NoEffects
  <2>2. CASE Reload
    <3>1. {} \in SUBSET requests /\ requests' = Unheard({})
      BY <2>2 DEF Reload, NoEffects
    <3> QED
      BY <1>2, <3>1
  <2>3. CASE ClickRelease
    <3>1. NamesOccupation("release", session.id)
      BY <1>1, <2>3 DEF ClickRelease, NamesOccupation
    <3> QED
      BY <1>3, <2>3, <3>1 DEF ClickRelease, Requested
  <2>4. CASE Act
    <3>1. NamesOccupation("action", session.id)
      BY <1>1, <2>4 DEF Act, HasHooks, NamesOccupation
    <3> QED
      BY <1>3, <2>4, <3>1 DEF Act, Requested
  <2>5. ASSUME NEW d \in Devices, ClickOccupy(d) PROVE Goal
    <3>1. NamesOccupation("occupy", Nobody)
      BY DEF NamesOccupation
    <3> QED
      BY <1>3, <2>5, <3>1 DEF ClickOccupy, Requested
  <2> QED
    BY <1>6, <2>1, <2>2, <2>3, <2>4, <2>5 DEF UserClicks
<1>7. CASE KeepaliveFires
  <2>1. NamesOccupation("keepalive", session.id)
    BY <1>1, <1>7 DEF KeepaliveFires, HasHooks, NamesOccupation
  <2> QED
    BY <1>3, <1>7, <2>1 DEF KeepaliveFires
<1>8. CASE StreamLost
  BY <1>4, <1>8 DEF StreamLost
<1>9. CASE StreamConnects \/ StreamRevoked \/ StreamRefused \/ StreamBreaks \/ StreamRetries
  BY <1>5, <1>8, <1>9 DEF StreamConnects, StreamRevoked, StreamRefused, StreamBreaks, StreamRetries
<1>10. ASSUME NEW r \in requests, TimesOut(r) \/ Ignored(r) PROVE Goal
  <2>1. requests \ {r} \in SUBSET requests /\ requests' = requests \ {r}
    BY <1>10 DEF TimesOut, Ignored
  <2> QED
    BY <1>2, <2>1
<1>11. CASE WebStep
  BY <1>5, <1>6, <1>7, <1>9, <1>10, <1>11 DEF WebStep, Polled, webVars
<1>12. CASE WebTick \/ UNCHANGED webVars
  BY <1>5, <1>12 DEF WebTick, webVars
<1>13. ASSUME NEW r \in requests, Served(r) PROVE Goal
  <2>1. PICK answer \in Answers :
          requests' = (requests \ {r}) \union {[r EXCEPT !.answer = answer]}
    BY <1>13 DEF Served
  <2>2. [r EXCEPT !.answer = answer].kind = r.kind /\ [r EXCEPT !.answer = answer].id = r.id
    BY <1>0 DEF Requests
  <2> QED
    BY <1>0, <2>1, <2>2
<1>14. ASSUME NEW r \in requests, Answered(r) PROVE Goal
  <2>1. requests \ {r} \in SUBSET requests
    OBVIOUS
  <2>2. \/ Ignored(r)
        \/ \E s : SetSession(s, requests \ {r})
    BY <1>14 DEF Answered, OccupyAnswered, ReleaseAnswered, KeepaliveAnswered, ActionAnswered
  <2> QED
    BY <1>4, <1>10, <2>1, <2>2
<1> QED
  BY <1>11, <1>12, <1>13, <1>14

(* So does a command. *)
LEMMA CommandNamed ==
  ASSUME ClientsTypeOK, AllNamed,
         UserRuns \/ CommandServed \/ CommandAnswered \/ CommandKilled \/ UNCHANGED cliVars
  PROVE  command' # Idle => NamesOccupation(command'.cmd, command'.id)
<1>0. command \in Commands \union {Idle} /\ issued \in 0..MaxIds
      /\ (file.dev \in Devices => file.id \in Ids \union {Nobody})
  BY DEF ClientsTypeOK, CliTypeOK, ApiTypeOK, NoFile
<1>1. ASSUME NEW d \in Devices, RunOccupy(d) PROVE NamesOccupation(command'.cmd, command'.id)
  BY <1>1 DEF RunOccupy, Runs, NamesOccupation
<1>2. ASSUME NEW cmd, NEW flagDev, NEW flagId \in 0..issued, NEW env \in EnvIds,
             RunOnTarget(cmd, flagDev, flagId, env)
      PROVE  NamesOccupation(command'.cmd, command'.id)
  <2> DEFINE id == TargetId(TargetDevice(flagDev), flagId, env)
  <2>1. /\ id # Nobody /\ TargetDevice(flagDev) \in Devices
        /\ command'.id = id
    BY <1>2 DEF RunOnTarget, Runs
  <2>2. flagId \in Ids \union {Nobody} /\ env \in Ids \union {Nobody}
    BY <1>0, FarmApiAssumption, CliAssumption DEF Ids, Nobody
  <2>3. id \in Ids \union {Nobody}
    BY <1>0, <2>1, <2>2 DEF TargetId
  <2> QED
    BY <2>1, <2>3 DEF NamesOccupation
<1>3. CASE UserRuns
  BY <1>1, <1>2, <1>3 DEF UserRuns, SessionClear
<1>4. CASE CommandServed
  <2>1. command \in Commands /\ command # Idle
    BY <1>0, <1>4 DEF CommandServed
  <2>2. PICK answer \in Answers : command' = [command EXCEPT !.answer = answer]
    BY <1>4 DEF CommandServed
  <2>3. command'.cmd = command.cmd /\ command'.id = command.id
    BY <2>1, <2>2 DEF Commands
  <2> QED
    BY <2>1, <2>3 DEF AllNamed
<1> QED
  BY <1>3, <1>4 DEF CommandAnswered, CommandKilled, cliVars, AllNamed

(* What is served is a step of the API. *)
LEMMA ServeIsApi ==
  ASSUME NEW kind, NEW d \in Devices, NEW id, NEW answer \in Answers, NamesOccupation(kind, id),
         Serve(kind, d, id, answer)
  PROVE  ApiNext
BY DEF Serve, NamesOccupation, ApiNext

(* Whatever the clients send, and whenever they give up, the server they share
   does what ApiSpec allows: what is checked and proved of them is about every
   server that implements it, as the registry does by RefinesApi. *)
THEOREM ClientsUseApi == ClientsSpec => ApiSpec
<1>1. ClientsInit => ApiInit /\ AllNamed
  BY DEF ClientsInit, AllNamed, WebInit, CliInit
<1>2. ClientsInv /\ AllNamed /\ [ClientsNext]_clientsVars => AllNamed' /\ [ApiNext]_apiVars
  <2> SUFFICES ASSUME ClientsInv, AllNamed, [ClientsNext]_clientsVars
               PROVE  AllNamed' /\ [ApiNext]_apiVars
    OBVIOUS
  <2>0. ClientsTypeOK /\ requests \in SUBSET Requests /\ command \in Commands \union {Idle}
    BY DEF ClientsInv, ClientsTypeOK, WebTypeOK, CliTypeOK
  <2>1. AllNamed'
    <3>1. \A q \in requests' : NamesOccupation(q.kind, q.id)
      BY <2>0, RequestsNamed DEF ClientsNext, ServeStep, AnswerStep, SweepStep, ReclaimStep,
         ClientsTick, clientsVars
    <3>2. command' # Idle => NamesOccupation(command'.cmd, command'.id)
      BY <2>0, CommandNamed DEF ClientsNext, ServeStep, AnswerStep, SweepStep, ReclaimStep,
         ClientsTick, clientsVars
    <3> QED
      BY <3>1, <3>2 DEF AllNamed
  <2>2. CASE ServeStep
    <3>1. PICK r \in requests : Served(r)
      BY <2>2 DEF ServeStep
    <3>2. PICK answer \in Answers : Serve(r.kind, r.dev, r.id, answer)
      BY <3>1 DEF Served
    <3>3. r.dev \in Devices /\ NamesOccupation(r.kind, r.id)
      BY <2>0 DEF Requests, AllNamed
    <3>4. ApiNext
      BY <3>2, <3>3, ServeIsApi
    <3> QED
      BY <2>1, <3>4
  <2>3. CASE CommandServed
    <3>1. PICK answer \in Answers : Serve(command.cmd, command.dev, command.id, answer)
      BY <2>3 DEF CommandServed
    <3>2. command.dev \in Devices /\ NamesOccupation(command.cmd, command.id)
      BY <2>0, <2>3 DEF CommandServed, Commands, AllNamed
    <3>3. ApiNext
      BY <3>1, <3>2, ServeIsApi
    <3> QED
      BY <2>1, <3>3
  <2>4. CASE SweepStep \/ ReclaimStep \/ ClientsTick
    <3>1. ApiNext
      BY <2>4 DEF SweepStep, ReclaimStep, ClientsTick, ApiNext
    <3> QED
      BY <2>1, <3>1
  <2>5. ServeStep \/ CommandServed \/ SweepStep \/ ReclaimStep \/ ClientsTick \/ UNCHANGED apiVars
    BY DEF ClientsNext, AnswerStep, Answered, CommandAnswered, CommandKilled, clientsVars
  <2> QED
    BY <2>1, <2>2, <2>3, <2>4, <2>5
<1> QED
  BY <1>1, <1>2, ClientsInvariant, PTL DEF ClientsSpec, ApiSpec
===============================================================================
