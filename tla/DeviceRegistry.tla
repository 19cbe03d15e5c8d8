---------------------------- MODULE DeviceRegistry ----------------------------
(***************************************************************************)
(* The device registry of the server: the `devices` table behind           *)
(* SqliteDevicesRepository, driven through DevicesService.  Every          *)
(* operation is one synchronous better-sqlite3 transaction, hence one      *)
(* action.  The table is on disk: a server crash leaves it as it is.       *)
(*                                                                         *)
(* A timestamp column is kept as its age, saturated just past the timeout  *)
(* it is compared with; a NULL timestamp is the saturated age, because     *)
(* every query treats "unknown" and "too old" alike.  randomUUID() is the  *)
(* next unused number: the code only compares occupant ids for equality,   *)
(* the properties also use the order of issue.                             *)
(***************************************************************************)
EXTENDS FarmDevices, Naturals

CONSTANTS
  Agents,             \* agent ids
  NoAgent,            \* NULL in the agent_id column
  HeartbeatTimeout,   \* NEBULA_HEARTBEAT_TIMEOUT_MS, in ticks
  OccupationTtl,      \* NEBULA_OCCUPATION_TTL_MS, in ticks
  MaxGenerations      \* bound: occupations handed out

ASSUME RegistryAssumption ==
  /\ NoAgent \notin Agents
  /\ HeartbeatTimeout \in Nat
  /\ OccupationTtl \in Nat
  /\ MaxGenerations \in Nat

VARIABLES
  status,         \* device -> "unregistered" (no row), "online", "offline"
  agentOf,        \* device -> agent_id
  occupant,       \* device -> occupant_id, or Unoccupied
  heartbeatAge,   \* device -> age of last_heartbeat_at
  idleAge,        \* device -> age of last_activity_at
  nextGen         \* the next occupant id randomUUID() returns

vars == <<status, agentOf, occupant, heartbeatAge, idleAge, nextGen>>

Unoccupied == 0
Issued == 1..MaxGenerations

StaleAge == HeartbeatTimeout + 1    \* any age past the heartbeat timeout, or NULL
IdleAge == OccupationTtl + 1        \* any age past the occupation TTL, or NULL

TypeOK ==
  /\ status \in [Devices -> {"unregistered", "online", "offline"}]
  /\ agentOf \in [Devices -> Agents \union {NoAgent}]
  /\ occupant \in [Devices -> Issued \union {Unoccupied}]
  /\ heartbeatAge \in [Devices -> 0..StaleAge]
  /\ idleAge \in [Devices -> 0..IdleAge]
  /\ nextGen \in 1..(MaxGenerations + 1)

Init ==
  /\ status = [d \in Devices |-> "unregistered"]
  /\ agentOf = [d \in Devices |-> NoAgent]
  /\ occupant = [d \in Devices |-> Unoccupied]
  /\ heartbeatAge = [d \in Devices |-> StaleAge]
  /\ idleAge = [d \in Devices |-> IdleAge]
  /\ nextGen = 1

-------------------------------------------------------------------------------
(* registerFromAgent: rows are inserted or overwritten as online and owned
   by the sender; an existing occupation is not touched. *)
Upsert(a, D) ==
  /\ status' = [d \in Devices |-> IF d \in D THEN "online" ELSE status[d]]
  /\ agentOf' = [d \in Devices |-> IF d \in D THEN a ELSE agentOf[d]]
  /\ heartbeatAge' = [d \in Devices |-> IF d \in D THEN 0 ELSE heartbeatAge[d]]
  /\ UNCHANGED <<occupant, idleAge, nextGen>>

(* Mutant: the row found free is not looked at again when it is updated. *)
OccupyTaken(d) ==
  /\ nextGen <= MaxGenerations
  /\ status[d] = "online"
  /\ occupant' = [occupant EXCEPT ![d] = nextGen]
  /\ idleAge' = [idleAge EXCEPT ![d] = 0]
  /\ nextGen' = nextGen + 1
  /\ UNCHANGED <<status, agentOf, heartbeatAge>>

(* occupy: an online unoccupied device matching the filter gets a fresh
   generation; which rows match is the caller's choice. *)
Occupy(d) ==
  /\ nextGen <= MaxGenerations
  /\ status[d] = "online"
  /\ occupant[d] = Unoccupied
  /\ occupant' = [occupant EXCEPT ![d] = nextGen]
  /\ idleAge' = [idleAge EXCEPT ![d] = 0]
  /\ nextGen' = nextGen + 1
  /\ UNCHANGED <<status, agentOf, heartbeatAge>>

(* Does the occupant id of a request own the device?  The other outcomes
   (not_found, not_occupied, forbidden) change nothing. *)
Owns(d, g) == g # Unoccupied /\ occupant[d] = g

Release(d, g) ==
  /\ Owns(d, g)
  /\ occupant' = [occupant EXCEPT ![d] = Unoccupied]
  /\ idleAge' = [idleAge EXCEPT ![d] = IdleAge]
  /\ UNCHANGED <<status, agentOf, heartbeatAge, nextGen>>

(* The status is not looked at: an occupation can be renewed while its
   agent's tunnel is down. *)
Renew(d, g) ==
  /\ Owns(d, g)
  /\ idleAge' = [idleAge EXCEPT ![d] = 0]
  /\ UNCHANGED <<status, agentOf, occupant, heartbeatAge, nextGen>>

(* heartbeat: only rows the sender still owns are refreshed. *)
Heartbeat(a, D) ==
  LET mine == {d \in D : status[d] # "unregistered" /\ agentOf[d] = a}
  IN  /\ status' = [d \in Devices |-> IF d \in mine THEN "online" ELSE status[d]]
      /\ heartbeatAge' = [d \in Devices |-> IF d \in mine THEN 0 ELSE heartbeatAge[d]]
      /\ UNCHANGED <<agentOf, occupant, idleAge, nextGen>>

(* handleAgentDisconnect: the agent's rows go offline and are orphaned; the
   occupations stay until a sweep. *)
MarkAgentOffline(a) ==
  LET mine == {d \in Devices : agentOf[d] = a}
  IN  /\ status' = [d \in Devices |-> IF d \in mine THEN "offline" ELSE status[d]]
      /\ agentOf' = [d \in Devices |-> IF d \in mine THEN NoAgent ELSE agentOf[d]]
      /\ UNCHANGED <<occupant, heartbeatAge, idleAge, nextGen>>

IdleDevices ==
  {d \in Devices : occupant[d] # Unoccupied /\ idleAge[d] > OccupationTtl}

(* Mutants: an offline device is not looked at; the timeout is off by one. *)
StaleOnlineDevices ==
  {d \in Devices : status[d] = "online" /\ heartbeatAge[d] > HeartbeatTimeout}

StaleDevicesEarly ==
  {d \in Devices : /\ status[d] = "online" \/ occupant[d] # Unoccupied
                   /\ heartbeatAge[d] >= HeartbeatTimeout}

StaleDevices ==
  {d \in Devices : /\ status[d] = "online" \/ occupant[d] # Unoccupied
                   /\ heartbeatAge[d] > HeartbeatTimeout}

EndOccupations(D) ==
  /\ occupant' = [d \in Devices |-> IF d \in D THEN Unoccupied ELSE occupant[d]]
  /\ idleAge' = [d \in Devices |-> IF d \in D THEN IdleAge ELSE idleAge[d]]

(* OccupancyExpiryMonitor.sweep *)
ExpireIdle ==
  /\ IdleDevices # {}
  /\ EndOccupations(IdleDevices)
  /\ UNCHANGED <<status, agentOf, heartbeatAge, nextGen>>

(* HeartbeatMonitor.sweep: also reclaims an offline device still occupied.
   agent_id is left as it is. *)
MarkStaleOffline ==
  /\ StaleDevices # {}
  /\ status' = [d \in Devices |-> IF d \in StaleDevices THEN "offline" ELSE status[d]]
  /\ EndOccupations(StaleDevices)
  /\ UNCHANGED <<agentOf, heartbeatAge, nextGen>>

(* The wall clock moves by one tick: every timestamp gets older. *)
Older(age, limit) == IF age < limit THEN age + 1 ELSE limit

Tick ==
  /\ heartbeatAge' = [d \in Devices |-> Older(heartbeatAge[d], StaleAge)]
  /\ idleAge' = [d \in Devices |-> Older(idleAge[d], IdleAge)]
  /\ UNCHANGED <<status, agentOf, occupant, nextGen>>

Next ==
  \/ \E a \in Agents, D \in SUBSET Devices : Upsert(a, D)
  \/ \E d \in Devices : Occupy(d)
  \/ \E d \in Devices, g \in Issued : Release(d, g)
  \/ \E d \in Devices, g \in Issued : Renew(d, g)
  \/ \E a \in Agents, D \in SUBSET Devices : Heartbeat(a, D)
  \/ \E a \in Agents : MarkAgentOffline(a)
  \/ ExpireIdle
  \/ MarkStaleOffline
  \/ Tick

Spec == Init /\ [][Next]_vars

(* The sweeps are setInterval callbacks and time passes by itself; whether
   users and agents act is up to them. *)
Fairness == WF_vars(ExpireIdle) /\ WF_vars(MarkStaleOffline) /\ WF_vars(Tick)

FairSpec == Spec /\ Fairness

-------------------------------------------------------------------------------
(* The registry implements Occupancy: a generation is unissued until its
   number comes up, live while some row carries it, and ended for good once
   no row does. *)
Holders(g) == {d \in Devices : occupant[d] = g}
HolderOf(g) == CHOOSE d \in Devices : occupant[d] = g

LeaseOf(g) ==
  IF g >= nextGen THEN "unissued"
  ELSE IF Holders(g) = {} THEN "ended" ELSE HolderOf(g)

leaseMap == [g \in Issued |-> LeaseOf(g)]

Lease == INSTANCE Occupancy WITH
  Generations <- Issued, Unissued <- "unissued", Ended <- "ended", lease <- leaseMap

(* Refinement: whatever order requests, sweeps, registrations and tunnel
   losses come in, a generation is live on one device at a time and a lost
   occupation is never resurrected (a heartbeat, a re-registration or a sweep
   that brought an old occupant_id back would break it). *)
ImplementsOccupancy == Lease!Spec

(* The registry is the server its clients see: FarmApi, where a device that
   nobody holds has no age. *)
ageSeen == [d \in Devices |-> IF occupant[d] = Unoccupied THEN 0 ELSE idleAge[d]]

Api == INSTANCE FarmApi WITH
  MaxIds <- MaxGenerations, Ttl <- OccupationTtl,
  owner <- occupant, age <- ageSeen, issued <- nextGen - 1

(* Refinement: registrations, tunnel losses and heartbeats stay behind the
   API, and no occupation is granted, renewed, released or reclaimed in a way
   that the web console and the command line are not checked against. *)
ImplementsApi == Api!ApiSpec

(* No two rows carry the same generation, and no row carries a generation
   that was not handed out. *)
OneDevicePerGeneration ==
  \A d, e \in Devices :
    occupant[d] # Unoccupied =>
      /\ occupant[d] < nextGen
      /\ occupant[d] = occupant[e] => d = e

(* CommandsService takes an online row to have an agent to send to: no path
   leaves a row online without one. *)
OnlineHasAgent == \A d \in Devices : status[d] = "online" => agentOf[d] \in Agents

(* An occupation ends only because its holder released it, nobody used it for
   longer than the TTL, or the device has been without heartbeat for longer
   than the timeout: a tunnel blip, another agent's registration or somebody
   else's request never takes a device away from its user. *)
NoEarlyEnd ==
  [][\A d \in Devices, g \in Issued :
       occupant[d] = g /\ occupant'[d] # g =>
         \/ Release(d, g)
         \/ idleAge[d] > OccupationTtl
         \/ heartbeatAge[d] > HeartbeatTimeout]_vars

(* No device is lost to the farm: an occupation nobody uses is reclaimed, and
   so is that of a device whose agent does not come back, even while its user
   keeps renewing. *)
OccupationsAreReclaimed ==
  \A d \in Devices, g \in Issued :
    /\ (occupant[d] = g /\ idleAge[d] > 0) ~> (occupant[d] # g \/ idleAge[d] = 0)
    /\ (occupant[d] = g /\ heartbeatAge[d] > 0) ~> (occupant[d] # g \/ heartbeatAge[d] = 0)

===============================================================================
