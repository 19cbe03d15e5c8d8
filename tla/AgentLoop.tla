------------------------------- MODULE AgentLoop -------------------------------
(***************************************************************************)
(* The main loop of an agent: every period, and whenever the tunnel opens, *)
(* all discovery sources are asked in parallel; what they found starts and *)
(* stops sessions and streams, and is registered with the server.          *)
(*                                                                         *)
(* A source answers late with what it saw earlier, or fails.  Devices come *)
(* and go, and the tunnel opens and closes, while a discovery runs.        *)
(*                                                                         *)
(* LoopInit, LoopNext and so on keep the names of ServerTunnel free: the   *)
(* two are parts of one process, and AgentProofs extends both.             *)
(***************************************************************************)
EXTENDS Integers, FiniteSets

CONSTANTS
  IosDevices, AndroidDevices,
  Unusable,        \* Android devices that are unauthorized or attached over the network
  StaticDevices,   \* of the configuration
  MaxConsecutiveFailures,
  MaxChanges       \* bound: how often the surroundings change or fail

ASSUME AgentLoopAssumption ==
  /\ IosDevices \intersect AndroidDevices = {}
  /\ Unusable \subseteq AndroidDevices /\ StaticDevices \intersect Unusable = {}
  /\ MaxConsecutiveFailures \in Nat \ {0} /\ MaxChanges \in Nat

Sources == {"ios", "android"}
Devices == IosDevices \union AndroidDevices \union StaticDevices
Of(source) == IF source = "ios" THEN IosDevices ELSE AndroidDevices
Waiting == [state |-> "waiting", ids |-> {}]
Failed == [state |-> "failed", ids |-> {}]
Listed(ids) == [state |-> "listed", ids |-> ids]

VARIABLES
  attached,    \* the devices plugged in
  ready,       \* those whose controller is ready, as the supervisors see it
  found,       \* DiscoveryState.devices of each source
  failures,    \* DiscoveryState.consecutiveFailures
  inFlight,    \* isDiscoveryInFlight
  results,     \* of the discovery in flight, by source
  supervised,  \* what the supervisors and the stream manager were last told
  tunnel,      \* "open" or "closed"
  registered,  \* what the server was told on this connection: ids, and which are ready
  isShuttingDown,
  changes

loopVars == <<attached, ready, found, failures, inFlight, results, supervised, tunnel,
              registered, isShuttingDown, changes>>
world == <<attached, ready>>
states == <<found, failures>>

LoopTypeOK ==
  /\ attached \subseteq Devices /\ ready \subseteq Devices
  /\ found \in [Sources -> SUBSET Devices] /\ failures \in [Sources -> 0..MaxConsecutiveFailures]
  /\ inFlight \in BOOLEAN
  /\ results \in [Sources -> {Waiting, Failed} \union {Listed(ids) : ids \in SUBSET Devices}]
  /\ supervised \subseteq Devices
  /\ tunnel \in {"open", "closed"}
  /\ registered \in [ids : SUBSET Devices, ready : SUBSET Devices]
  /\ isShuttingDown \in BOOLEAN /\ changes \in 0..MaxChanges

Nothing == [ids |-> {}, ready |-> {}]
AllWaiting == [source \in Sources |-> Waiting]

LoopInit ==
  /\ attached \in SUBSET (IosDevices \union AndroidDevices) /\ ready = {}
  /\ found = [source \in Sources |-> {}] /\ failures = [source \in Sources |-> 0]
  /\ inFlight = FALSE /\ results = AllWaiting
  /\ supervised = {}
  /\ tunnel = "closed" /\ registered = Nothing
  /\ isShuttingDown = FALSE /\ changes = 0

-------------------------------------------------------------------------------
(* External: cables, controllers, adb and devicectl, the network. *)
Changes == changes < MaxChanges /\ changes' = changes + 1

Replugs(d) ==
  /\ Changes
  /\ attached' = IF d \in attached THEN attached \ {d} ELSE attached \union {d}
  /\ UNCHANGED <<ready, states, inFlight, results, supervised, tunnel, registered, isShuttingDown>>

Readies(d) ==
  /\ Changes
  /\ d \in supervised
  /\ ready' = IF d \in ready THEN ready \ {d} ELSE ready \union {d}
  /\ UNCHANGED <<attached, states, inFlight, results, supervised, tunnel, registered, isShuttingDown>>

TunnelCloses ==
  /\ Changes
  /\ tunnel = "open"
  /\ tunnel' = "closed" /\ registered' = Nothing
  /\ UNCHANGED <<world, states, inFlight, results, supervised, isShuttingDown>>

-------------------------------------------------------------------------------
(* What the source reports: parseDevicectlOutput of the connected devices; of adb's
   list the devices in state "device" whose serial is a device id. *)
Usable(source) == (attached \intersect Of(source)) \ Unusable

(* discoverAndRegister, unless one runs. *)
InFlightGuard == IF inFlight THEN UNCHANGED results ELSE results' = AllWaiting

Discover == InFlightGuard /\ inFlight' = TRUE

DiscoveryTimer ==
  /\ ~isShuttingDown
  /\ Discover
  /\ UNCHANGED <<world, states, supervised, tunnel, registered, isShuttingDown, changes>>

(* onOpen registers again: the server may have taken the devices offline. *)
TunnelOpens ==
  /\ ~isShuttingDown
  /\ tunnel = "closed"
  /\ tunnel' = "open"
  /\ Discover
  /\ UNCHANGED <<world, states, supervised, registered, isShuttingDown, changes>>

(* One source has its list; it may wait on, for getprop or for the other source. *)
Lists(source) ==
  /\ inFlight /\ results[source] = Waiting
  /\ results' = [results EXCEPT ![source] = Listed(Usable(source))]
  /\ UNCHANGED <<world, states, inFlight, supervised, tunnel, registered, isShuttingDown, changes>>

SourceFails(source) ==
  /\ Changes
  /\ inFlight /\ results[source] = Waiting
  /\ results' = [results EXCEPT ![source] = Failed]
  /\ UNCHANGED <<world, states, inFlight, supervised, tunnel, registered, isShuttingDown>>

-------------------------------------------------------------------------------
(* Mutant: one failure empties the list. *)
KeptNever(source) == {}

(* DiscoveryState.apply of a failure: the last list is kept until the limit. *)
KeptList(source) == IF failures[source] + 1 < MaxConsecutiveFailures THEN found[source] ELSE {}

Applied ==
  /\ found' = [source \in Sources |->
       IF results[source] = Failed THEN KeptList(source) ELSE results[source].ids]
  /\ failures' = [source \in Sources |->
       IF results[source] # Failed THEN 0
       ELSE IF failures[source] < MaxConsecutiveFailures THEN failures[source] + 1 ELSE failures[source]]

(* DiscoveryAggregator: discoveredIds of both platforms, and devices. *)
Discovered == (UNION {found'[source] : source \in Sources}) \ StaticDevices
AllDevices == Discovered \union StaticDevices

(* Mutant: only a list that changed is registered. *)
OnlyNews == found' # found

(* Some source succeeded, or there are static devices. *)
ShouldRegister == StaticDevices # {} \/ \E source \in Sources : results[source] # Failed

(* refresh returns; the sessions are synchronised whether or not it is registered, also
   when the agent was told to stop meanwhile; the registration is lost without a tunnel. *)
Finish ==
  /\ inFlight
  /\ \A source \in Sources : results[source] # Waiting
  /\ Applied
  /\ supervised' = Discovered
  /\ ready' = ready \intersect Discovered
  /\ registered' = IF ShouldRegister /\ tunnel = "open"
                   THEN [ids |-> AllDevices, ready |-> AllDevices \intersect ready']
                   ELSE registered
  /\ inFlight' = FALSE /\ results' = AllWaiting
  /\ UNCHANGED <<attached, tunnel, isShuttingDown, changes>>

(* shutdown: the timers are cleared, all is stopped and the tunnel closed; a discovery
   in flight goes on. *)
Shutdown ==
  /\ ~isShuttingDown
  /\ isShuttingDown' = TRUE
  /\ supervised' = {} /\ ready' = {}
  /\ tunnel' = "closed" /\ registered' = Nothing
  /\ UNCHANGED <<attached, states, inFlight, results, changes>>

LoopNext ==
  \/ \E d \in Devices \ StaticDevices : Replugs(d) \/ Readies(d)
  \/ \E source \in Sources : Lists(source) \/ SourceFails(source)
  \/ DiscoveryTimer \/ TunnelOpens \/ TunnelCloses \/ Finish \/ Shutdown

(* The timer fires again and again, the tunnel reconnects, and every source has a
   time limit. *)
LoopFairness ==
  /\ WF_loopVars(DiscoveryTimer) /\ WF_loopVars(TunnelOpens) /\ WF_loopVars(Finish)
  /\ \A source \in Sources : WF_loopVars(Lists(source))

LoopSpec == LoopInit /\ [][LoopNext]_loopVars /\ LoopFairness

-------------------------------------------------------------------------------
(* A session or stream ends for a reason: its own source no longer listed the device, or
   failed too often in a row, or the agent stops.  A failure of the other source, or a
   single one, never takes a phone from its user (refresh and apply). *)
SourceOf(d) == IF d \in IosDevices THEN "ios" ELSE "android"
DroppedForCause ==
  [][\A d \in supervised \ supervised' :
       \/ isShuttingDown'
       \/ results[SourceOf(d)] # Failed /\ d \notin results[SourceOf(d)].ids
       \/ results[SourceOf(d)] = Failed /\ failures'[SourceOf(d)] = MaxConsecutiveFailures]_loopVars

(* Once nothing changes any more the server knows what is plugged in and what is ready,
   whatever was lost, late or failed before. *)
Picture ==
  LET ids == (UNION {Usable(source) : source \in Sources}) \union StaticDevices
  IN  [ids |-> ids, ready |-> ready]
PictureConverges == <>[](isShuttingDown \/ (tunnel = "open" /\ registered = Picture))
===============================================================================
