------------------------------- MODULE FarmApi -------------------------------
(***************************************************************************)
(* The farm's server as a client of its HTTP API sees it: who holds each   *)
(* device, and how occupy, release, keepalive and an action on a device    *)
(* are answered.  DeviceRegistry and FarmServer model how the server comes *)
(* to these answers; here they are one step.                               *)
(***************************************************************************)
EXTENDS FarmDevices, Integers, FiniteSets

CONSTANTS
  MaxIds,     \* bound: how many occupations are ever granted
  Ttl         \* of an occupation without activity, in ticks

ASSUME FarmApiAssumption == MaxIds \in Nat \ {0} /\ Ttl \in Nat \ {0}

Nobody == 0
Ids == 1..MaxIds

VARIABLES
  owner,    \* the occupantId of each device, or Nobody
  age,      \* ticks since its last activity, up to Ttl + 1
  issued    \* how many occupantIds were handed out

apiVars == <<owner, age, issued>>

Pending == [status |-> 0, id |-> Nobody]
Answer(status, id) == [status |-> status, id |-> id]
Answers == {Pending} \union [status : {200, 403, 409}, id : Ids \union {Nobody}]

ApiTypeOK ==
  /\ owner \in [Devices -> Ids \union {Nobody}]
  /\ age \in [Devices -> 0..Ttl + 1]
  /\ issued \in 0..MaxIds

ApiInit ==
  /\ owner = [d \in Devices |-> Nobody]
  /\ age = [d \in Devices |-> 0]
  /\ issued = 0

(* POST /devices/occupy: 409 also when no device that fits is online. *)
ServeOccupy(d, answer) ==
  \/ /\ owner[d] = Nobody /\ issued < MaxIds
     /\ issued' = issued + 1
     /\ owner' = [owner EXCEPT ![d] = issued + 1]
     /\ age' = [age EXCEPT ![d] = 0]
     /\ answer = Answer(200, issued + 1)
  \/ answer = Answer(409, Nobody) /\ UNCHANGED apiVars

Mismatch(d, id) == IF owner[d] = Nobody THEN 409 ELSE 403

ServeRelease(d, id, answer) ==
  \/ /\ owner[d] = id
     /\ owner' = [owner EXCEPT ![d] = Nobody]
     /\ age' = [age EXCEPT ![d] = 0]
     /\ answer = Answer(200, id) /\ UNCHANGED issued
  \/ owner[d] # id /\ answer = Answer(Mismatch(d, id), Nobody) /\ UNCHANGED apiVars

ServeKeepalive(d, id, answer) ==
  \/ /\ owner[d] = id /\ answer = Answer(200, id)
     /\ age' = [age EXCEPT ![d] = 0] /\ UNCHANGED <<owner, issued>>
  \/ owner[d] # id /\ answer = Answer(Mismatch(d, id), Nobody) /\ UNCHANGED apiVars

(* An action renews the occupation before it is sent to the agent.  That   *)
(* the agent fails (400, 502, 504) says as little of the session as that   *)
(* it succeeds: 200 is for both.  A device that is offline is 409 to its   *)
(* occupant and renews nothing; 403 is also for one that nobody holds.     *)
ServeAction(d, id, answer) ==
  \/ /\ owner[d] = id /\ answer = Answer(200, id)
     /\ age' = [age EXCEPT ![d] = 0] /\ UNCHANGED <<owner, issued>>
  \/ owner[d] = id /\ answer = Answer(409, Nobody) /\ UNCHANGED apiVars
  \/ owner[d] # id /\ answer = Answer(403, Nobody) /\ UNCHANGED apiVars

Serve(kind, d, id, answer) ==
  \/ kind = "occupy" /\ ServeOccupy(d, answer)
  \/ kind = "release" /\ ServeRelease(d, id, answer)
  \/ kind = "keepalive" /\ ServeKeepalive(d, id, answer)
  \/ kind = "action" /\ ServeAction(d, id, answer)

Occupied == {d \in Devices : owner[d] # Nobody}
Expired == {d \in Occupied : age[d] > Ttl}

End(D) ==
  /\ owner' = [d \in Devices |-> IF d \in D THEN Nobody ELSE owner[d]]
  /\ age' = [d \in Devices |-> IF d \in D THEN 0 ELSE age[d]]
  /\ UNCHANGED issued

(* The idle sweep. *)
Sweep == Expired # {} /\ End(Expired)

(* The heartbeat sweep: devices whose host went silent, active or not. *)
Reclaim == \E D \in SUBSET Occupied : D # {} /\ End(D)

Aged == [d \in Devices |-> IF owner[d] = Nobody \/ age[d] > Ttl THEN age[d] ELSE age[d] + 1]

TimePasses == age' = Aged /\ UNCHANGED <<owner, issued>>

(* What the server may do, whoever its clients are. *)
ApiNext ==
  \/ \E d \in Devices, answer \in Answers : ServeOccupy(d, answer)
  \/ \E d \in Devices, id \in Ids, answer \in Answers :
       ServeRelease(d, id, answer) \/ ServeKeepalive(d, id, answer) \/ ServeAction(d, id, answer)
  \/ Sweep \/ Reclaim \/ TimePasses

ApiSpec == ApiInit /\ [][ApiNext]_apiVars
==============================================================================
