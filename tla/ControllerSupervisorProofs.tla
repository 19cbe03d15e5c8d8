---------------------- MODULE ControllerSupervisorProofs -----------------------
(***************************************************************************)
(* Proofs about ControllerSupervisor, for any number of devices, sessions  *)
(* and launches, and any delays that satisfy SupervisorAssumption.  The    *)
(* inductive invariant is SupervisorInv.  Two of its parts carry the rest: *)
(* OneUseOfPort, by which a port has one session, one place in the pool or *)
(* one timer, and DoomedBeforePort, by which a process that lost its       *)
(* session is killed before the port it listens on can be handed out.      *)
(***************************************************************************)
EXTENDS ControllerSupervisor, SequenceTheorems, TLAPS

(* SessionType and ProcessType without the bounds on launches and ticks. *)
SessionFields ==
  [device : Devices \union {NoDevice}, port : Nat, held : SUBSET Kinds, isReady : BOOLEAN,
   healthFailCount : Nat, restartAttempt : 0..MaxAttempt, polling : BOOLEAN,
   restartTimer : {Off} \union Nat, isStopping : BOOLEAN, generation : Nat, age : Nat]

ProcessFields ==
  [session : Sessions, generation : Nat, kind : Kinds, alive : BOOLEAN, bound : BOOLEAN,
   escalation : {Off} \union 0..KillEscalation]

Fields ==
  /\ session \in [Sessions -> SessionFields]
  /\ procs \subseteq ProcessFields
  /\ polls \subseteq [session : Sessions, generation : Nat]
  /\ cooling \subseteq [port : Nat, left : 0..PortCooldown]
  /\ nextPort \in Nat /\ freePorts \in Seq(Nat)

(* A session has both processes and is polled, or neither and is not; and only
   one in the map waits for a restart. *)
HeldOrNot(s) ==
  /\ session[s].held = {} => ~session[s].isReady /\ ~session[s].polling
  /\ session[s].held # {} =>
       /\ session[s].held = Kinds /\ Active(s)
       /\ session[s].polling /\ session[s].restartTimer = Off
  /\ session[s].restartTimer # Off => Active(s)

(* A process that no session vouches for. *)
Vouched(p) ==
  p.alive /\ p.escalation = Off => Active(p.session) /\ Current(p) /\ p.kind \in session[p.session].held

DoomedBeforePort(p) ==
  p.alive => \/ Active(p.session)
             \/ \E c \in cooling : c.port = Port(p) /\ p.escalation # Off /\ p.escalation < c.left

Accounted(p) == session[p.session].device # NoDevice /\ Vouched(p) /\ DoomedBeforePort(p)

InPool == {freePorts[i] : i \in 1..Len(freePorts)}
Cooling == {c.port : c \in cooling}

OneUseOfPort ==
  /\ \A s, t \in Sessions :
       Active(s) /\ Active(t) /\ session[s].port = session[t].port => s = t
  /\ \A s \in Sessions : Active(s) =>
       session[s].port < nextPort /\ session[s].port \notin InPool \union Cooling
  /\ \A i, j \in 1..Len(freePorts) : freePorts[i] = freePorts[j] => i = j
  /\ \A c, e \in cooling : c.port = e.port => c = e
  /\ InPool \intersect Cooling = {}
  /\ \A port \in InPool \union Cooling : port < nextPort

SupervisorInv ==
  /\ Fields
  /\ \A s \in Sessions : HeldOrNot(s)
  /\ \A p \in procs : Accounted(p)
  /\ OneUseOfPort

-------------------------------------------------------------------------------
LEMMA DelayInRange == \A n \in 0..MaxAttempt : Delay(n) \in Nat
<1> SUFFICES ASSUME NEW n \in 0..MaxAttempt PROVE Delay(n) \in Nat
  OBVIOUS
<1>1. RestartBase * 2^n \in Int /\ RestartBase <= RestartBase * 2^n
  BY SupervisorAssumption, DelaysGrow
<1> QED
  BY <1>1, SupervisorAssumption DEF Delay, Saturated

LEMMA Ticks ==
  /\ KillEscalation \in Nat /\ PortCooldown \in Nat /\ KillEscalation < PortCooldown
  /\ MaxAttempt \in Nat /\ NoDevice \notin Devices
  /\ HealthFailThreshold \in Nat /\ ReadyDeadline \in Nat /\ MaxSessions \in Nat
BY SupervisorAssumption

(* What scheduleRestart makes of the fields of a session. *)
LEMMA RestartingFields ==
  ASSUME NEW r \in SessionFields
  PROVE  /\ Restarting(r) \in SessionFields
         /\ Restarting(r).held = {} /\ ~Restarting(r).isReady /\ ~Restarting(r).polling
         /\ Restarting(r).restartTimer \in Nat
         /\ Restarting(r).device = r.device /\ Restarting(r).port = r.port
         /\ Restarting(r).isStopping = r.isStopping /\ Restarting(r).generation = r.generation
<1>1. Delay(r.restartAttempt) \in Nat
  BY DelayInRange DEF SessionFields
<1>2. Saturated(r.restartAttempt + 1, MaxAttempt) \in 0..MaxAttempt
  BY Ticks DEF SessionFields, Saturated
<1> QED
  BY <1>1, <1>2 DEF Restarting, TornDown, SessionFields

(* Signalled processes are the same processes, with a kill on its way. *)
Twin(q, p) ==
  /\ q \in ProcessFields
  /\ q.session = p.session /\ q.generation = p.generation /\ q.kind = p.kind
  /\ q.alive = p.alive /\ q.bound = p.bound

LEMMA SignalledTwins ==
  ASSUME NEW ps \in SUBSET ProcessFields, NEW q \in Signalled(ps)
  PROVE  \E p \in ps : Twin(q, p) /\ q.escalation = KillEscalation
BY Ticks DEF Signalled, Twin, ProcessFields

-------------------------------------------------------------------------------
(* What a launch does: the session has both processes and is polled, or it has
   neither, waits for its restart, and what was spawned is told to end. *)
LaunchedAs(s, r, x, new) ==
  /\ x \in SessionFields /\ new \subseteq ProcessFields
  /\ session' = [session EXCEPT ![s] = x]
  /\ procs' = procs \union new
  /\ x.device = r.device /\ x.port = r.port /\ x.isStopping = r.isStopping
  /\ ~x.isReady
  /\ \/ x.held = Kinds /\ x.polling /\ x.restartTimer = Off
     \/ /\ x.held = {} /\ ~x.polling /\ x.restartTimer \in Nat
        /\ \A p \in new : p.escalation # Off
  /\ \A p \in new : p.session = s /\ p.generation = x.generation

LEMMA LaunchEffect ==
  ASSUME Fields, NEW s \in Sessions, NEW r \in SessionFields, NEW spawned \in Spawnable,
         Launch(s, r, spawned)
  PROVE  \E x, new : LaunchedAs(s, r, x, new)
<1> DEFINE g == r.generation + 1
           launched == [r EXCEPT !.isReady = FALSE, !.healthFailCount = 0, !.age = 0,
                                 !.generation = g, !.restartTimer = Off]
           spawn == Spawned(s, g, r.port, spawned)
<1>1. /\ launched \in SessionFields /\ launched.generation = g /\ launched.restartTimer = Off
      /\ launched.device = r.device /\ launched.port = r.port
      /\ launched.isStopping = r.isStopping /\ ~launched.isReady
  <2>1. g \in Nat
    BY DEF SessionFields
  <2> HIDE DEF g
  <2> QED
    BY <2>1 DEF SessionFields
<1>2. /\ spawn \subseteq ProcessFields
      /\ \A p \in spawn : p.session = s /\ p.generation = g
  <2>1. g \in Nat /\ spawned \subseteq Kinds
    BY DEF SessionFields, Spawnable, Kinds
  <2> HIDE DEF g
  <2>2. ASSUME NEW p \in spawn
        PROVE  p \in ProcessFields /\ p.session = s /\ p.generation = g
    <3> DEFINE binds(k) == k = "proxy" /\ Listeners(r.port) = {}
    <3>1. PICK k \in spawned :
            p = [session |-> s, generation |-> g, kind |-> k, alive |-> TRUE,
                 bound |-> binds(k), escalation |-> Off]
      BY <2>2 DEF Spawned
    <3>2. binds(k) \in BOOLEAN
      OBVIOUS
    <3> HIDE DEF binds
    <3> QED
      BY <2>1, <3>1, <3>2 DEF ProcessFields
  <2> QED
    BY <2>2
<1>3. CASE spawned = Kinds
  <2> DEFINE x == [launched EXCEPT !.held = Kinds, !.polling = TRUE]
  <2>1. session' = [session EXCEPT ![s] = x] /\ procs' = procs \union spawn
    BY <1>3 DEF Launch
  <2>2. /\ x \in SessionFields /\ x.device = r.device /\ x.port = r.port
        /\ x.isStopping = r.isStopping /\ ~x.isReady
        /\ x.held = Kinds /\ x.polling /\ x.restartTimer = Off /\ x.generation = g
    <3> HIDE DEF launched, g
    <3> QED
      BY <1>1 DEF SessionFields
  <2> HIDE DEF x, spawn
  <2> QED
    BY <1>2, <2>1, <2>2 DEF LaunchedAs
<1>4. CASE spawned # Kinds
  <2> DEFINE x == Restarting(launched)
             new == Signalled(spawn)
  <2>1. session' = [session EXCEPT ![s] = x] /\ procs' = procs \union new
    BY <1>4 DEF Launch, FailedLaunch
  <2> HIDE DEF launched, spawn
  <2>2. /\ x \in SessionFields /\ x.device = r.device /\ x.port = r.port
        /\ x.isStopping = r.isStopping /\ ~x.isReady
        /\ x.held = {} /\ ~x.polling /\ x.restartTimer \in Nat /\ x.generation = g
    BY <1>1, RestartingFields
  <2>3. \A p \in new : /\ p \in ProcessFields /\ p.session = s /\ p.generation = g
                       /\ p.escalation # Off
    BY <1>2, SignalledTwins, Ticks DEF Twin, Off
  <2> HIDE DEF x, new
  <2> QED
    BY <2>1, <2>2, <2>3 DEF LaunchedAs
<1> QED
  BY <1>3, <1>4

(* What scheduleRestart does to a session that has its processes. *)
RestartedAs(s, r, known, x) ==
  /\ x \in SessionFields
  /\ session' = [session EXCEPT ![s] = x]
  /\ x.device = r.device /\ x.port = r.port /\ x.isStopping = r.isStopping
  /\ x.held = {} /\ ~x.isReady /\ ~x.polling /\ x.restartTimer \in Nat
  /\ x.generation = r.generation
  /\ \A q \in procs' : \E p \in known :
       /\ Twin(q, p)
       /\ \/ q.escalation = KillEscalation /\ p.session = s
          \/ q = p /\ p \notin HeldBy(s)

LEMMA RestartEffect ==
  ASSUME Fields, NEW s \in Sessions, NEW r \in SessionFields, NEW known \in SUBSET procs,
         ~r.isStopping, r.restartTimer = Off, ScheduleRestart(s, r, known)
  PROVE  \E x : RestartedAs(s, r, known, x)
<1> DEFINE x == Restarting(r)
<1>1. /\ session' = [session EXCEPT ![s] = x]
      /\ procs' = (known \ HeldBy(s)) \union Signalled(HeldBy(s) \intersect known)
  BY DEF ScheduleRestart
<1>2. /\ x \in SessionFields /\ x.held = {} /\ ~x.isReady /\ ~x.polling /\ x.restartTimer \in Nat
      /\ x.device = r.device /\ x.port = r.port
      /\ x.isStopping = r.isStopping /\ x.generation = r.generation
  BY RestartingFields
<1>3. ASSUME NEW q \in procs'
      PROVE  \E p \in known :
               /\ Twin(q, p)
               /\ \/ q.escalation = KillEscalation /\ p.session = s
                  \/ q = p /\ p \notin HeldBy(s)
  <2>1. CASE q \in known \ HeldBy(s)
    BY <2>1 DEF Twin, Fields
  <2>2. CASE q \in Signalled(HeldBy(s) \intersect known)
    BY <2>2, SignalledTwins DEF Fields, HeldBy
  <2> QED
    BY <1>1, <1>3, <2>1, <2>2
<1> HIDE DEF x
<1> QED
  BY <1>1, <1>2, <1>3 DEF RestartedAs

(* What stopSession and stopAll do to the sessions they stop, and to their
   processes. *)
StoppedAs(S, x) ==
  /\ session' = [s \in Sessions |-> IF s \in S THEN x[s] ELSE session[s]]
  /\ \A s \in S : /\ x[s] \in SessionFields
                  /\ x[s].held = {} /\ ~x[s].isReady /\ ~x[s].polling
                  /\ x[s].restartTimer = Off /\ x[s].isStopping
                  /\ x[s].device = session[s].device /\ x[s].port = session[s].port
  /\ \A q \in procs' : \E p \in procs :
       /\ Twin(q, p)
       /\ \/ q.escalation = KillEscalation /\ p.session \in S
          \/ q = p /\ \A s \in S : p \notin HeldBy(s)

LEMMA StopEffect ==
  ASSUME Fields, NEW S \in SUBSET Sessions, Stop(S)
  PROVE  \E x : StoppedAs(S, x)
<1> DEFINE stopped(r) == [TornDown(r) EXCEPT !.isStopping = TRUE, !.restartTimer = Off]
           x == [s \in Sessions |-> stopped(session[s])]
           held == UNION {HeldBy(s) : s \in S}
<1>1. /\ session' = [s \in Sessions |-> IF s \in S THEN stopped(session[s]) ELSE session[s]]
      /\ procs' = (procs \ held) \union Signalled(held)
  BY DEF Stop
<1>2. \A s \in S : x[s] = stopped(session[s]) /\ session[s] \in SessionFields
  BY DEF Fields
<1>3. ASSUME NEW s \in S
      PROVE  /\ x[s] \in SessionFields
             /\ x[s].held = {} /\ ~x[s].isReady /\ ~x[s].polling
             /\ x[s].restartTimer = Off /\ x[s].isStopping
             /\ x[s].device = session[s].device /\ x[s].port = session[s].port
  <2>1. session[s] \in SessionFields
    BY <1>2
  <2>2. /\ stopped(session[s]) \in SessionFields
        /\ stopped(session[s]).held = {} /\ ~stopped(session[s]).isReady
        /\ ~stopped(session[s]).polling /\ stopped(session[s]).restartTimer = Off
        /\ stopped(session[s]).isStopping /\ stopped(session[s]).device = session[s].device
        /\ stopped(session[s]).port = session[s].port
    BY <2>1 DEF TornDown, SessionFields
  <2> HIDE DEF stopped
  <2> QED
    BY <1>2, <2>2
<1>4. ASSUME NEW q \in procs'
      PROVE  \E p \in procs :
               /\ Twin(q, p)
               /\ \/ q.escalation = KillEscalation /\ p.session \in S
                  \/ q = p /\ \A s \in S : p \notin HeldBy(s)
  <2>1. CASE q \in procs \ held
    BY <2>1 DEF Twin, Fields
  <2>2. CASE q \in Signalled(held)
    <3>1. held \subseteq procs /\ \A p \in held : p.session \in S
      BY DEF HeldBy
    <3> QED
      BY <2>2, <3>1, SignalledTwins DEF Fields
  <2> QED
    BY <1>1, <1>4, <2>1, <2>2
<1>5. session' = [s \in Sessions |-> IF s \in S THEN x[s] ELSE session[s]]
  BY <1>1, <1>2
<1> HIDE DEF x
<1> QED
  BY <1>3, <1>4, <1>5 DEF StoppedAs

-------------------------------------------------------------------------------
(* The invariant, but for the pool of ports, over the steps that change
   sessions and processes. *)
SessionsInv ==
  /\ session \in [Sessions -> SessionFields] /\ procs \subseteq ProcessFields
  /\ \A s \in Sessions : HeldOrNot(s)
  /\ \A p \in procs : Accounted(p)

LEMMA LaunchKeeps ==
  ASSUME SupervisorInv, NEW s \in Sessions, NEW r \in SessionFields, NEW spawned \in Spawnable,
         Launch(s, r, spawned),
         session[s].held = {}, r.device \in Devices, ~r.isStopping,
         session[s].device = NoDevice \/ (Active(s) /\ r.port = session[s].port),
         cooling' = cooling
  PROVE  /\ SessionsInv'
         /\ \A t \in Sessions : t # s => session'[t] = session[t]
         /\ session'[s].port = r.port /\ Active(s)'
<1>1. PICK x, new : LaunchedAs(s, r, x, new)
  BY LaunchEffect DEF SupervisorInv
<1>2. /\ session' \in [Sessions -> SessionFields] /\ procs' \subseteq ProcessFields
      /\ session'[s] = x
      /\ \A t \in Sessions : t # s => session'[t] = session[t]
  BY <1>1 DEF LaunchedAs, SupervisorInv, Fields
<1>3. Active(s)'
  BY <1>1, <1>2, Ticks DEF LaunchedAs, Active
<1>4. ASSUME NEW t \in Sessions PROVE HeldOrNot(t)'
  <2>1. CASE t = s
    BY <1>1, <1>2, <1>3, <2>1 DEF LaunchedAs, HeldOrNot, Off, Kinds
  <2>2. CASE t # s
    BY <1>2, <2>2 DEF SupervisorInv, HeldOrNot, Active
  <2> QED
    BY <2>1, <2>2
<1>5. ASSUME NEW p \in procs' PROVE Accounted(p)'
  <2>1. CASE p \in new
    BY <1>1, <1>2, <1>3, <2>1, Ticks
    DEF LaunchedAs, Accounted, Vouched, DoomedBeforePort, Current, Active, ProcessFields
  <2>2. CASE p \in procs /\ p.session = s
    <3>1. Accounted(p) /\ p \in ProcessFields
      BY <2>2 DEF SupervisorInv, Fields
    <3>2. Active(s)
      BY <2>2, <3>1 DEF Accounted
    <3>3. ~(p.alive /\ p.escalation = Off)
      BY <2>2, <3>1 DEF Accounted, Vouched
    <3> QED
      BY <1>1, <1>2, <1>3, <2>2, <3>3, Ticks DEF LaunchedAs, Accounted, Vouched, DoomedBeforePort
  <2>3. CASE p \in procs /\ p.session # s
    <3>1. Accounted(p) /\ p \in ProcessFields
      BY <2>3 DEF SupervisorInv, Fields
    <3>2. session'[p.session] = session[p.session]
      BY <1>2, <2>3, <3>1 DEF ProcessFields
    <3> QED
      BY <3>1, <3>2 DEF Accounted, Vouched, DoomedBeforePort, Active, Current, Port
  <2> QED
    BY <1>1, <1>5, <2>1, <2>2, <2>3 DEF LaunchedAs
<1> QED
  BY <1>1, <1>2, <1>3, <1>4, <1>5 DEF LaunchedAs, SessionsInv

LEMMA RestartKeeps ==
  ASSUME SupervisorInv, NEW s \in Sessions, NEW r \in SessionFields, NEW known \in SUBSET procs,
         ScheduleRestart(s, r, known),
         Active(s), ~r.isStopping, r.restartTimer = Off,
         r.device = session[s].device, r.port = session[s].port,
         r.generation = session[s].generation,
         cooling' = cooling
  PROVE  /\ SessionsInv'
         /\ \A t \in Sessions : session'[t].port = session[t].port /\ Active(t)' = Active(t)
<1>1. PICK x : RestartedAs(s, r, known, x)
  BY RestartEffect DEF SupervisorInv
<1>2. /\ session' \in [Sessions -> SessionFields] /\ procs' \subseteq ProcessFields
      /\ session'[s] = x
      /\ \A t \in Sessions : t # s => session'[t] = session[t]
  BY <1>1 DEF RestartedAs, SupervisorInv, Fields, Twin
<1>3. \A t \in Sessions : session'[t].port = session[t].port /\ Active(t)' = Active(t)
  BY <1>1, <1>2 DEF RestartedAs, Active
<1>4. ASSUME NEW t \in Sessions PROVE HeldOrNot(t)'
  <2>1. CASE t = s
    BY <1>1, <1>2, <1>3, <2>1 DEF RestartedAs, HeldOrNot
  <2>2. CASE t # s
    BY <1>2, <2>2 DEF SupervisorInv, HeldOrNot, Active
  <2> QED
    BY <2>1, <2>2
<1>5. ASSUME NEW q \in procs' PROVE Accounted(q)'
  <2>1. PICK p \in known :
          /\ Twin(q, p)
          /\ \/ q.escalation = KillEscalation /\ p.session = s
             \/ q = p /\ p \notin HeldBy(s)
    BY <1>1, <1>5 DEF RestartedAs
  <2>2. p \in procs /\ p \in ProcessFields /\ Accounted(p) /\ q.session = p.session
    BY <2>1 DEF SupervisorInv, Fields, Twin
  <2>3. session'[q.session].device # NoDevice
    BY <1>1, <1>2, <2>2 DEF RestartedAs, Accounted, ProcessFields
  <2>4. Vouched(q)'
    <3>1. CASE q.escalation = KillEscalation /\ p.session = s
      BY <3>1, Ticks DEF Vouched, Off
    <3>2. CASE q = p /\ p \notin HeldBy(s) /\ p.session # s
      BY <1>2, <2>2, <3>2 DEF Accounted, Vouched, Active, Current, ProcessFields
    <3>3. CASE q = p /\ p \notin HeldBy(s) /\ p.session = s
      BY <2>2, <3>3 DEF Accounted, Vouched, HeldBy
    <3> QED
      BY <2>1, <3>1, <3>2, <3>3
  <2>5. DoomedBeforePort(q)'
    <3>1. Active(q.session)' = Active(p.session) /\ Port(q)' = Port(p) /\ q.alive = p.alive
      BY <1>3, <2>1, <2>2 DEF Twin, Port, ProcessFields
    <3>2. ~Active(p.session) => q.escalation = p.escalation
      BY <2>1
    <3> QED
      BY <2>2, <3>1, <3>2 DEF Accounted, DoomedBeforePort
  <2> QED
    BY <2>3, <2>4, <2>5 DEF Accounted
<1> QED
  BY <1>2, <1>3, <1>4, <1>5 DEF SessionsInv

LEMMA StopKeeps ==
  ASSUME SupervisorInv, NEW S \in SUBSET Sessions, \A s \in S : Active(s), Stop(S),
         UNCHANGED <<nextPort, freePorts>>
  PROVE  /\ SessionsInv' /\ OneUseOfPort'
         /\ cooling' \subseteq [port : Nat, left : 0..PortCooldown]
         /\ \A t \in Sessions : Active(t)' <=> Active(t) /\ t \notin S
<1>1. PICK x : StoppedAs(S, x)
  BY StopEffect DEF SupervisorInv
<1> DEFINE timer(s) == [port |-> session[s].port, left |-> PortCooldown]
<1>2. cooling' = cooling \union {timer(s) : s \in S}
  BY DEF Stop, Cooldown
<1>3. /\ session' \in [Sessions -> SessionFields] /\ procs' \subseteq ProcessFields
      /\ \A s \in S : session'[s] = x[s]
      /\ \A t \in Sessions \ S : session'[t] = session[t]
  BY <1>1 DEF StoppedAs, SupervisorInv, Fields, Twin
<1>4. \A t \in Sessions : /\ session'[t].port = session[t].port
                          /\ session'[t].device = session[t].device
                          /\ Active(t)' <=> Active(t) /\ t \notin S
  BY <1>1, <1>3 DEF StoppedAs, Active
<1>5. ASSUME NEW t \in Sessions PROVE HeldOrNot(t)'
  <2>1. CASE t \in S
    BY <1>1, <1>3, <2>1 DEF StoppedAs, HeldOrNot
  <2>2. CASE t \notin S
    BY <1>3, <2>2 DEF SupervisorInv, HeldOrNot, Active
  <2> QED
    BY <2>1, <2>2
<1>6. ASSUME NEW q \in procs' PROVE Accounted(q)'
  <2>1. PICK p \in procs :
          /\ Twin(q, p)
          /\ \/ q.escalation = KillEscalation /\ p.session \in S
             \/ q = p /\ \A s \in S : p \notin HeldBy(s)
    BY <1>1, <1>6 DEF StoppedAs
  <2>2. /\ p \in ProcessFields /\ Accounted(p)
        /\ q \in ProcessFields /\ q.session = p.session /\ q.alive = p.alive
    BY <2>1 DEF SupervisorInv, Fields, Twin
  <2>3. session'[q.session].device # NoDevice
    BY <1>4, <2>2 DEF Accounted, ProcessFields
  <2>4. Vouched(q)'
    <3>1. CASE q.escalation = KillEscalation /\ p.session \in S
      BY <3>1, Ticks DEF Vouched, Off
    <3>2. CASE q = p /\ p.session \notin S
      BY <1>3, <2>2, <3>2 DEF Accounted, Vouched, Active, Current, ProcessFields
    <3>3. CASE q = p /\ p.session \in S /\ \A s \in S : p \notin HeldBy(s)
      BY <2>2, <3>3 DEF Accounted, Vouched, HeldBy
    <3> QED
      BY <2>1, <3>1, <3>2, <3>3
  <2>5. DoomedBeforePort(q)'
    <3>1. Port(q)' = Port(p)
      BY <1>4, <2>2 DEF Port, ProcessFields
    <3>2. CASE p.session \in S
      <4> SUFFICES ASSUME q.alive PROVE DoomedBeforePort(q)'
        BY DEF DoomedBeforePort
      <4>1. ~Active(q.session)' /\ q.session \in Sessions
        BY <1>4, <2>2, <3>2 DEF ProcessFields
      <4>2. q.escalation # Off
        BY <2>4, <4>1 DEF Vouched
      <4>3. q.escalation < PortCooldown
        BY <2>2, <4>2, Ticks DEF ProcessFields
      <4>4. timer(p.session) \in cooling' /\ timer(p.session).port = Port(p)
            /\ timer(p.session).left = PortCooldown
        BY <1>2, <3>2 DEF Port
      <4> HIDE DEF timer
      <4> QED
        BY <3>1, <4>2, <4>3, <4>4 DEF DoomedBeforePort
    <3>3. CASE p.session \notin S
      <4>1. q = p /\ (Active(p.session)' <=> Active(p.session))
        BY <1>4, <2>1, <2>2, <3>3 DEF ProcessFields
      <4> HIDE DEF timer
      <4> QED
        BY <1>2, <2>2, <3>1, <4>1 DEF Accounted, DoomedBeforePort
    <3> QED
      BY <3>2, <3>3
  <2> QED
    BY <2>3, <2>4, <2>5 DEF Accounted
<1>7. cooling' \subseteq [port : Nat, left : 0..PortCooldown]
  <2>1. ASSUME NEW s \in S PROVE timer(s) \in [port : Nat, left : 0..PortCooldown]
    BY Ticks DEF SupervisorInv, Fields, SessionFields
  <2> HIDE DEF timer
  <2> QED
    BY <1>2, <2>1 DEF SupervisorInv, Fields
<1>8. OneUseOfPort'
  <2> DEFINE released == {session[s].port : s \in S}
  <2>1. \A s \in S : timer(s).port = session[s].port
    OBVIOUS
  <2>2. Cooling' = Cooling \union released /\ InPool' = InPool
    <3>1. InPool' = InPool
      BY DEF InPool
    <3>2. Cooling' = Cooling \union released
      <4> HIDE DEF timer
      <4> QED
        BY <1>2, <2>1 DEF Cooling
    <3> QED
      BY <3>1, <3>2
  <2>3. \A s \in S : /\ session[s].port < nextPort
                     /\ session[s].port \notin InPool \union Cooling
    BY DEF SupervisorInv, OneUseOfPort
  <2>4. \A s \in Sessions : Active(s)' =>
          session'[s].port < nextPort' /\ session'[s].port \notin (InPool \union Cooling)'
    <3> SUFFICES ASSUME NEW s \in Sessions, Active(s)'
                 PROVE  /\ session'[s].port < nextPort
                        /\ session'[s].port \notin InPool \union Cooling \union released
      BY <2>2
    <3>1. Active(s) /\ s \notin S /\ session'[s].port = session[s].port
      BY <1>4
    <3>2. session[s].port \notin released
      BY <3>1 DEF SupervisorInv, OneUseOfPort
    <3> QED
      BY <3>1, <3>2 DEF SupervisorInv, OneUseOfPort
  <2>5. ASSUME NEW c \in cooling', NEW e \in cooling', c.port = e.port PROVE c = e
    <3>1. CASE c \in cooling /\ e \in cooling
      BY <2>5, <3>1 DEF SupervisorInv, OneUseOfPort
    <3>2. CASE c \in cooling /\ e \in {timer(s) : s \in S}
      BY <2>3, <2>5, <3>2 DEF Cooling
    <3>3. CASE e \in cooling /\ c \in {timer(s) : s \in S}
      BY <2>3, <2>5, <3>3 DEF Cooling
    <3>4. CASE c \in {timer(s) : s \in S} /\ e \in {timer(s) : s \in S}
      BY <2>5, <3>4
    <3> QED
      BY <1>2, <3>1, <3>2, <3>3, <3>4
  <2>6. \A s, t \in Sessions :
          Active(s)' /\ Active(t)' /\ session'[s].port = session'[t].port => s = t
    BY <1>4 DEF SupervisorInv, OneUseOfPort
  <2>7. (InPool \intersect Cooling)' = {} /\ \A port \in (InPool \union Cooling)' : port < nextPort'
    <3> HIDE DEF released
    <3>1. \A port \in released : port < nextPort /\ port \notin InPool
      BY <2>3 DEF released
    <3> QED
      BY <2>2, <3>1 DEF SupervisorInv, OneUseOfPort
  <2>8. \A i, j \in 1..Len(freePorts') : freePorts'[i] = freePorts'[j] => i = j
    BY DEF SupervisorInv, OneUseOfPort
  <2> QED
    BY <2>4, <2>5, <2>6, <2>7, <2>8 DEF OneUseOfPort
<1> QED
  BY <1>3, <1>4, <1>5, <1>6, <1>7, <1>8 DEF SessionsInv

(* Steps by which processes only fade: nobody comes to life or loses the kill
   that is on its way, and the sessions stay as they are. *)
LEMMA FadingKeeps ==
  ASSUME SupervisorInv, session' = session, cooling' = cooling,
         \A q \in procs' : \E p \in procs :
           /\ q \in ProcessFields
           /\ q.session = p.session /\ q.generation = p.generation /\ q.kind = p.kind
           /\ q.escalation = p.escalation /\ (q.alive => p.alive)
  PROVE  SessionsInv'
<1>1. \A s \in Sessions : HeldOrNot(s)'
  BY DEF SupervisorInv, HeldOrNot, Active
<1>2. ASSUME NEW q \in procs' PROVE Accounted(q)'
  <2>1. PICK p \in procs :
          /\ q.session = p.session /\ q.generation = p.generation /\ q.kind = p.kind
          /\ q.escalation = p.escalation /\ (q.alive => p.alive)
    BY <1>2
  <2> QED
    BY <2>1 DEF SupervisorInv, Accounted, Vouched, DoomedBeforePort, Active, Current, Port
<1> QED
  BY <1>1, <1>2 DEF SupervisorInv, Fields, SessionsInv

(* Counts and ages are nobody's business here. *)
LEMMA CountingKeeps ==
  ASSUME SupervisorInv, NEW s \in Sessions, NEW x \in SessionFields,
         session' = [session EXCEPT ![s] = x], procs' = procs, cooling' = cooling,
         x.device = session[s].device, x.port = session[s].port, x.held = session[s].held,
         x.polling = session[s].polling, x.restartTimer = session[s].restartTimer,
         x.isStopping = session[s].isStopping, x.generation = session[s].generation,
         x.isReady => session[s].held # {}
  PROVE  /\ SessionsInv'
         /\ \A t \in Sessions :
              session'[t].port = session[t].port /\ (Active(t)' <=> Active(t))
<1>1. /\ session' \in [Sessions -> SessionFields] /\ session'[s] = x
      /\ \A t \in Sessions : t # s => session'[t] = session[t]
  BY DEF SupervisorInv, Fields
<1>2. \A t \in Sessions :
        /\ session'[t].port = session[t].port /\ (Active(t)' <=> Active(t))
        /\ session'[t].device = session[t].device /\ session'[t].held = session[t].held
        /\ session'[t].generation = session[t].generation
  BY <1>1 DEF Active
<1>3. \A t \in Sessions : HeldOrNot(t)'
  BY <1>1, <1>2 DEF SupervisorInv, HeldOrNot
<1>4. ASSUME NEW p \in procs PROVE Accounted(p)'
  <2>1. Accounted(p) /\ p.session \in Sessions
    BY DEF SupervisorInv, Fields, ProcessFields
  <2> QED
    BY <1>2, <2>1 DEF Accounted, Vouched, DoomedBeforePort, Current, Port
<1> QED
  BY <1>1, <1>2, <1>3, <1>4 DEF SupervisorInv, Fields, SessionsInv

LEMMA PortsKept ==
  ASSUME OneUseOfPort, UNCHANGED <<nextPort, freePorts, cooling>>,
         \A t \in Sessions : session'[t].port = session[t].port /\ (Active(t)' <=> Active(t))
  PROVE  OneUseOfPort'
BY DEF OneUseOfPort, InPool, Cooling

-------------------------------------------------------------------------------
(* The fields of a session before its first launch. *)
Fresh(d, port) == [NoSession EXCEPT !.device = d, !.port = port]

LEMMA FreshFields ==
  ASSUME NEW d \in Devices, NEW port \in 1..MaxSessions
  PROVE  /\ Fresh(d, port) \in SessionFields /\ Fresh(d, port).device \in Devices
         /\ ~Fresh(d, port).isStopping /\ Fresh(d, port).port = port /\ port \in Nat
<1>1. NoSession \in SessionFields /\ ~NoSession.isStopping
  BY Ticks DEF NoSession, SessionFields, Off
<1>2. port \in Nat
  BY Ticks
<1> QED
  BY <1>1, <1>2 DEF SessionFields, Fresh

(* One lemma per action. *)
LEMMA StartSessionKeeps ==
  ASSUME SupervisorInv, NEW d \in Devices, StartSession(d) PROVE SupervisorInv'
<1>1. PICK s \in Sessions, port \in 1..MaxSessions, spawned \in Spawnable :
        /\ session[s].device = NoDevice
        /\ Allocate(port)
        /\ Launch(s, Fresh(d, port), spawned)
  BY DEF StartSession, Fresh
<1> DEFINE r == Fresh(d, port)
<1>2. /\ r \in SessionFields /\ r.device \in Devices /\ ~r.isStopping /\ r.port = port
      /\ port \in Nat
  BY FreshFields
<1>3. session[s].held = {} /\ ~Active(s)
  BY <1>1 DEF SupervisorInv, HeldOrNot, Active
<1>4. UNCHANGED <<polls, cooling>>
  BY DEF StartSession
<1> HIDE DEF r
<1>5. /\ SessionsInv'
      /\ \A t \in Sessions : t # s => session'[t] = session[t]
      /\ session'[s].port = port /\ Active(s)'
  BY <1>1, <1>2, <1>3, <1>4, LaunchKeeps DEF r
<1>6. \A t \in Sessions : Active(t)' => t = s \/ (Active(t) /\ session'[t].port = session[t].port)
  BY <1>5 DEF Active
<1>7. CASE freePorts # <<>>
  <2>1. port = Head(freePorts) /\ freePorts' = Tail(freePorts) /\ nextPort' = nextPort
    BY <1>1, <1>7 DEF Allocate, Shifted
  <2>2. /\ freePorts \in Seq(Nat) /\ Len(freePorts) \in Nat /\ Len(freePorts) # 0
        /\ freePorts' \in Seq(Nat) /\ Len(freePorts') = Len(freePorts) - 1
        /\ \A i \in 1..Len(freePorts') : freePorts'[i] = freePorts[i + 1]
        /\ port = freePorts[1]
    <3>1. freePorts \in Seq(Nat)
      BY DEF SupervisorInv, Fields
    <3>2. Len(freePorts) \in Nat \ {0}
      BY <1>7, <3>1, EmptySeq
    <3>3. /\ freePorts' \in Seq(Nat) /\ Len(freePorts') = Len(freePorts) - 1
          /\ \A i \in 1..Len(freePorts') : freePorts'[i] = freePorts[i + 1]
      BY <1>7, <2>1, <3>1, HeadTailProperties
    <3>4. port = freePorts[1]
      BY <1>7, <2>1, <3>1
    <3> QED
      BY <3>1, <3>2, <3>3, <3>4
  <2>3. /\ port \in InPool /\ port \notin Cooling /\ port < nextPort
        /\ InPool' \subseteq InPool /\ port \notin InPool'
    BY <2>2 DEF InPool, SupervisorInv, OneUseOfPort
  <2>4. OneUseOfPort'
    <3>1. Cooling' = Cooling
      BY <1>4 DEF Cooling
    <3>2. ASSUME NEW i \in 1..Len(freePorts'), NEW j \in 1..Len(freePorts'),
                 freePorts'[i] = freePorts'[j]
          PROVE  i = j
      <4>1. i + 1 \in 1..Len(freePorts) /\ j + 1 \in 1..Len(freePorts)
        BY <2>2
      <4>2. freePorts[i + 1] = freePorts[j + 1]
        BY <2>2, <3>2
      <4>3. i + 1 = j + 1
        BY <4>1, <4>2 DEF SupervisorInv, OneUseOfPort
      <4> QED
        BY <4>3
    <3>3. \A t \in Sessions : Active(t) => session[t].port # port
      BY <2>3 DEF SupervisorInv, OneUseOfPort
    <3>4. \A t \in Sessions : Active(t)' =>
            /\ session'[t].port < nextPort
            /\ session'[t].port \notin InPool' \union Cooling
      BY <1>5, <1>6, <2>3 DEF SupervisorInv, OneUseOfPort
    <3>5. \A t, u \in Sessions :
            Active(t)' /\ Active(u)' /\ session'[t].port = session'[u].port => t = u
      BY <1>5, <1>6, <3>3 DEF SupervisorInv, OneUseOfPort
    <3>6. /\ \A c, e \in cooling' : c.port = e.port => c = e
          /\ InPool' \intersect Cooling = {}
          /\ \A q \in InPool' \union Cooling : q < nextPort
      BY <1>4, <2>3 DEF SupervisorInv, OneUseOfPort
    <3> QED
      BY <2>1, <3>1, <3>2, <3>4, <3>5, <3>6 DEF OneUseOfPort
  <2> QED
    BY <1>4, <1>5, <2>1, <2>2, <2>4 DEF SupervisorInv, SessionsInv, Fields
<1>8. CASE freePorts = <<>>
  <2>1. port = nextPort /\ nextPort' = nextPort + 1 /\ freePorts' = freePorts
    BY <1>1, <1>8 DEF Allocate
  <2>2. nextPort \in Nat /\ nextPort < nextPort'
    BY <2>1 DEF SupervisorInv, Fields
  <2>3. InPool' = InPool /\ Cooling' = Cooling
    BY <1>4, <2>1 DEF InPool, Cooling
  <2>4. \A q \in InPool \union Cooling : q < nextPort
    BY DEF SupervisorInv, OneUseOfPort
  <2>5. \A t \in Sessions : Active(t) =>
          session[t].port < nextPort /\ session[t].port \in Nat
    BY DEF SupervisorInv, OneUseOfPort, Fields, SessionFields
  <2>6. InPool \subseteq Nat /\ Cooling \subseteq Nat
    BY DEF InPool, Cooling, SupervisorInv, Fields
  <2>7. OneUseOfPort'
    <3>1. \A t \in Sessions : Active(t)' =>
            /\ session'[t].port < nextPort'
            /\ session'[t].port \notin InPool \union Cooling
      BY <1>5, <1>6, <2>1, <2>2, <2>4, <2>5, <2>6 DEF SupervisorInv, OneUseOfPort
    <3>2. \A t, u \in Sessions :
            Active(t)' /\ Active(u)' /\ session'[t].port = session'[u].port => t = u
      BY <1>5, <1>6, <2>1, <2>2, <2>5 DEF SupervisorInv, OneUseOfPort
    <3>3. \A q \in InPool \union Cooling : q < nextPort'
      BY <2>1, <2>2, <2>4, <2>6
    <3> QED
      BY <1>4, <2>1, <2>3, <3>1, <3>2, <3>3 DEF SupervisorInv, OneUseOfPort
  <2> QED
    BY <1>4, <1>5, <2>1, <2>2, <2>7 DEF SupervisorInv, SessionsInv, Fields
<1> QED
  BY <1>7, <1>8

LEMMA RestartFiresKeeps ==
  ASSUME SupervisorInv, NEW s \in Sessions, RestartFires(s) PROVE SupervisorInv'
<1>1. PICK spawned \in Spawnable : Launch(s, session[s], spawned)
  BY DEF RestartFires
<1>2. /\ session[s] \in SessionFields /\ session[s].restartTimer # Off
      /\ UNCHANGED <<polls, nextPort, freePorts, cooling>>
  BY DEF RestartFires, SupervisorInv, Fields, Off
<1>3. Active(s) /\ session[s].held = {}
  BY <1>2 DEF SupervisorInv, HeldOrNot
<1>4. session[s].device \in Devices /\ ~session[s].isStopping
  BY <1>2, <1>3 DEF Active, SessionFields
<1>5. /\ SessionsInv'
      /\ \A t \in Sessions : t # s => session'[t] = session[t]
      /\ session'[s].port = session[s].port /\ Active(s)'
  BY <1>1, <1>2, <1>3, <1>4, LaunchKeeps
<1>6. \A t \in Sessions : session'[t].port = session[t].port /\ (Active(t)' <=> Active(t))
  BY <1>3, <1>5 DEF Active
<1>7. OneUseOfPort'
  BY <1>2, <1>6, PortsKept DEF SupervisorInv
<1> QED
  BY <1>2, <1>5, <1>7 DEF SupervisorInv, SessionsInv, Fields

LEMMA StopSessionKeeps ==
  ASSUME SupervisorInv, NEW d \in Devices, StopSession(d) PROVE SupervisorInv'
<1>1. PICK s \in Sessions : Active(s) /\ Stop({s})
  BY DEF StopSession
<1>2. UNCHANGED <<polls, nextPort, freePorts>>
  BY DEF StopSession
<1>3. /\ SessionsInv' /\ OneUseOfPort'
      /\ cooling' \subseteq [port : Nat, left : 0..PortCooldown]
  BY <1>1, <1>2, StopKeeps
<1> QED
  BY <1>2, <1>3 DEF SupervisorInv, SessionsInv, Fields

LEMMA ShutdownKeeps ==
  ASSUME SupervisorInv, Shutdown PROVE SupervisorInv'
<1>1. Stop({s \in Sessions : Active(s)}) /\ UNCHANGED <<polls, nextPort, freePorts>>
  BY DEF Shutdown
<1>2. /\ SessionsInv' /\ OneUseOfPort'
      /\ cooling' \subseteq [port : Nat, left : 0..PortCooldown]
  BY <1>1, StopKeeps
<1> QED
  BY <1>1, <1>2 DEF SupervisorInv, SessionsInv, Fields

LEMMA PortReturnsKeeps ==
  ASSUME SupervisorInv, PortReturns PROVE SupervisorInv'
<1>1. PICK c \in cooling : /\ c.left = 0
                           /\ freePorts' = Append(freePorts, c.port)
                           /\ cooling' = cooling \ {c}
  BY DEF PortReturns
<1>2. UNCHANGED <<session, procs, polls, nextPort>>
  BY DEF PortReturns
<1>3. /\ freePorts \in Seq(Nat) /\ c.port \in Nat /\ Len(freePorts) \in Nat
      /\ cooling \subseteq [port : Nat, left : 0..PortCooldown]
  BY LenProperties DEF SupervisorInv, Fields
<1>4. /\ freePorts' \in Seq(Nat) /\ Len(freePorts') = Len(freePorts) + 1
      /\ \A i \in 1..Len(freePorts) : freePorts'[i] = freePorts[i]
      /\ freePorts'[Len(freePorts) + 1] = c.port
  BY <1>1, <1>3, AppendProperties
<1>5. \A s \in Sessions : HeldOrNot(s)'
  BY <1>2 DEF SupervisorInv, HeldOrNot, Active
<1>6. ASSUME NEW p \in procs PROVE Accounted(p)'
  <2>1. Accounted(p) /\ p \in ProcessFields
    BY DEF SupervisorInv, Fields
  <2>2. DoomedBeforePort(p)'
    <3>1. CASE p.alive /\ ~Active(p.session)
      <4>1. PICK e \in cooling : e.port = Port(p) /\ p.escalation # Off /\ p.escalation < e.left
        BY <2>1, <3>1 DEF Accounted, DoomedBeforePort
      <4>2. e # c
        BY <1>1, <1>3, <2>1, <4>1 DEF ProcessFields
      <4> QED
        BY <1>1, <1>2, <4>1, <4>2 DEF DoomedBeforePort, Port
    <3>2. CASE ~p.alive \/ Active(p.session)
      BY <1>2, <3>2 DEF DoomedBeforePort, Active
    <3> QED
      BY <3>1, <3>2
  <2> QED
    BY <1>2, <2>1, <2>2 DEF Accounted, Vouched, Active, Current
<1>7. OneUseOfPort'
  <2>1. InPool' = InPool \union {c.port}
    <3>1. \A i \in 1..Len(freePorts') :
            IF i = Len(freePorts) + 1 THEN freePorts'[i] = c.port
            ELSE i \in 1..Len(freePorts) /\ freePorts'[i] = freePorts[i]
      BY <1>3, <1>4
    <3>2. /\ \A i \in 1..Len(freePorts) : i \in 1..Len(freePorts')
          /\ Len(freePorts) + 1 \in 1..Len(freePorts')
      BY <1>3, <1>4
    <3>3. ASSUME NEW v \in InPool' PROVE v \in InPool \union {c.port}
      BY <3>1, <3>3 DEF InPool
    <3>4. ASSUME NEW v \in InPool \union {c.port} PROVE v \in InPool'
      BY <1>4, <3>2, <3>4 DEF InPool
    <3> QED
      BY <3>3, <3>4
  <2>2. Cooling' = Cooling \ {c.port}
    BY <1>1 DEF Cooling, SupervisorInv, OneUseOfPort
  <2>3. c.port \in Cooling /\ c.port \notin InPool
    BY DEF Cooling, SupervisorInv, OneUseOfPort
  <2>4. \A i \in 1..Len(freePorts) : freePorts[i] # c.port
    BY <2>3 DEF InPool
  <2>5. ASSUME NEW i \in 1..Len(freePorts'), NEW j \in 1..Len(freePorts'),
               freePorts'[i] = freePorts'[j]
        PROVE  i = j
    <3>1. \A k \in 1..Len(freePorts') :
            k = Len(freePorts) + 1 \/ (k \in 1..Len(freePorts) /\ freePorts'[k] = freePorts[k])
      BY <1>3, <1>4
    <3>2. CASE i \in 1..Len(freePorts) /\ j \in 1..Len(freePorts)
      BY <1>4, <2>5, <3>2 DEF SupervisorInv, OneUseOfPort
    <3>3. CASE ~(i \in 1..Len(freePorts) /\ j \in 1..Len(freePorts))
      BY <1>4, <2>4, <2>5, <3>1, <3>3
    <3> QED
      BY <3>2, <3>3
  <2>6. \A e, f \in cooling' : e.port = f.port => e = f
    BY <1>1 DEF SupervisorInv, OneUseOfPort
  <2>7. \A s \in Sessions : Active(s)' =>
          session'[s].port < nextPort' /\ session'[s].port \notin (InPool \union Cooling)'
    BY <1>2, <2>1, <2>2, <2>3 DEF SupervisorInv, OneUseOfPort, Active
  <2>8. \A s, t \in Sessions :
          Active(s)' /\ Active(t)' /\ session'[s].port = session'[t].port => s = t
    BY <1>2 DEF SupervisorInv, OneUseOfPort, Active
  <2>9. (InPool \intersect Cooling)' = {} /\ \A port \in (InPool \union Cooling)' : port < nextPort'
    BY <1>2, <2>1, <2>2, <2>3 DEF SupervisorInv, OneUseOfPort
  <2> QED
    BY <2>5, <2>6, <2>7, <2>8, <2>9 DEF OneUseOfPort
<1> QED
  BY <1>1, <1>2, <1>3, <1>4, <1>5, <1>6, <1>7 DEF SupervisorInv, Fields

LEMMA PollStartsKeeps ==
  ASSUME SupervisorInv, NEW s \in Sessions, PollStarts(s) PROVE SupervisorInv'
<1>1. UNCHANGED <<session, procs, nextPort, freePorts, cooling>>
  BY DEF PollStarts
<1>2. polls' \subseteq [session : Sessions, generation : Nat]
  BY DEF PollStarts, SupervisorInv, Fields, SessionFields
<1>3. /\ \A t \in Sessions : HeldOrNot(t)'
      /\ \A p \in procs : Accounted(p)'
  BY <1>1 DEF SupervisorInv, HeldOrNot, Active, Accounted, Vouched, DoomedBeforePort, Current, Port
<1>4. OneUseOfPort'
  BY <1>1, PortsKept DEF SupervisorInv, Active
<1> QED
  BY <1>1, <1>2, <1>3, <1>4 DEF SupervisorInv, Fields

LEMMA HealthyFields ==
  ASSUME NEW r \in SessionFields
  PROVE  /\ Healthy(r) \in SessionFields
         /\ Healthy(r).device = r.device /\ Healthy(r).port = r.port /\ Healthy(r).held = r.held
         /\ Healthy(r).polling = r.polling /\ Healthy(r).restartTimer = r.restartTimer
         /\ Healthy(r).isStopping = r.isStopping /\ Healthy(r).generation = r.generation
<1>1. 0 \in Nat /\ 0 \in 0..MaxAttempt
  BY Ticks
<1> DEFINE zero == 0
<1>2. Healthy(r) = [r EXCEPT !.isReady = TRUE, !.healthFailCount = zero, !.restartAttempt = zero]
  BY DEF Healthy
<1>3. zero \in Nat /\ zero \in 0..MaxAttempt
  BY <1>1
<1> HIDE DEF zero
<1> QED
  BY <1>2, <1>3 DEF SessionFields

(* An answer that is not outdated finds the session with both processes. *)
LEMMA TimelyAnswer ==
  ASSUME SupervisorInv, NEW q \in polls, ~Outdated(q)
  PROVE  /\ q.session \in Sessions /\ session[q.session] \in SessionFields
         /\ session[q.session].held = Kinds /\ Active(q.session)
         /\ ~session[q.session].isStopping /\ session[q.session].restartTimer = Off
BY DEF SupervisorInv, Fields, Outdated, HeldOrNot

LEMMA PollAnswersKeeps ==
  ASSUME SupervisorInv, NEW q \in polls, NEW healthy \in BOOLEAN, PollAnswers(q, healthy)
  PROVE  SupervisorInv'
<1> DEFINE s == q.session
           r == session[s]
           failed == [r EXCEPT !.healthFailCount = Saturated(@ + 1, HealthFailThreshold)]
<1>1. UNCHANGED <<nextPort, freePorts, cooling>> /\ polls' = polls \ {q}
  BY DEF PollAnswers
<1>2. SUFFICES SessionsInv' /\ OneUseOfPort'
  BY <1>1 DEF SupervisorInv, SessionsInv, Fields
<1>3. CASE Outdated(q)
  <2>1. UNCHANGED <<session, procs>>
    BY <1>3 DEF PollAnswers
  <2>2. \A t \in Sessions : session'[t].port = session[t].port /\ (Active(t)' <=> Active(t))
    BY <2>1 DEF Active
  <2>3. OneUseOfPort'
    BY <1>1, <2>2, PortsKept DEF SupervisorInv
  <2>4. SessionsInv'
    BY <1>1, <2>1 DEF SupervisorInv, Fields, SessionsInv, HeldOrNot, Active, Accounted, Vouched,
                      DoomedBeforePort, Current, Port
  <2> QED
    BY <2>3, <2>4
<1>4. CASE ~Outdated(q)
  <2>1. /\ s \in Sessions /\ r \in SessionFields /\ r.held = Kinds /\ Active(s)
        /\ ~r.isStopping /\ r.restartTimer = Off
    BY <1>4, TimelyAnswer
  <2>2. Kinds # {}
    BY DEF Kinds
  <2>3. /\ failed \in SessionFields
        /\ failed.device = r.device /\ failed.port = r.port /\ failed.held = r.held
        /\ failed.polling = r.polling /\ failed.restartTimer = r.restartTimer
        /\ failed.isStopping = r.isStopping /\ failed.generation = r.generation
    BY <2>1, Ticks DEF SessionFields, Saturated
  <2>4. /\ Healthy(r) \in SessionFields
        /\ Healthy(r).device = r.device /\ Healthy(r).port = r.port /\ Healthy(r).held = r.held
        /\ Healthy(r).polling = r.polling /\ Healthy(r).restartTimer = r.restartTimer
        /\ Healthy(r).isStopping = r.isStopping /\ Healthy(r).generation = r.generation
    BY <2>1, HealthyFields
  <2>5. CASE healthy
    <3>1. session' = [session EXCEPT ![s] = Healthy(r)] /\ procs' = procs
      BY <1>4, <2>5 DEF PollAnswers
    <3> HIDE DEF s
    <3> QED
      BY <1>1, <2>1, <2>2, <2>4, <3>1, CountingKeeps, PortsKept DEF SupervisorInv
  <2>6. CASE ~healthy /\ ~Hopeless(failed)
    <3>1. session' = [session EXCEPT ![s] = failed] /\ procs' = procs
      BY <1>4, <2>6 DEF PollAnswers
    <3> HIDE DEF s, failed
    <3> QED
      BY <1>1, <2>1, <2>2, <2>3, <3>1, CountingKeeps, PortsKept DEF SupervisorInv
  <2>7. CASE ~healthy /\ Hopeless(failed)
    <3>1. ScheduleRestart(s, failed, procs)
      BY <1>4, <2>7 DEF PollAnswers
    <3> HIDE DEF s, failed
    <3> QED
      BY <1>1, <2>1, <2>3, <3>1, RestartKeeps, PortsKept DEF SupervisorInv
  <2> QED
    BY <2>5, <2>6, <2>7
<1> QED
  BY <1>3, <1>4

(* What fades leaves the pool of ports alone. *)
LEMMA FadingInv ==
  ASSUME SupervisorInv, UNCHANGED <<session, polls, nextPort, freePorts, cooling>>,
         \A q \in procs' : \E p \in procs :
           /\ q \in ProcessFields
           /\ q.session = p.session /\ q.generation = p.generation /\ q.kind = p.kind
           /\ q.escalation = p.escalation /\ (q.alive => p.alive)
  PROVE  SupervisorInv'
<1>1. SessionsInv'
  BY FadingKeeps
<1>2. OneUseOfPort'
  BY PortsKept DEF SupervisorInv, Active
<1> QED
  BY <1>1, <1>2 DEF SupervisorInv, SessionsInv, Fields

LEMMA DyingKeeps ==
  ASSUME SupervisorInv, NEW p \in procs,
         procs' = (procs \ {p}) \union {[p EXCEPT !.alive = FALSE]},
         UNCHANGED <<session, polls, nextPort, freePorts, cooling>>
  PROVE  SupervisorInv'
BY FadingInv DEF SupervisorInv, Fields, ProcessFields

LEMMA ChildrenAreGoneKeeps ==
  ASSUME SupervisorInv, ChildrenAreGone PROVE SupervisorInv'
<1>1. /\ procs' = {[p EXCEPT !.alive = @ /\ p.escalation = Off] : p \in procs}
      /\ UNCHANGED <<session, polls, nextPort, freePorts, cooling>>
  BY DEF ChildrenAreGone
<1> DEFINE survives(p) == p.alive /\ p.escalation = Off
<1>2. procs' = {[p EXCEPT !.alive = survives(p)] : p \in procs}
  BY <1>1
<1>3. \A p \in procs : survives(p) \in BOOLEAN /\ (survives(p) => p.alive)
  OBVIOUS
<1> HIDE DEF survives
<1>4. ASSUME NEW q \in procs'
      PROVE  \E p \in procs :
               /\ q \in ProcessFields
               /\ q.session = p.session /\ q.generation = p.generation /\ q.kind = p.kind
               /\ q.escalation = p.escalation /\ (q.alive => p.alive)
  BY <1>2, <1>3 DEF SupervisorInv, Fields, ProcessFields
<1> QED
  BY <1>1, <1>4, FadingInv

LEMMA ExitEventKeeps ==
  ASSUME SupervisorInv, NEW p \in procs, ExitEvent(p) PROVE SupervisorInv'
<1> DEFINE s == p.session
<1>1. UNCHANGED <<polls, nextPort, freePorts, cooling>>
  BY DEF ExitEvent
<1>2. s \in Sessions /\ session[s] \in SessionFields
  BY DEF SupervisorInv, Fields, ProcessFields
<1>3. CASE Matters(p) /\ session[s].restartTimer = Off
  <2>1. ScheduleRestart(s, session[s], procs \ {p})
    BY <1>3 DEF ExitEvent
  <2>2. Active(s) /\ ~session[s].isStopping
    BY <1>2, <1>3 DEF Matters, Active, SupervisorInv, Accounted
  <2>3. /\ SessionsInv'
        /\ \A t \in Sessions : session'[t].port = session[t].port /\ Active(t)' = Active(t)
    <3> HIDE DEF s
    <3> QED
      BY <1>1, <1>2, <1>3, <2>1, <2>2, RestartKeeps
  <2>4. OneUseOfPort'
    BY <1>1, <2>3, PortsKept DEF SupervisorInv
  <2> QED
    BY <1>1, <2>3, <2>4 DEF SupervisorInv, SessionsInv, Fields
<1>4. CASE ~(Matters(p) /\ session[s].restartTimer = Off)
  <2>1. procs' = procs \ {p} /\ session' = session
    BY <1>2, <1>4 DEF ExitEvent, ScheduleRestart, SupervisorInv, Fields
  <2> QED
    BY <1>1, <2>1, FadingInv DEF SupervisorInv, Fields
<1> QED
  BY <1>3, <1>4

LEMMA TickKeeps ==
  ASSUME SupervisorInv, Tick PROVE SupervisorInv'
<1> DEFINE down(n) == IF n > 0 THEN n - 1 ELSE n
           aged(s) == IF Active(s) THEN Saturated(session[s].age + 1, ReadyDeadline)
                      ELSE session[s].age
           session1(s) == [session[s] EXCEPT !.restartTimer = down(@), !.age = aged(s)]
           later(p) == [p EXCEPT !.escalation = down(@)]
           colder(c) == [c EXCEPT !.left = @ - 1]
<1>1. /\ session' = [s \in Sessions |-> session1(s)]
      /\ procs' = {later(p) : p \in procs}
      /\ cooling' = {colder(c) : c \in cooling}
      /\ UNCHANGED <<polls, nextPort, freePorts>>
      /\ \A p \in procs : p.alive => p.escalation # 0
      /\ \A c \in cooling : c.left > 0
  BY DEF Tick
<1>2. ASSUME NEW s \in Sessions
      PROVE  /\ session1(s) \in SessionFields
             /\ session1(s).device = session[s].device /\ session1(s).port = session[s].port
             /\ session1(s).held = session[s].held /\ session1(s).isReady = session[s].isReady
             /\ session1(s).polling = session[s].polling
             /\ session1(s).isStopping = session[s].isStopping
             /\ session1(s).generation = session[s].generation
             /\ session1(s).restartTimer = Off <=> session[s].restartTimer = Off
  <2>1. session[s] \in SessionFields
    BY DEF SupervisorInv, Fields
  <2>2. session[s].age \in Nat /\ session[s].restartTimer \in {Off} \union Nat
    BY <2>1 DEF SessionFields
  <2>3. aged(s) \in Nat
    BY <2>2, Ticks DEF Saturated
  <2>4. /\ down(session[s].restartTimer) \in {Off} \union Nat
        /\ down(session[s].restartTimer) = Off <=> session[s].restartTimer = Off
    BY <2>2 DEF Off
  <2> HIDE DEF aged, down
  <2> QED
    BY <2>1, <2>3, <2>4 DEF SessionFields
<1>3. ASSUME NEW p \in procs
      PROVE  /\ later(p) \in ProcessFields
             /\ later(p).session = p.session /\ later(p).generation = p.generation
             /\ later(p).kind = p.kind /\ later(p).alive = p.alive
             /\ later(p).escalation = Off <=> p.escalation = Off
             /\ p.alive /\ p.escalation # Off => later(p).escalation = p.escalation - 1
  <2>1. p \in ProcessFields
    BY DEF SupervisorInv, Fields
  <2>2. /\ down(p.escalation) \in {Off} \union 0..KillEscalation
        /\ down(p.escalation) = Off <=> p.escalation = Off
        /\ p.alive /\ p.escalation # Off => down(p.escalation) = p.escalation - 1
    <3>1. p.escalation \in {Off} \union 0..KillEscalation /\ (p.alive => p.escalation # 0)
      BY <1>1, <2>1 DEF ProcessFields
    <3> QED
      BY <3>1, Ticks DEF Off
  <2> HIDE DEF down
  <2> QED
    BY <2>1, <2>2 DEF ProcessFields
<1>4. ASSUME NEW c \in cooling
      PROVE  /\ colder(c) \in [port : Nat, left : 0..PortCooldown]
             /\ colder(c).port = c.port /\ colder(c).left = c.left - 1
             /\ c.left \in Nat
  <2>1. c \in [port : Nat, left : 0..PortCooldown] /\ c.left > 0
    BY <1>1 DEF SupervisorInv, Fields
  <2> QED
    BY <2>1, Ticks
<1> HIDE DEF session1, later, colder
<1>5. \A s \in Sessions :
        /\ session'[s] = session1(s)
        /\ session'[s].port = session[s].port /\ (Active(s)' <=> Active(s))
  BY <1>1, <1>2 DEF Active
<1>6. \A s \in Sessions : HeldOrNot(s)'
  BY <1>2, <1>5 DEF SupervisorInv, HeldOrNot
<1>7. ASSUME NEW q \in procs' PROVE Accounted(q)'
  <2>1. PICK p \in procs : q = later(p)
    BY <1>1, <1>7
  <2>2. Accounted(p) /\ p \in ProcessFields
    BY DEF SupervisorInv, Fields
  <2>3. /\ q.session \in Sessions /\ q.session = p.session /\ (q.alive <=> p.alive)
        /\ q.generation = p.generation /\ q.kind = p.kind /\ (q.escalation = Off <=> p.escalation = Off)
    BY <1>3, <2>1, <2>2 DEF ProcessFields
  <2>4. Vouched(q)' /\ session'[q.session].device # NoDevice
    BY <1>2, <1>5, <2>2, <2>3 DEF Accounted, Vouched, Current
  <2>5. DoomedBeforePort(q)'
    <3>1. CASE p.alive /\ ~Active(p.session)
      <4>1. PICK c \in cooling : c.port = Port(p) /\ p.escalation # Off /\ p.escalation < c.left
        BY <2>2, <3>1 DEF Accounted, DoomedBeforePort
      <4>2. colder(c) \in cooling' /\ colder(c).port = Port(q)'
        BY <1>1, <1>4, <1>5, <2>3, <4>1 DEF Port
      <4>3. q.escalation # Off /\ q.escalation < colder(c).left
        BY <1>3, <1>4, <2>1, <2>2, <3>1, <4>1 DEF ProcessFields, Off
      <4> QED
        BY <4>2, <4>3 DEF DoomedBeforePort
    <3>2. CASE ~p.alive \/ Active(p.session)
      BY <1>5, <2>3, <3>2 DEF DoomedBeforePort
    <3> QED
      BY <3>1, <3>2
  <2> QED
    BY <2>4, <2>5 DEF Accounted
<1>8. OneUseOfPort'
  <2>1. Cooling' = Cooling /\ InPool' = InPool
    BY <1>1, <1>4 DEF Cooling, InPool
  <2>2. \A c, e \in cooling' : c.port = e.port => c = e
    BY <1>1, <1>4 DEF SupervisorInv, OneUseOfPort
  <2> QED
    BY <1>1, <1>5, <2>1, <2>2 DEF SupervisorInv, OneUseOfPort
<1> QED
  BY <1>1, <1>2, <1>3, <1>4, <1>6, <1>7, <1>8 DEF SupervisorInv, Fields

-------------------------------------------------------------------------------
LEMMA SupervisorInit == Init => SupervisorInv
<1> SUFFICES ASSUME Init PROVE SupervisorInv
  OBVIOUS
<1>1. /\ \A s \in Sessions : session[s] = NoSession
      /\ session \in [Sessions -> {NoSession}]
      /\ procs = {} /\ polls = {} /\ nextPort = 1 /\ freePorts = <<>> /\ cooling = {}
  BY DEF Init
<1>2. NoSession \in SessionFields
  BY Ticks DEF NoSession, SessionFields, Off
<1>3. \A s \in Sessions : ~Active(s)
  BY <1>1 DEF Active, NoSession
<1>4. Fields
  BY <1>1, <1>2 DEF Fields
<1>5. \A s \in Sessions : HeldOrNot(s)
  BY <1>1 DEF HeldOrNot, NoSession
<1>6. OneUseOfPort
  BY <1>1, <1>3 DEF OneUseOfPort, InPool, Cooling
<1> QED
  BY <1>1, <1>4, <1>5, <1>6 DEF SupervisorInv

LEMMA SupervisorStep == SupervisorInv /\ [Next]_vars => SupervisorInv'
<1> SUFFICES ASSUME SupervisorInv, [Next]_vars PROVE SupervisorInv'
  OBVIOUS
<1>1. ASSUME NEW d \in Devices, StartSession(d) \/ StopSession(d) PROVE SupervisorInv'
  BY <1>1, StartSessionKeeps, StopSessionKeeps
<1>2. ASSUME NEW s \in Sessions, RestartFires(s) \/ PollStarts(s) PROVE SupervisorInv'
  BY <1>2, RestartFiresKeeps, PollStartsKeeps
<1>3. ASSUME NEW q \in polls, NEW healthy \in BOOLEAN, PollAnswers(q, healthy)
      PROVE  SupervisorInv'
  BY <1>3, PollAnswersKeeps
<1>4. ASSUME NEW p \in procs, Exits(p) \/ Escalates(p) PROVE SupervisorInv'
  BY <1>4, DyingKeeps DEF Exits, Escalates
<1>5. ASSUME NEW p \in procs, ExitEvent(p) PROVE SupervisorInv'
  BY <1>5, ExitEventKeeps
<1>6. CASE PortReturns
  BY <1>6, PortReturnsKeeps
<1>7. CASE Shutdown
  BY <1>7, ShutdownKeeps
<1>8. CASE ChildrenAreGone
  BY <1>8, ChildrenAreGoneKeeps
<1>9. CASE Tick
  BY <1>9, TickKeeps
<1>10. CASE AgentExits \/ UNCHANGED vars
  BY <1>10, FadingInv DEF AgentExits, vars, SupervisorInv, Fields
<1> QED
  BY <1>1, <1>2, <1>3, <1>4, <1>5, <1>6, <1>7, <1>8, <1>9, <1>10 DEF Next

(* The inductive invariant holds in every state a supervisor reaches. *)
THEOREM SupervisorInvariant == Spec => []SupervisorInv
<1> QED
  BY SupervisorInit, SupervisorStep, PTL DEF Spec

(* A session counts as ready only while it has both processes, is polled and
   waits for no restart: isReady is what the agent reports to the server. *)
THEOREM ReadySessionsAreSupervised == Spec => []ReadyIsSupervised
<1>1. SupervisorInv => ReadyIsSupervised
  BY DEF SupervisorInv, HeldOrNot, ReadyIsSupervised
<1> QED
  BY <1>1, SupervisorInvariant, PTL

(* No launch that fails half-way and no restart leaves a process behind that
   nobody will end: what runs is held by its session or told to end. *)
THEOREM NoProcessLeaks == Spec => []NothingLeaks
<1>1. SupervisorInv => NothingLeaks
  BY DEF SupervisorInv, Accounted, Vouched, NothingLeaks
<1> QED
  BY <1>1, SupervisorInvariant, PTL

(* Ports change hands, old forwarders may ignore SIGTERM, and still what
   listens on the port of a session is its own forwarder. *)
THEOREM PortsRouteToOwnDevice == Spec => []RoutesToOwnDevice
<1>1. SupervisorInv => RoutesToOwnDevice
  <2> SUFFICES ASSUME SupervisorInv, NEW s \in Sessions, Active(s),
                      NEW p \in Listeners(session[s].port)
               PROVE  p.session = s
    BY DEF RoutesToOwnDevice
  <2>1. p \in procs /\ p.alive /\ Port(p) = session[s].port /\ p.session \in Sessions
    BY DEF Listeners, SupervisorInv, Fields, ProcessFields
  <2>2. session[s].port \notin Cooling
    BY DEF SupervisorInv, OneUseOfPort
  <2>3. Active(p.session)
    BY <2>1, <2>2 DEF SupervisorInv, Accounted, DoomedBeforePort, Cooling
  <2> QED
    BY <2>1, <2>3 DEF SupervisorInv, OneUseOfPort, Port
<1> QED
  BY <1>1, SupervisorInvariant, PTL

-------------------------------------------------------------------------------
(* Once the shutdown began, the map holds only the sessions that a late discovery
   began; and once it has waited, only theirs are the processes that run. *)
ShutdownInv ==
  /\ shutdown # "no" => \A s \in Sessions : Active(s) => s \in late
  /\ shutdown \in {"waited", "exited"} => \A p \in procs : p.alive => p.session \in late

(* A restart of a session, or of none: Active stays as it is. *)
LEMMA OnlyDiscoveryActivates ==
  ASSUME SupervisorInv, [Next]_vars,
         \A d \in Devices : ~StartSession(d)
  PROVE  \A t \in Sessions : Active(t)' => Active(t)
<1>1. ASSUME NEW d \in Devices, StopSession(d) PROVE \A t \in Sessions : Active(t)' => Active(t)
  <2>1. PICK s \in Sessions : Active(s) /\ Stop({s})
    BY <1>1 DEF StopSession
  <2> QED
    BY <1>1, <2>1, StopKeeps DEF StopSession
<1>2. ASSUME NEW s \in Sessions, RestartFires(s)
      PROVE  \A t \in Sessions : Active(t)' => Active(t)
  <2>1. PICK spawned \in Spawnable : Launch(s, session[s], spawned)
    BY <1>2 DEF RestartFires
  <2>2. session[s] \in SessionFields
    BY DEF SupervisorInv, Fields
  <2>3. PICK x, new : LaunchedAs(s, session[s], x, new)
    BY <2>1, <2>2, LaunchEffect DEF SupervisorInv
  <2> QED
    BY <2>3 DEF LaunchedAs, Active, SupervisorInv, Fields
<1>3. ASSUME NEW q \in polls, NEW healthy \in BOOLEAN, PollAnswers(q, healthy)
      PROVE  \A t \in Sessions : Active(t)' => Active(t)
  <2>1. ASSUME NEW r, r.device = session[q.session].device,
               r.isStopping = session[q.session].isStopping,
               session' = [session EXCEPT ![q.session] = r]
        PROVE  \A t \in Sessions : Active(t)' => Active(t)
    BY <2>1 DEF Active, SupervisorInv, Fields
  <2> DEFINE r == session[q.session]
             failed == [r EXCEPT !.healthFailCount = Saturated(@ + 1, HealthFailThreshold)]
  <2>2. r \in SessionFields
    BY DEF SupervisorInv, Fields
  <2>3. /\ failed.device = r.device /\ failed.isStopping = r.isStopping
        /\ Healthy(r).device = r.device /\ Healthy(r).isStopping = r.isStopping
        /\ Restarting(failed).device = r.device /\ Restarting(failed).isStopping = r.isStopping
    BY <2>2 DEF SessionFields, Healthy, Restarting, TornDown
  <2>4. \/ session' = session \/ session' = [session EXCEPT ![q.session] = Healthy(r)]
        \/ session' = [session EXCEPT ![q.session] = failed]
        \/ session' = [session EXCEPT ![q.session] = Restarting(failed)]
    BY <1>3 DEF PollAnswers, ScheduleRestart
  <2> HIDE DEF r, failed
  <2> QED
    BY <2>1, <2>3, <2>4 DEF Active, r
<1>4. ASSUME NEW p \in procs, Exits(p) \/ ExitEvent(p) \/ Escalates(p)
      PROVE  \A t \in Sessions : Active(t)' => Active(t)
  <2> DEFINE r == session[p.session]
  <2>1. r \in SessionFields /\ p.session \in Sessions
    BY DEF SupervisorInv, Fields, ProcessFields
  <2>2. Restarting(r).device = r.device /\ Restarting(r).isStopping = r.isStopping
    BY <2>1, RestartingFields
  <2>3. \/ session' = session \/ session' = [session EXCEPT ![p.session] = r]
        \/ session' = [session EXCEPT ![p.session] = Restarting(r)]
    BY <1>4 DEF Exits, ExitEvent, Escalates, ScheduleRestart
  <2> QED
    BY <2>1, <2>2, <2>3 DEF Active, SupervisorInv, Fields
<1>5. CASE Shutdown
  <2>1. \A t \in Sessions : Active(t)' <=> Active(t) /\ t \notin {s \in Sessions : Active(s)}
    BY <1>5, StopKeeps DEF Shutdown
  <2> QED
    BY <2>1
<1>6. CASE Tick
  BY <1>6 DEF Tick, Active, SupervisorInv, Fields, SessionFields
<1>7. CASE \/ \E s \in Sessions : PollStarts(s)
           \/ PortReturns \/ ChildrenAreGone \/ AgentExits \/ UNCHANGED vars
  BY <1>7 DEF PollStarts, PortReturns, ChildrenAreGone, AgentExits, vars, Active
<1> QED
  BY <1>1, <1>2, <1>3, <1>4, <1>5, <1>6, <1>7 DEF Next

(* Only a launch brings a process to life, and its session is in the map. *)
LifeIsActive ==
  \A q \in procs' : q.alive =>
    Active(q.session)' \/ \E p \in procs : p.alive /\ p.session = q.session

LEMMA LaunchesAreActive ==
  ASSUME SupervisorInv, NEW s \in Sessions, NEW r \in SessionFields, NEW spawned \in Spawnable,
         Launch(s, r, spawned), r.device \in Devices, ~r.isStopping
  PROVE  LifeIsActive /\ \A t \in Sessions : Active(t)' => Active(t) \/ t = s
<1>1. PICK x, new : LaunchedAs(s, r, x, new)
  BY LaunchEffect DEF SupervisorInv
<1>2. session'[s] = x /\ \A t \in Sessions : t # s => session'[t] = session[t]
  BY <1>1 DEF LaunchedAs, SupervisorInv, Fields
<1>3. Active(s)'
  BY <1>1, <1>2, Ticks DEF LaunchedAs, Active
<1>4. LifeIsActive
  BY <1>1, <1>3 DEF LaunchedAs, LifeIsActive
<1> QED
  BY <1>2, <1>4 DEF Active

LEMMA OnlyLaunchesGiveLife ==
  ASSUME SupervisorInv, [Next]_vars PROVE LifeIsActive
<1> DEFINE descends == \A q \in procs' : \E p \in procs :
                         q.session = p.session /\ (q.alive => p.alive)
<1>1. descends => LifeIsActive
  BY DEF LifeIsActive
<1>2. ASSUME NEW d \in Devices, StartSession(d) PROVE LifeIsActive
  <2>1. PICK s \in Sessions, port \in 1..MaxSessions, spawned \in Spawnable :
          Launch(s, Fresh(d, port), spawned)
    BY <1>2 DEF StartSession, Fresh
  <2> QED
    BY <2>1, FreshFields, LaunchesAreActive
<1>3. ASSUME NEW s \in Sessions, RestartFires(s) PROVE LifeIsActive
  <2>1. PICK spawned \in Spawnable : Launch(s, session[s], spawned)
    BY <1>3 DEF RestartFires
  <2>2. session[s] \in SessionFields /\ Active(s)
    BY <1>3 DEF RestartFires, SupervisorInv, Fields, HeldOrNot, Off
  <2> QED
    BY <2>1, <2>2, LaunchesAreActive DEF Active, SessionFields
<1>4. ASSUME NEW S \in SUBSET Sessions, Stop(S) PROVE LifeIsActive
  BY <1>1, <1>4, StopEffect DEF SupervisorInv, StoppedAs, Twin
<1>5. ASSUME NEW q \in polls, NEW healthy \in BOOLEAN, PollAnswers(q, healthy)
      PROVE  LifeIsActive
  <2> DEFINE r == session[q.session]
             failed == [r EXCEPT !.healthFailCount = Saturated(@ + 1, HealthFailThreshold)]
  <2>1. \/ procs' = procs
        \/ ~Outdated(q) /\ ScheduleRestart(q.session, failed, procs)
    BY <1>5 DEF PollAnswers
  <2>2. CASE ~Outdated(q) /\ ScheduleRestart(q.session, failed, procs)
    <3>1. /\ failed \in SessionFields /\ ~failed.isStopping /\ failed.restartTimer = Off
          /\ q.session \in Sessions
      BY <2>2, TimelyAnswer, Ticks DEF SessionFields, Saturated
    <3> HIDE DEF failed
    <3>2. PICK x : RestartedAs(q.session, failed, procs, x)
      BY <2>2, <3>1, RestartEffect DEF SupervisorInv
    <3> QED
      BY <1>1, <3>2 DEF RestartedAs, Twin
  <2> QED
    BY <1>1, <2>1, <2>2
<1>6. ASSUME NEW p \in procs, ExitEvent(p) PROVE LifeIsActive
  <2>1. CASE Matters(p) /\ session[p.session].restartTimer = Off
    <3>1. ScheduleRestart(p.session, session[p.session], procs \ {p})
      BY <1>6, <2>1 DEF ExitEvent
    <3>2. p.session \in Sessions /\ session[p.session] \in SessionFields
      BY DEF SupervisorInv, Fields, ProcessFields
    <3>3. PICK x : RestartedAs(p.session, session[p.session], procs \ {p}, x)
      BY <2>1, <3>1, <3>2, RestartEffect DEF SupervisorInv, Matters
    <3> QED
      BY <1>1, <3>3 DEF RestartedAs, Twin
  <2>2. CASE ~(Matters(p) /\ session[p.session].restartTimer = Off)
    BY <1>1, <1>6, <2>2 DEF ExitEvent, ScheduleRestart
  <2> QED
    BY <2>1, <2>2
<1>7. CASE (\E p \in procs : Exits(p) \/ Escalates(p)) \/ ChildrenAreGone \/ Tick
  <2>1. \A p \in procs : p \in ProcessFields
    BY DEF SupervisorInv, Fields
  <2>2. ASSUME NEW p \in procs, Exits(p) \/ Escalates(p) PROVE descends
    BY <2>1, <2>2 DEF Exits, Escalates, ProcessFields
  <2>3. CASE ChildrenAreGone
    <3> DEFINE lives(p) == p.alive /\ p.escalation = Off
    <3>1. procs' = {[p EXCEPT !.alive = lives(p)] : p \in procs}
      BY <2>3 DEF ChildrenAreGone
    <3>2. \A p \in procs : lives(p) => p.alive
      OBVIOUS
    <3> HIDE DEF lives
    <3> QED
      BY <1>1, <2>1, <3>1, <3>2 DEF ProcessFields
  <2>4. CASE Tick
    <3> DEFINE down(n) == IF n > 0 THEN n - 1 ELSE n
    <3>1. procs' = {[p EXCEPT !.escalation = down(@)] : p \in procs}
      BY <2>4 DEF Tick
    <3> HIDE DEF down
    <3> QED
      BY <1>1, <2>1, <3>1 DEF ProcessFields
  <2> QED
    BY <1>1, <1>7, <2>2, <2>3, <2>4
<1>8. CASE (\E s \in Sessions : PollStarts(s)) \/ PortReturns \/ AgentExits \/ UNCHANGED vars
  BY <1>1, <1>8 DEF PollStarts, PortReturns, AgentExits, vars
<1> QED
  BY <1>2, <1>3, <1>4, <1>5, <1>6, <1>7, <1>8 DEF Next, StopSession, Shutdown

(* When the agent exits, all it started has exited, but for what belongs to the
   sessions of a late discovery: what was told to end is waited for or killed, and
   nothing else was alive. *)
THEOREM ExitLeavesNoOrphans == Spec => []NoOrphans
<1>1. Init => ShutdownInv
  BY DEF Init, ShutdownInv
<1>2. SupervisorInv /\ ShutdownInv /\ [Next]_vars => ShutdownInv'
  <2> SUFFICES ASSUME SupervisorInv, ShutdownInv, [Next]_vars PROVE ShutdownInv'
    OBVIOUS
  <2>1. ASSUME NEW d \in Devices, StartSession(d)
        PROVE  /\ shutdown' = shutdown /\ late \subseteq late'
               /\ \A t \in Sessions : Active(t)' => Active(t) \/ shutdown = "no" \/ t \in late'
    <3>1. PICK s \in Sessions, port \in 1..MaxSessions, spawned \in Spawnable :
            /\ Launch(s, Fresh(d, port), spawned)
            /\ late' = IF shutdown = "no" THEN late ELSE late \union {s}
      BY <2>1 DEF StartSession, Fresh
    <3>2. \A t \in Sessions : Active(t)' => Active(t) \/ t = s
      BY <3>1, FreshFields, LaunchesAreActive
    <3> QED
      BY <2>1, <3>1, <3>2 DEF StartSession
  <2>2. CASE Shutdown
    <3>1. \A t \in Sessions : Active(t)' <=> Active(t) /\ t \notin {s \in Sessions : Active(s)}
      BY <2>2, StopKeeps DEF Shutdown
    <3> QED
      BY <2>2, <3>1 DEF ShutdownInv, Shutdown
  <2>3. CASE ChildrenAreGone
    <3>1. \A p \in procs : p.alive /\ p.escalation = Off => p.session \in late
      BY <2>3
      DEF ChildrenAreGone, ShutdownInv, SupervisorInv, Accounted, Vouched, Fields, ProcessFields
    <3>2. \A p \in procs' : p.alive => p.session \in late
      BY <2>3, <3>1 DEF ChildrenAreGone, SupervisorInv, Fields, ProcessFields
    <3> QED
      BY <2>3, <3>2 DEF ChildrenAreGone, ShutdownInv, Active
  <2>4. ASSUME ~Shutdown, ~ChildrenAreGone PROVE ShutdownInv'
    <3>1. /\ late \subseteq late'
          /\ shutdown' = shutdown \/ (shutdown = "waited" /\ shutdown' = "exited")
      BY <2>1, <2>4
      DEF Next, StopSession, RestartFires, PollStarts, PollAnswers, Exits, ExitEvent, Escalates,
          PortReturns, AgentExits, Tick, vars, ending
    <3>2. \A t \in Sessions : Active(t)' => Active(t) \/ shutdown = "no" \/ t \in late'
      BY <2>1, OnlyDiscoveryActivates
    <3>3. shutdown # "no" => \A t \in Sessions : Active(t)' => t \in late'
      BY <3>1, <3>2 DEF ShutdownInv
    <3>4. \A q \in procs' : q.alive => q.session \in Sessions
      BY SupervisorStep DEF SupervisorInv, Fields, ProcessFields
    <3>5. shutdown \in {"waited", "exited"} => \A q \in procs' : q.alive => q.session \in late'
      BY <3>1, <3>3, <3>4, OnlyLaunchesGiveLife DEF ShutdownInv, LifeIsActive
    <3> QED
      BY <3>1, <3>3, <3>5 DEF ShutdownInv
  <2> QED
    BY <2>2, <2>3, <2>4
<1>3. ShutdownInv => NoOrphans
  BY DEF ShutdownInv, NoOrphans
<1> QED
  BY <1>1, <1>2, <1>3, SupervisorInvariant, PTL DEF Spec

-------------------------------------------------------------------------------
(* A session with both processes restarts because one of them ended or because
   the polls of its own generation gave it up. *)
THEOREM EveryRestartHasItsCause == Spec => RestartsHaveCause
<1> DEFINE caused(s) ==
      (session[s].held = Kinds /\ session'[s].held = {} /\ ~session'[s].isStopping) =>
        \/ \E p \in HeldBy(s) : ~p.alive
        \/ Hopeless([session[s] EXCEPT !.healthFailCount = @ + 1])
<1>1. SupervisorInv /\ [Next]_vars => \A s \in Sessions : caused(s)
  <2> SUFFICES ASSUME SupervisorInv, [Next]_vars, NEW s \in Sessions,
                      session[s].held = Kinds, session'[s].held = {},
                      ~session'[s].isStopping
               PROVE  \/ \E p \in HeldBy(s) : ~p.alive
                      \/ Hopeless([session[s] EXCEPT !.healthFailCount = @ + 1])
    OBVIOUS
  <2>1. Kinds # {} /\ session[s] \in SessionFields /\ session[s].restartTimer = Off /\ Active(s)
    BY DEF Kinds, SupervisorInv, Fields, HeldOrNot
  <2>2. session'[s] # session[s]
    BY <2>1
  <2>3. ASSUME NEW d \in Devices, StartSession(d) PROVE FALSE
    <3>1. PICK t \in Sessions, port \in 1..MaxSessions, spawned \in Spawnable :
            /\ session[t].device = NoDevice
            /\ Launch(t, [NoSession EXCEPT !.device = d, !.port = port], spawned)
      BY <2>3 DEF StartSession
    <3>2. t # s
      BY <2>1, <3>1 DEF Active
    <3>3. session'[s] = session[s]
      BY <3>1, <3>2 DEF Launch, SupervisorInv, Fields
    <3> QED
      BY <2>2, <3>3
  <2>4. ASSUME NEW S \in SUBSET Sessions, Stop(S) PROVE FALSE
    <3>1. PICK x : StoppedAs(S, x)
      BY <2>4, StopEffect DEF SupervisorInv
    <3> QED
      BY <2>2, <3>1 DEF StoppedAs
  <2>5. ASSUME NEW t \in Sessions, RestartFires(t) PROVE FALSE
    <3>1. t # s
      BY <2>1, <2>5 DEF RestartFires, Off
    <3>2. session'[s] = session[s]
      BY <2>5, <3>1 DEF RestartFires, Launch, SupervisorInv, Fields
    <3> QED
      BY <2>2, <3>2
  <2>6. ASSUME NEW q \in polls, NEW healthy \in BOOLEAN, PollAnswers(q, healthy)
        PROVE  Hopeless([session[s] EXCEPT !.healthFailCount = @ + 1])
    <3> DEFINE r == session[q.session]
               failed == [r EXCEPT !.healthFailCount = Saturated(@ + 1, HealthFailThreshold)]
    <3>1. q.session = s
      BY <2>2, <2>6 DEF PollAnswers, ScheduleRestart, SupervisorInv, Fields
    <3>2. CASE Hopeless(failed)
      BY <2>1, <3>1, <3>2, Ticks DEF Hopeless, Saturated, SessionFields
    <3>3. CASE ~Hopeless(failed)
      <4>1. \/ session' = session \/ session' = [session EXCEPT ![s] = Healthy(session[s])]
            \/ session' = [session EXCEPT ![s] = failed]
        BY <2>6, <3>1, <3>3 DEF PollAnswers
      <4>2. Healthy(session[s]).held = Kinds /\ failed.held = Kinds
        BY <2>1, <3>1 DEF Healthy, SessionFields
      <4> HIDE DEF failed
      <4> QED
        BY <2>1, <4>1, <4>2 DEF SupervisorInv, Fields
    <3> QED
      BY <3>2, <3>3
  <2>7. ASSUME NEW p \in procs, ExitEvent(p) PROVE \E u \in HeldBy(s) : ~u.alive
    <3>1. Matters(p) /\ p.session = s
      BY <2>2, <2>7 DEF ExitEvent, ScheduleRestart, SupervisorInv, Fields
    <3>2. p \in HeldBy(s) /\ ~p.alive
      BY <2>7, <3>1 DEF Matters, HeldBy, ExitEvent, SupervisorInv, Fields, ProcessFields
    <3> QED
      BY <3>2
  <2>8. ASSUME Tick PROVE FALSE
    BY <2>1, <2>8 DEF Tick, SupervisorInv, Fields, SessionFields
  <2>9. CASE \/ \E t \in Sessions : PollStarts(t)
             \/ \E p \in procs : Exits(p) \/ Escalates(p)
             \/ PortReturns \/ ChildrenAreGone \/ AgentExits \/ UNCHANGED vars
    BY <2>2, <2>9
    DEF PollStarts, Exits, Escalates, PortReturns, ChildrenAreGone, AgentExits, vars
  <2>10. ASSUME (\E d \in Devices : StopSession(d)) \/ Shutdown PROVE FALSE
    BY <2>4, <2>10 DEF StopSession, Shutdown
  <2> QED
    BY <2>3, <2>5, <2>6, <2>7, <2>8, <2>9, <2>10 DEF Next
<1> QED
  BY <1>1, SupervisorInvariant, PTL DEF Spec, RestartsHaveCause
===============================================================================
