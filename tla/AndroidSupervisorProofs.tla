------------------------ MODULE AndroidSupervisorProofs ------------------------
(***************************************************************************)
(* Proofs about AndroidSupervisor, for any number of devices, sessions,    *)
(* restarts and failures, and any delays that satisfy the assumption.  The *)
(* inductive invariant is AndroidInv.  Its parts say, of every session,    *)
(* what drives it; of every child and health check, which generation it    *)
(* belongs to; of every forward and every runner, the session or the call  *)
(* that answers for it; and what is left to do when the agent ends.        *)
(***************************************************************************)
EXTENDS AndroidSupervisor, FiniteSetTheorems, TLAPS

(* SessionType and CallType without the bounds on restarts and ticks. *)
SessionFields ==
  [device : Devices \union {NoDevice}, port : Nat, instrument : BOOLEAN, isReady : BOOLEAN,
   isInstalled : BOOLEAN, healthFailCount : Nat, restartAttempt : 0..MaxAttempt,
   polling : BOOLEAN, restartTimer : {Off} \union Nat, isStopping : BOOLEAN,
   generation : Nat, age : Nat]

ProcessFields ==
  [session : Sessions, generation : Nat, alive : BOOLEAN, escalation : {Off} \union Nat]

CallFields ==
  [op : LaunchOps \union CleanupOps, session : Sessions, left : {Off} \union Nat]

Fields ==
  /\ session \in [Sessions -> SessionFields]
  /\ procs \subseteq ProcessFields
  /\ calls \subseteq CallFields
  /\ polls \subseteq [session : Sessions, generation : Nat]
  /\ forwards \in [1..MaxSessions -> Devices \union {NoDevice}]
  /\ runner \subseteq Devices /\ outran \subseteq Devices /\ late \subseteq Sessions
  /\ starting \subseteq [session : Sessions, generation : Nat]
  /\ shutdown \in {"no", "terminating", "cleaning", "exited"}
  /\ deadline \in Nat /\ failures \in Nat

Known(s) == session[s].device # NoDevice

(* What drives a session: OneDriver without counting, and what holds of the
   sessions that are not in the map. *)
Driven(s) ==
  /\ session[s].polling <=> session[s].instrument
  /\ session[s].isReady => session[s].polling
  /\ session[s].polling => Active(s) /\ session[s].restartTimer = Off
  /\ session[s].restartTimer # Off => Active(s)
  /\ Active(s) =>
       \/ (session[s].restartTimer # Off \/ session[s].polling) /\ LaunchCalls(s) = {}
       \/ /\ session[s].restartTimer = Off /\ ~session[s].polling
          /\ \E c \in calls : LaunchCalls(s) = {c}

(* A child or a health check of the present generation: the session is polled. *)
OfGeneration(x) ==
  /\ Known(x.session) /\ x.generation <= session[x.session].generation
  /\ (~session[x.session].isStopping /\ session[x.session].generation = x.generation)
       => session[x.session].polling

Vouched(p) == p.alive /\ p.escalation = Off => Matters(p)

HoldsForward(s) ==
  Active(s) \/ \E c \in calls : c.session = s /\ c.op \in {"remove", "undo", "clear"}

HoldsRunner(s) == Active(s) \/ \E c \in calls : c.session = s /\ c.op = "forceStop"

ForwardsOwned ==
  failures = 0 => \A port \in 1..MaxSessions : forwards[port] # NoDevice =>
    \E s \in Sessions :
      session[s].port = port /\ session[s].device = forwards[port] /\ HoldsForward(s)

RunnersOwned ==
  /\ \A i \in starting : Known(i.session)
  /\ failures = 0 => \A d \in Devices : d \in runner \/ Ordered(d) =>
       d \in outran \/ \E s \in Sessions : session[s].device = d /\ HoldsRunner(s)

(* What is left after the shutdown belongs to a session that a late discovery began,
   or is waited for. *)
Ending ==
  /\ shutdown # "no" => \A s \in Sessions : Active(s) => s \in late
  /\ shutdown \in {"cleaning", "exited"} =>
       /\ \A p \in procs : p.alive => p.session \in late
       /\ \A c \in calls : c.op = "forceStop" => c \in awaited \/ c.session \in late
  /\ shutdown = "exited" /\ deadline > 0 => awaited = {}

SessionsInv ==
  /\ \A s \in Sessions : Driven(s)
  /\ \A c \in calls : Known(c.session)
  /\ \A p \in procs : OfGeneration(p) /\ Vouched(p)
  /\ \A q \in polls : OfGeneration(q)

AndroidInv == Fields /\ SessionsInv /\ ForwardsOwned /\ RunnersOwned /\ Ending

-------------------------------------------------------------------------------
LEMMA Ticks ==
  /\ NoDevice \notin Devices
  /\ KillEscalation \in Nat /\ AdbTimeout \in Nat /\ Grace \in Nat /\ MaxSessions \in Nat
  /\ HealthFailThreshold \in Nat /\ ReadyDeadline \in Nat /\ MaxAttempt \in Nat
BY AndroidSupervisorAssumption

LEMMA DelayInRange == \A n \in 0..MaxAttempt : Delay(n) \in Nat
<1> SUFFICES ASSUME NEW n \in 0..MaxAttempt PROVE Delay(n) \in Nat
  OBVIOUS
<1>1. RestartBase * 2^n \in Int /\ RestartBase <= RestartBase * 2^n
  BY AndroidSupervisorAssumption, DelaysGrow
<1> QED
  BY <1>1, AndroidSupervisorAssumption DEF Delay, Saturated

LEMMA CallFacts ==
  ASSUME NEW op \in LaunchOps \union CleanupOps, NEW s \in Sessions
  PROVE  /\ Call(op, s) \in CallFields /\ Call(op, s).op = op /\ Call(op, s).session = s
<1> DEFINE left == IF op = "prepare" THEN Off ELSE AdbTimeout
<1>1. left \in {Off} \union Nat
  BY Ticks
<1>2. Call(op, s) = [op |-> op, session |-> s, left |-> left]
  BY DEF Call
<1> HIDE DEF left
<1> QED
  BY <1>1, <1>2 DEF CallFields

LEMMA Ops ==
  /\ "prepare" \in LaunchOps /\ "forward" \in LaunchOps /\ "clear" \in LaunchOps
  /\ "forceStop" \in CleanupOps /\ "remove" \in CleanupOps /\ "undo" \in CleanupOps
  /\ \A op \in LaunchOps : op \notin CleanupOps /\ op \in {"prepare", "forward", "clear"}
BY DEF LaunchOps, CleanupOps

(* Fields of a session that nothing waits for any more. *)
Idle(x) == ~x.polling /\ ~x.instrument /\ ~x.isReady

LEMMA RestartingFields ==
  ASSUME NEW r \in SessionFields
  PROVE  /\ Restarting(r) \in SessionFields /\ Idle(Restarting(r))
         /\ Restarting(r).restartTimer \in Nat
         /\ Restarting(r).device = r.device /\ Restarting(r).port = r.port
         /\ Restarting(r).isStopping = r.isStopping
         /\ Restarting(r).generation = r.generation + 1
<1> DEFINE delay == Delay(r.restartAttempt)
           attempt == Saturated(r.restartAttempt + 1, MaxAttempt)
           next == r.generation + 1
           zero == 0
<1>1. delay \in Nat /\ next \in Nat /\ zero \in Nat
  BY DelayInRange DEF SessionFields
<1>2. attempt \in 0..MaxAttempt
  BY Ticks DEF SessionFields, Saturated
<1>3. Restarting(r) =
        [r EXCEPT !.polling = FALSE, !.instrument = FALSE, !.generation = next,
                  !.isReady = FALSE, !.healthFailCount = zero,
                  !.restartTimer = delay, !.restartAttempt = attempt]
  BY DEF Restarting, TornDown, SessionFields
<1> HIDE DEF delay, attempt, zero
<1> QED
  BY <1>1, <1>2, <1>3 DEF SessionFields, Idle

(* A child that was signalled, or is left as it is. *)
SameChild(q, p) ==
  /\ q \in ProcessFields
  /\ q.session = p.session /\ q.generation = p.generation /\ q.alive = p.alive

LEMMA TerminatedChildren ==
  ASSUME procs \subseteq ProcessFields, NEW S \in SUBSET Sessions, NEW known \in SUBSET procs,
         NEW q \in Terminated(S, known)
  PROVE  \E p \in known :
           /\ SameChild(q, p)
           /\ \/ q.escalation # Off /\ p.session \in S
              \/ q = p /\ \A s \in S : p \notin Instrument(s)
<1> DEFINE held == UNION {Instrument(s) : s \in S}
<1>1. q \in known \ held \/ q \in Signalled(held \intersect known)
  BY DEF Terminated
<1>2. CASE q \in known \ held
  BY <1>2 DEF SameChild
<1>3. CASE q \in Signalled(held \intersect known)
  <2>1. PICK p \in held \intersect known : q = [p EXCEPT !.escalation = KillEscalation]
    BY <1>3 DEF Signalled
  <2>2. p.session \in S /\ p \in ProcessFields
    BY DEF Instrument
  <2>3. /\ SameChild(q, p) /\ q.escalation # Off
    BY <2>1, <2>2, Ticks DEF SameChild, ProcessFields, Off
  <2> QED
    BY <2>1, <2>2, <2>3
<1> QED
  BY <1>1, <1>2, <1>3

(* What scheduleRestart does to a session that does not wait for a restart yet. *)
RestartedAs(s, r, known, x) ==
  /\ x \in SessionFields
  /\ session' = [session EXCEPT ![s] = x]
  /\ x.device = r.device /\ x.port = r.port /\ x.isStopping = r.isStopping
  /\ Idle(x) /\ x.restartTimer \in Nat
  /\ x.generation = r.generation + 1
  /\ \A q \in procs' : \E p \in known :
       /\ SameChild(q, p)
       /\ \/ q.escalation # Off /\ p.session = s
          \/ q = p /\ p \notin Instrument(s)

LEMMA RestartEffect ==
  ASSUME Fields, NEW s \in Sessions, NEW r \in SessionFields, NEW known \in SUBSET procs,
         ~r.isStopping, r.restartTimer = Off, ScheduleRestart(s, r, known)
  PROVE  \E x : RestartedAs(s, r, known, x)
<1> DEFINE x == Restarting(r)
<1>1. session' = [session EXCEPT ![s] = x] /\ procs' = Terminated({s}, known)
  BY DEF ScheduleRestart, MayRestart
<1>2. \A q \in procs' : \E p \in known :
        /\ SameChild(q, p)
        /\ \/ q.escalation # Off /\ p.session = s
           \/ q = p /\ p \notin Instrument(s)
  BY <1>1, TerminatedChildren DEF Fields
<1>3. /\ x \in SessionFields /\ Idle(x) /\ x.restartTimer \in Nat
      /\ x.device = r.device /\ x.port = r.port /\ x.isStopping = r.isStopping
      /\ x.generation = r.generation + 1
  BY RestartingFields
<1> HIDE DEF x
<1> QED
  BY <1>1, <1>2, <1>3 DEF RestartedAs

-------------------------------------------------------------------------------
(* Frames: what a step has to leave alone for each part of the invariant. *)

(* Children and checks of session t keep their place: it stays known, and if its
   generation goes on, so do its polls. *)
Followed(t) ==
  /\ Known(t)' /\ session[t].generation <= session'[t].generation
  /\ (session'[t].generation = session[t].generation /\ ~session'[t].isStopping) =>
       ~session[t].isStopping /\ (session[t].polling => session'[t].polling)

LEMMA FollowedKeeps ==
  ASSUME NEW x, x.session \in Sessions, x.generation \in Nat,
         session \in [Sessions -> SessionFields], session' \in [Sessions -> SessionFields],
         OfGeneration(x), Followed(x.session)
  PROVE  OfGeneration(x)'
<1>1. session[x.session].generation \in Nat /\ session'[x.session].generation \in Nat
  BY DEF SessionFields
<1> QED
  BY <1>1 DEF OfGeneration, Followed

LEMMA SameFollowed ==
  ASSUME Fields, NEW t \in Sessions, Known(t), session'[t] = session[t]
  PROVE  Followed(t)
BY DEF Followed, Known, Fields, SessionFields

LEMMA DrivenSame ==
  ASSUME NEW t \in Sessions, Driven(t), session'[t] = session[t],
         LaunchCalls(t)' = LaunchCalls(t)
  PROVE  Driven(t)'
<1>1. Active(t)' <=> Active(t)
  BY DEF Active
<1>2. (\E c \in calls : LaunchCalls(t) = {c}) => (\E c \in calls' : LaunchCalls(t)' = {c})
  BY DEF LaunchCalls
<1> QED
  BY <1>1, <1>2 DEF Driven

LEMMA ForwardsKeep ==
  ASSUME ForwardsOwned,
         failures' = 0 => failures = 0,
         failures' = 0 => \A port \in 1..MaxSessions :
           \/ forwards'[port] \in {forwards[port], NoDevice}
           \/ \E s \in Sessions : /\ session'[s].port = port /\ HoldsForward(s)'
                                 /\ session'[s].device = forwards'[port],
         \A t \in Sessions : Known(t) =>
           /\ session'[t].device = session[t].device /\ session'[t].port = session[t].port
           /\ (HoldsForward(t) => HoldsForward(t)')
  PROVE  ForwardsOwned'
<1> SUFFICES ASSUME failures' = 0, NEW port \in 1..MaxSessions, forwards'[port] # NoDevice
             PROVE  \E s \in Sessions : /\ session'[s].port = port
                                        /\ session'[s].device = forwards'[port]
                                        /\ HoldsForward(s)'
  BY DEF ForwardsOwned
<1> SUFFICES ASSUME forwards'[port] = forwards[port]
             PROVE  \E s \in Sessions : /\ session'[s].port = port
                                        /\ session'[s].device = forwards'[port]
                                        /\ HoldsForward(s)'
  OBVIOUS
<1>1. forwards'[port] = forwards[port] /\ failures = 0
  OBVIOUS
<1>2. PICK s \in Sessions : /\ session[s].port = port /\ session[s].device = forwards[port]
                            /\ HoldsForward(s)
  BY <1>1 DEF ForwardsOwned
<1> QED
  BY <1>1, <1>2 DEF Known

LEMMA RunnersKeep ==
  ASSUME RunnersOwned,
         failures' = 0 => failures = 0,
         \A i \in starting' : i \in starting \/ Known(i.session)',
         failures' = 0 => \A d \in Devices : d \in runner' \/ Ordered(d)' =>
           \/ d \in outran'
           \/ (d \in runner \/ Ordered(d)) /\ (d \in outran => d \in outran')
           \/ \E s \in Sessions : session'[s].device = d /\ HoldsRunner(s)',
         starting \subseteq [session : Sessions, generation : Nat],
         \A t \in Sessions : Known(t) =>
           session'[t].device = session[t].device /\ (HoldsRunner(t) => HoldsRunner(t)')
  PROVE  RunnersOwned'
<1>1. \A i \in starting' : Known(i.session)'
  BY DEF RunnersOwned, Known
<1>2. ASSUME failures' = 0, NEW d \in Devices, d \in runner' \/ Ordered(d)', d \notin outran'
      PROVE  \E s \in Sessions : session'[s].device = d /\ HoldsRunner(s)'
  <2>1. CASE (d \in runner \/ Ordered(d)) /\ d \notin outran
    <3>1. PICK s \in Sessions : session[s].device = d /\ HoldsRunner(s)
      BY <1>2, <2>1 DEF RunnersOwned
    <3>2. Known(s)
      BY <3>1, Ticks DEF Known
    <3> QED
      BY <3>1, <3>2
  <2> QED
    BY <1>2, <2>1
<1> QED
  BY <1>1, <1>2 DEF RunnersOwned

(* What was ordered for a device stays so: its session keeps the device. *)
LEMMA OrdersStay ==
  ASSUME RunnersOwned, starting \subseteq [session : Sessions, generation : Nat],
         starting' \subseteq starting,
         \A t \in Sessions : Known(t) => session'[t].device = session[t].device,
         NEW d, Ordered(d)'
  PROVE  Ordered(d)
BY DEF RunnersOwned, Ordered

(* Steps that bring up no runner and meet none with a force-stop. *)
LEMMA OwnedKeeps ==
  ASSUME ForwardsOwned, RunnersOwned,
         failures' = 0 => failures = 0,
         starting \subseteq [session : Sessions, generation : Nat],
         runner' \subseteq runner, starting' = starting, outran' = outran,
         failures' = 0 => \A port \in 1..MaxSessions :
           \/ forwards'[port] \in {forwards[port], NoDevice}
           \/ \E s \in Sessions : /\ session'[s].port = port /\ HoldsForward(s)'
                                 /\ session'[s].device = forwards'[port],
         \A t \in Sessions : Known(t) =>
           /\ session'[t].device = session[t].device /\ session'[t].port = session[t].port
           /\ (HoldsForward(t) => HoldsForward(t)') /\ (HoldsRunner(t) => HoldsRunner(t)')
  PROVE  ForwardsOwned' /\ RunnersOwned'
<1>1. ForwardsOwned'
  BY ForwardsKeep
<1>2. \A d \in Devices : Ordered(d)' => Ordered(d)
  BY OrdersStay
<1>3. RunnersOwned'
  BY <1>2, RunnersKeep
<1> QED
  BY <1>1, <1>3

LEMMA EndingKeeps ==
  ASSUME Ending, shutdown # "exited", UNCHANGED <<shutdown, deadline, awaited>>,
         late \subseteq late',
         shutdown = "no" \/ \A t \in Sessions : Active(t)' => Active(t) \/ t \in late',
         shutdown = "no" \/ \A q \in procs' : q.alive =>
           q.session \in late' \/ \E p \in procs : p.alive /\ p.session = q.session,
         shutdown = "no" \/ \A c \in calls' : c.op = "forceStop" => c \in calls
  PROVE  Ending'
BY DEF Ending

-------------------------------------------------------------------------------
(* A launch that is under way in a session of the map is the only thing that
   drives it. *)
LEMMA LaunchUnderWay ==
  ASSUME AndroidInv, NEW c \in calls, c.op \in LaunchOps, ~Stale(c)
  PROVE  /\ c.session \in Sessions /\ session[c.session] \in SessionFields
         /\ Active(c.session) /\ LaunchCalls(c.session) = {c}
         /\ session[c.session].restartTimer = Off /\ Idle(session[c.session])
<1>1. c.session \in Sessions /\ session[c.session] \in SessionFields
  BY DEF AndroidInv, Fields, CallFields
<1>2. Active(c.session)
  BY DEF AndroidInv, SessionsInv, Known, Active, Stale
<1>3. c \in LaunchCalls(c.session)
  BY DEF LaunchCalls
<1>4. Driven(c.session)
  BY <1>1 DEF AndroidInv, SessionsInv
<1>5. LaunchCalls(c.session) = {c}
  BY <1>2, <1>3, <1>4 DEF Driven
<1>6. session[c.session].restartTimer = Off /\ ~session[c.session].polling
  BY <1>2, <1>3, <1>4 DEF Driven
<1> QED
  BY <1>1, <1>2, <1>4, <1>5, <1>6 DEF Driven, Idle

(* One call of a launch is followed by another one, or by its undoing. *)
LEMMA SwapCall ==
  ASSUME Fields, NEW c \in calls, c.op \in LaunchOps,
         NEW op \in LaunchOps \union CleanupOps,
         calls' = (calls \ {c}) \union {Call(op, c.session)}
  PROVE  /\ calls' \subseteq CallFields
         /\ \A t \in Sessions : t # c.session => LaunchCalls(t)' = LaunchCalls(t)
         /\ op \in LaunchOps /\ LaunchCalls(c.session) = {c} =>
              \E d \in calls' : LaunchCalls(c.session)' = {d}
         /\ \A d \in calls' : d \in calls \/ (d.session = c.session /\ d.op = op)
<1>1. c.session \in Sessions
  BY DEF Fields, CallFields
<1> DEFINE d == Call(op, c.session)
<1>2. d \in CallFields /\ d.op = op /\ d.session = c.session
  BY <1>1, CallFacts
<1> HIDE DEF d
<1>3. calls' = (calls \ {c}) \union {d}
  BY DEF d
<1>4. \A t \in Sessions : t # c.session => LaunchCalls(t)' = LaunchCalls(t)
  BY <1>2, <1>3 DEF LaunchCalls
<1>5. ASSUME op \in LaunchOps, LaunchCalls(c.session) = {c}
      PROVE  LaunchCalls(c.session)' = {d}
  BY <1>2, <1>3, <1>5 DEF LaunchCalls
<1> QED
  BY <1>2, <1>3, <1>4, <1>5 DEF Fields

LEMMA DropCall ==
  ASSUME Fields, NEW c \in calls, calls' = calls \ {c}
  PROVE  /\ calls' \subseteq CallFields
         /\ \A t \in Sessions :
              t # c.session \/ c.op \notin LaunchOps => LaunchCalls(t)' = LaunchCalls(t)
         /\ LaunchCalls(c.session) = {c} => LaunchCalls(c.session)' = {}
BY DEF Fields, LaunchCalls

(* Session s gets other fields, but stays the session of its device. *)
LEMMA Edit ==
  ASSUME Fields, NEW s \in Sessions, NEW x \in SessionFields,
         session' = [session EXCEPT ![s] = x],
         x.device = session[s].device, x.port = session[s].port,
         x.isStopping = session[s].isStopping
  PROVE  /\ session' \in [Sessions -> SessionFields]
         /\ session'[s] = x
         /\ \A t \in Sessions : t # s => session'[t] = session[t]
         /\ \A t \in Sessions :
              /\ (Active(t)' <=> Active(t)) /\ (Known(t)' <=> Known(t))
              /\ session'[t].device = session[t].device /\ session'[t].port = session[t].port
<1>1. /\ session' \in [Sessions -> SessionFields]
      /\ session'[s] = x
      /\ \A t \in Sessions : t # s => session'[t] = session[t]
  BY DEF Fields
<1> QED
  BY <1>1 DEF Active, Known

(* A session that goes on as it is, but for what nobody reads here. *)
LEMMA EditKeeps ==
  ASSUME AndroidInv, NEW s \in Sessions, Known(s), NEW x \in SessionFields,
         session' = [session EXCEPT ![s] = x],
         x.device = session[s].device, x.port = session[s].port,
         x.isStopping = session[s].isStopping, x.generation = session[s].generation,
         session[s].polling => x.polling,
         polls' \subseteq polls,
         \A p \in procs' : p \in procs \/ (OfGeneration(p)' /\ Vouched(p)'),
         \A c \in calls' : Known(c.session),
         \A t \in Sessions : t # s => LaunchCalls(t)' = LaunchCalls(t),
         Driven(s)'
  PROVE  SessionsInv'
<1>1. /\ session' \in [Sessions -> SessionFields] /\ session'[s] = x
      /\ \A t \in Sessions : t # s => session'[t] = session[t]
      /\ \A t \in Sessions : (Active(t)' <=> Active(t)) /\ (Known(t)' <=> Known(t))
  BY Edit DEF AndroidInv
<1>2. ASSUME NEW t \in Sessions PROVE Driven(t)'
  <2>1. CASE t # s
    BY <1>1, <2>1, DrivenSame DEF AndroidInv, SessionsInv
  <2> QED
    BY <2>1
<1>3. \A t \in Sessions : Known(t) => Followed(t)
  <2>1. Followed(s)
    BY <1>1 DEF Followed, AndroidInv, Fields, SessionFields
  <2>2. \A t \in Sessions : t # s /\ Known(t) => Followed(t)
    BY <1>1, SameFollowed DEF AndroidInv
  <2> QED
    BY <2>1, <2>2
<1>4. \A p \in procs : /\ OfGeneration(p) /\ Vouched(p) /\ p.session \in Sessions
                       /\ p.generation \in Nat /\ Known(p.session)
  BY DEF AndroidInv, SessionsInv, Fields, ProcessFields, OfGeneration
<1>5. \A q \in polls : /\ OfGeneration(q) /\ q.session \in Sessions
                       /\ q.generation \in Nat /\ Known(q.session)
  BY DEF AndroidInv, SessionsInv, Fields, OfGeneration
<1>6. \A p \in procs : OfGeneration(p)'
  BY <1>1, <1>3, <1>4, FollowedKeeps DEF AndroidInv, Fields
<1>7. \A q \in polls : OfGeneration(q)'
  BY <1>1, <1>3, <1>5, FollowedKeeps DEF AndroidInv, Fields
<1>8. \A p \in procs : Vouched(p)'
  BY <1>1, <1>4 DEF Vouched, Matters
<1>9. \A c \in calls' : Known(c.session)'
  BY <1>1 DEF Known
<1> QED
  BY <1>2, <1>6, <1>7, <1>8, <1>9 DEF SessionsInv

LEMMA RestartKeeps ==
  ASSUME AndroidInv, NEW s \in Sessions, NEW r \in SessionFields, NEW known \in SUBSET procs,
         Active(s), ~r.isStopping, r.restartTimer = Off, ScheduleRestart(s, r, known),
         r.device = session[s].device, r.port = session[s].port,
         r.generation = session[s].generation,
         polls' \subseteq polls, calls' \subseteq calls, LaunchCalls(s)' = {},
         \A t \in Sessions : t # s => LaunchCalls(t)' = LaunchCalls(t)
  PROVE  /\ SessionsInv'
         /\ session' \in [Sessions -> SessionFields] /\ procs' \subseteq ProcessFields
         /\ \A q \in procs' : q.alive => \E p \in procs : p.alive /\ p.session = q.session
         /\ \A t \in Sessions :
              /\ (Active(t)' <=> Active(t))
              /\ session'[t].device = session[t].device /\ session'[t].port = session[t].port
<1>1. PICK x : RestartedAs(s, r, known, x)
  BY RestartEffect DEF AndroidInv
<1>2. /\ session' \in [Sessions -> SessionFields] /\ session'[s] = x
      /\ \A t \in Sessions : t # s => session'[t] = session[t]
      /\ \A t \in Sessions :
           /\ (Active(t)' <=> Active(t)) /\ (Known(t)' <=> Known(t))
           /\ session'[t].device = session[t].device /\ session'[t].port = session[t].port
  <2>1. x.isStopping = session[s].isStopping
    BY <1>1 DEF RestartedAs, AndroidInv, Fields, SessionFields, Active
  <2> QED
    BY <1>1, <2>1, Edit DEF RestartedAs, AndroidInv
<1>3. ASSUME NEW t \in Sessions PROVE Driven(t)'
  <2>1. CASE t # s
    BY <1>2, <2>1, DrivenSame DEF AndroidInv, SessionsInv
  <2>2. CASE t = s
    BY <1>1, <1>2, <2>2 DEF RestartedAs, Idle, Driven, Off
  <2> QED
    BY <2>1, <2>2
<1>4. \A t \in Sessions : Known(t) => Followed(t)
  <2>1. Followed(s)
    BY <1>1, <1>2 DEF RestartedAs, Followed, Active, Known, SessionFields, AndroidInv, Fields
  <2>2. \A t \in Sessions : t # s /\ Known(t) => Followed(t)
    BY <1>2, SameFollowed DEF AndroidInv
  <2> QED
    BY <2>1, <2>2
<1>5. \A p \in procs : /\ OfGeneration(p) /\ Vouched(p) /\ p.session \in Sessions
                       /\ p.generation \in Nat /\ Known(p.session)
  BY DEF AndroidInv, SessionsInv, Fields, ProcessFields, OfGeneration
<1>6. \A q \in polls : /\ OfGeneration(q) /\ q.session \in Sessions
                       /\ q.generation \in Nat /\ Known(q.session)
  BY DEF AndroidInv, SessionsInv, Fields, OfGeneration
<1>7. \A p \in procs : OfGeneration(p)'
  BY <1>2, <1>4, <1>5, FollowedKeeps DEF AndroidInv, Fields
<1>8. \A q \in polls : OfGeneration(q)'
  BY <1>2, <1>4, <1>6, FollowedKeeps DEF AndroidInv, Fields
<1>9. ASSUME NEW q \in procs' PROVE OfGeneration(q)' /\ Vouched(q)' /\ q \in ProcessFields
  <2>1. PICK p \in known : /\ SameChild(q, p)
                           /\ \/ q.escalation # Off /\ p.session = s
                              \/ q = p /\ p \notin Instrument(s)
    BY <1>1 DEF RestartedAs
  <2>2. OfGeneration(q)' /\ q \in ProcessFields
    BY <1>7, <2>1 DEF OfGeneration, SameChild
  <2>3. CASE q = p /\ p.session = s /\ p \notin Instrument(s)
    <3>1. ~Matters(p)
      BY <2>3, <1>5 DEF Instrument, Matters, OfGeneration, AndroidInv, SessionsInv, Driven
    <3> QED
      BY <1>5, <2>2, <2>3, <3>1 DEF Vouched
  <2>4. CASE q = p /\ p.session # s
    BY <1>2, <1>5, <2>2, <2>4 DEF Vouched, Matters
  <2> QED
    BY <2>1, <2>2, <2>3, <2>4 DEF Vouched
<1>10. \A c \in calls' : Known(c.session)'
  BY <1>2 DEF AndroidInv, SessionsInv, Fields, CallFields
<1>11. \A q \in procs' : q.alive => \E p \in procs : p.alive /\ p.session = q.session
  BY <1>1 DEF RestartedAs, SameChild
<1> QED
  BY <1>2, <1>3, <1>8, <1>9, <1>10, <1>11 DEF SessionsInv

(* Steps that leave sessions, calls and forwards alone: children die or are
   forgotten, checks are made or answered, runners end. *)
LEMMA QuietKeeps ==
  ASSUME AndroidInv, runner' \subseteq runner,
         UNCHANGED <<session, calls, forwards, failures, starting, outran, late>>,
         shutdown' \in {"no", "terminating", "cleaning", "exited"}, deadline' \in Nat,
         \A q \in procs' : q \in ProcessFields /\ \E p \in procs :
           /\ q.session = p.session /\ q.generation = p.generation
           /\ q.escalation = p.escalation /\ (q.alive => p.alive),
         \A q \in polls' : \/ q \in polls
                           \/ /\ q \in [session : Sessions, generation : Nat]
                              /\ OfGeneration(q)
  PROVE  (Fields /\ SessionsInv /\ ForwardsOwned /\ RunnersOwned)'
<1>1. Fields'
  BY DEF AndroidInv, Fields
<1>2. \A t \in Sessions : Driven(t)'
  BY DrivenSame DEF AndroidInv, SessionsInv, LaunchCalls
<1>3. \A c \in calls' : Known(c.session)'
  BY DEF AndroidInv, SessionsInv, Known
<1>4. \A q \in procs' : OfGeneration(q)' /\ Vouched(q)'
  BY DEF AndroidInv, SessionsInv, OfGeneration, Known, Vouched, Matters
<1>5. \A q \in polls' : OfGeneration(q)'
  BY DEF AndroidInv, SessionsInv, OfGeneration, Known
<1>6. ForwardsOwned' /\ RunnersOwned'
  BY OwnedKeeps DEF AndroidInv, Fields, HoldsForward, HoldsRunner, Active
<1> QED
  BY <1>1, <1>2, <1>3, <1>4, <1>5, <1>6 DEF SessionsInv

-------------------------------------------------------------------------------
(* One lemma per action, for all parts of the invariant. *)
LEMMA StartSessionKeeps ==
  ASSUME AndroidInv, NEW d \in Devices, StartSession(d) PROVE AndroidInv'
<1>1. PICK s \in Sessions, port \in 1..MaxSessions :
        /\ session[s].device = NoDevice
        /\ session' = [session EXCEPT ![s] = Launched([NoSession EXCEPT !.device = d, !.port = port])]
        /\ calls' = calls \union {Call("prepare", s)}
        /\ late' = IF shutdown = "no" THEN late ELSE late \union {s}
  BY DEF StartSession
<1>2. /\ UNCHANGED <<procs, polls, forwards, runner, starting, outran, shutdown, deadline,
                     awaited, failures>>
      /\ shutdown # "exited" /\ late \subseteq late' /\ (shutdown = "no" \/ s \in late')
  BY <1>1 DEF StartSession, Running, ending, world
<1> DEFINE x == Launched([NoSession EXCEPT !.device = d, !.port = port])
           c == Call("prepare", s)
<1>3. /\ x \in SessionFields /\ x.device = d /\ ~x.isStopping /\ Idle(x) /\ x.restartTimer = Off
  <2>1. NoSession \in SessionFields /\ ~NoSession.isStopping /\ Idle(NoSession)
    BY Ticks DEF NoSession, SessionFields, Off, Idle
  <2>2. port \in Nat /\ d \in Devices
    BY Ticks
  <2> DEFINE r == [NoSession EXCEPT !.device = d, !.port = port]
  <2>3. r \in SessionFields /\ r.device = d /\ ~r.isStopping /\ Idle(r)
    BY <2>1, <2>2 DEF SessionFields, Idle
  <2>4. x = Launched(r)
    OBVIOUS
  <2> HIDE DEF r, x
  <2> QED
    BY <2>3, <2>4 DEF SessionFields, Launched, Idle
<1>4. c \in CallFields /\ c.op = "prepare" /\ c.session = s
  BY CallFacts, Ops
<1> HIDE DEF x, c
<1>5. /\ session' \in [Sessions -> SessionFields] /\ session'[s] = x
      /\ \A t \in Sessions : t # s => session'[t] = session[t]
      /\ calls' = calls \union {c} /\ calls' \subseteq CallFields
  BY <1>1, <1>3, <1>4 DEF AndroidInv, Fields, x, c
<1>6. ~Known(s) /\ Known(s)' /\ Active(s)'
  BY <1>1, <1>3, <1>5, Ticks DEF Known, Active
<1>7. \A e \in calls : e.session # s /\ e.session \in Sessions
  BY <1>6 DEF AndroidInv, SessionsInv, Fields, CallFields
<1>8. LaunchCalls(s)' = {c} /\ \A t \in Sessions : t # s => LaunchCalls(t)' = LaunchCalls(t)
  BY <1>4, <1>5, <1>7, Ops DEF LaunchCalls
<1>9. ASSUME NEW t \in Sessions PROVE Driven(t)'
  <2>1. CASE t = s
    BY <1>3, <1>5, <1>6, <1>8, <2>1 DEF Driven, Idle
  <2>2. CASE t # s
    BY <1>5, <1>8, <2>2, DrivenSame DEF AndroidInv, SessionsInv
  <2> QED
    BY <2>1, <2>2
<1>10. ASSUME NEW e \in calls' PROVE Known(e.session)'
  BY <1>4, <1>5, <1>6, <1>7 DEF AndroidInv, SessionsInv, Known
<1>11. ASSUME NEW y, y.session \in Sessions, OfGeneration(y) PROVE OfGeneration(y)'
  <2>1. y.session # s
    BY <1>6, <1>11 DEF OfGeneration
  <2> QED
    BY <1>5, <1>11, <2>1 DEF OfGeneration, Known
<1>12. \A p \in procs : OfGeneration(p)' /\ Vouched(p)'
  <2> TAKE p \in procs
  <2>1. OfGeneration(p) /\ Vouched(p) /\ p.session \in Sessions
    BY DEF AndroidInv, SessionsInv, Fields, ProcessFields
  <2>2. p.session # s
    BY <1>6, <2>1 DEF OfGeneration
  <2> QED
    BY <1>5, <1>11, <2>1, <2>2 DEF Vouched, Matters
<1>13. \A q \in polls : OfGeneration(q)'
  BY <1>11 DEF AndroidInv, SessionsInv, Fields
<1>14. SessionsInv'
  BY <1>2, <1>9, <1>10, <1>12, <1>13 DEF SessionsInv
<1>15. ForwardsOwned' /\ RunnersOwned'
  <2>1. \A t \in Sessions : Known(t) =>
          /\ session'[t].device = session[t].device /\ session'[t].port = session[t].port
          /\ (HoldsForward(t) => HoldsForward(t)') /\ (HoldsRunner(t) => HoldsRunner(t)')
    BY <1>5, <1>6 DEF HoldsForward, HoldsRunner, Active
  <2> QED
    BY <1>2, <2>1, OwnedKeeps DEF AndroidInv, Fields
<1>16. Ending'
  <2>1. \A t \in Sessions : Active(t)' => Active(t) \/ t = s
    BY <1>5 DEF Active
  <2>2. \A e \in calls' : e.op = "forceStop" => e \in calls
    BY <1>4, <1>5
  <2> QED
    BY <1>2, <2>1, <2>2, EndingKeeps DEF AndroidInv
<1>17. late' \subseteq Sessions
  BY <1>1 DEF AndroidInv, Fields
<1> QED
  BY <1>2, <1>5, <1>14, <1>15, <1>16, <1>17 DEF AndroidInv, Fields

(* What stopSession and stopAll do. *)
LEMMA StopKeeps ==
  ASSUME AndroidInv, NEW S \in SUBSET Sessions, \A s \in S : Active(s), Stop(S),
         UNCHANGED <<polls, forwards, runner, starting, outran, failures>>
  PROVE  /\ session' \in [Sessions -> SessionFields] /\ procs' \subseteq ProcessFields
         /\ calls' \subseteq CallFields
         /\ SessionsInv' /\ ForwardsOwned' /\ RunnersOwned'
         /\ \A t \in Sessions : Active(t)' => Active(t) /\ t \notin S
<1> DEFINE stopped(s) ==
             [NoSession EXCEPT !.device = session[s].device, !.port = session[s].port,
                               !.generation = session[s].generation, !.isStopping = TRUE]
<1>1. /\ session' = [s \in Sessions |-> IF s \in S THEN stopped(s) ELSE session[s]]
      /\ procs' = Terminated(S, procs)
      /\ calls' = calls \union UNION {CleanupOf(s) : s \in S}
  BY DEF Stop
<1>2. ASSUME NEW s \in Sessions
      PROVE  /\ stopped(s) \in SessionFields /\ Idle(stopped(s))
             /\ stopped(s).restartTimer = Off /\ stopped(s).isStopping
             /\ stopped(s).device = session[s].device /\ stopped(s).port = session[s].port
             /\ stopped(s).generation = session[s].generation
  <2>1. NoSession \in SessionFields /\ Idle(NoSession) /\ NoSession.restartTimer = Off
    BY Ticks DEF NoSession, SessionFields, Off, Idle
  <2>2. session[s] \in SessionFields
    BY DEF AndroidInv, Fields
  <2> QED
    BY <2>1, <2>2 DEF SessionFields, Idle
<1> HIDE DEF stopped
<1>3. /\ session' \in [Sessions -> SessionFields]
      /\ \A s \in S : session'[s] = stopped(s)
      /\ \A t \in Sessions \ S : session'[t] = session[t]
  BY <1>1, <1>2 DEF AndroidInv, Fields
<1>4. \A t \in Sessions :
        /\ session'[t].device = session[t].device /\ session'[t].port = session[t].port
        /\ (Known(t)' <=> Known(t)) /\ (Active(t)' <=> Active(t) /\ t \notin S)
  BY <1>2, <1>3 DEF Known, Active
<1>5. ASSUME NEW e \in calls' \ calls
      PROVE  e \in CallFields /\ e.op \in {"forceStop", "remove"} /\ e.session \in S
  <2>1. PICK s \in S : e \in CleanupOf(s)
    BY <1>1, <1>5
  <2> QED
    BY <2>1, CallFacts, Ops DEF CleanupOf
<1>6. calls \subseteq calls' /\ calls' \subseteq CallFields
  BY <1>1, <1>5 DEF AndroidInv, Fields
<1>7. \A t \in Sessions : LaunchCalls(t)' = LaunchCalls(t)
  BY <1>5, <1>6 DEF LaunchCalls, LaunchOps
<1>8. ASSUME NEW t \in Sessions PROVE Driven(t)'
  <2>1. CASE t \in S
    BY <1>2, <1>3, <1>4, <2>1 DEF Driven, Idle
  <2>2. CASE t \notin S
    BY <1>3, <1>7, <2>2, DrivenSame DEF AndroidInv, SessionsInv
  <2> QED
    BY <2>1, <2>2
<1>9. \A t \in Sessions : Known(t) => Followed(t)
  <2> SUFFICES ASSUME NEW t \in Sessions, Known(t) PROVE Followed(t)
    OBVIOUS
  <2>1. CASE t \in S
    BY <1>2, <1>3, <1>4, <2>1 DEF Followed, AndroidInv, Fields, SessionFields
  <2>2. CASE t \notin S
    BY <1>3, <2>2, SameFollowed DEF AndroidInv
  <2> QED
    BY <2>1, <2>2
<1>10. \A p \in procs : /\ OfGeneration(p) /\ Vouched(p) /\ p.session \in Sessions
                        /\ p.generation \in Nat /\ Known(p.session)
  BY DEF AndroidInv, SessionsInv, Fields, ProcessFields, OfGeneration
<1>11. \A q \in polls : /\ OfGeneration(q) /\ q.session \in Sessions
                        /\ q.generation \in Nat /\ Known(q.session)
  BY DEF AndroidInv, SessionsInv, Fields, OfGeneration
<1>12. \A p \in procs : OfGeneration(p)'
  BY <1>3, <1>9, <1>10, FollowedKeeps DEF AndroidInv, Fields
<1>13. \A q \in polls : OfGeneration(q)'
  BY <1>3, <1>9, <1>11, FollowedKeeps DEF AndroidInv, Fields
<1>14. ASSUME NEW q \in procs' PROVE OfGeneration(q)' /\ Vouched(q)' /\ q \in ProcessFields
  <2>1. PICK p \in procs : /\ SameChild(q, p)
                           /\ \/ q.escalation # Off /\ p.session \in S
                              \/ q = p /\ \A s \in S : p \notin Instrument(s)
    BY <1>1, <1>14, TerminatedChildren DEF AndroidInv, Fields
  <2>2. OfGeneration(q)' /\ q \in ProcessFields
    BY <1>12, <2>1 DEF OfGeneration, SameChild
  <2>3. CASE q = p /\ p.session \in S /\ p \notin Instrument(p.session)
    <3>1. ~Matters(p)
      BY <2>3, <1>10 DEF Instrument, Matters, OfGeneration, AndroidInv, SessionsInv, Driven
    <3> QED
      BY <1>10, <2>2, <2>3, <3>1 DEF Vouched
  <2>4. CASE q = p /\ p.session \notin S
    BY <1>3, <1>10, <2>2, <2>4 DEF Vouched, Matters
  <2> QED
    BY <2>1, <2>2, <2>3, <2>4 DEF Vouched
<1>15. ASSUME NEW e \in calls' PROVE Known(e.session)'
  BY <1>4, <1>5, <1>15 DEF AndroidInv, SessionsInv, Fields, CallFields, Active, Known
<1>16. SessionsInv'
  BY <1>8, <1>13, <1>14, <1>15 DEF SessionsInv
<1>17. ASSUME NEW t \in Sessions
       PROVE  /\ HoldsForward(t) => HoldsForward(t)'
              /\ HoldsRunner(t) => HoldsRunner(t)'
  <2>1. CASE t \in S
    <3>1. Call("remove", t) \in calls' /\ Call("forceStop", t) \in calls'
      BY <1>1, <2>1 DEF CleanupOf
    <3>2. /\ Call("remove", t).op = "remove" /\ Call("remove", t).session = t
          /\ Call("forceStop", t).op = "forceStop" /\ Call("forceStop", t).session = t
      BY CallFacts, Ops
    <3> QED
      BY <3>1, <3>2 DEF HoldsForward, HoldsRunner
  <2>2. CASE t \notin S
    BY <1>4, <1>6, <2>2 DEF HoldsForward, HoldsRunner
  <2> QED
    BY <2>1, <2>2
<1>18. ForwardsOwned' /\ RunnersOwned'
  BY <1>4, <1>17, OwnedKeeps DEF AndroidInv, Fields
<1> QED
  BY <1>3, <1>4, <1>6, <1>14, <1>16, <1>18

LEMMA StopSessionKeeps ==
  ASSUME AndroidInv, NEW d \in Devices, StopSession(d) PROVE AndroidInv'
<1>1. PICK s \in Sessions : s \notin late /\ Active(s) /\ Stop({s})
  BY DEF StopSession
<1>2. UNCHANGED <<polls, forwards, runner, starting, outran, shutdown, deadline, awaited,
                  failures, late>>
  BY DEF StopSession, ending, world, past
<1>3. Ending'
  <2>1. shutdown = "no"
    BY <1>1 DEF AndroidInv, Ending
  <2> QED
    BY <1>2, <2>1 DEF Ending
<1> QED
  BY <1>1, <1>2, <1>3, StopKeeps DEF AndroidInv, Fields

LEMMA ShutdownKeeps ==
  ASSUME AndroidInv, Shutdown PROVE AndroidInv'
<1>1. /\ UNCHANGED <<polls, forwards, runner, starting, outran, awaited, failures, late>>
      /\ shutdown' = "terminating" /\ deadline' = Grace
      /\ Stop({s \in Sessions : Active(s)})
  BY DEF Shutdown, world, past
<1>2. /\ session' \in [Sessions -> SessionFields] /\ procs' \subseteq ProcessFields
      /\ calls' \subseteq CallFields
      /\ SessionsInv' /\ ForwardsOwned' /\ RunnersOwned'
      /\ \A t \in Sessions : Active(t)' => Active(t) /\ t \notin {s \in Sessions : Active(s)}
  BY <1>1, StopKeeps
<1>3. Ending'
  BY <1>1, <1>2 DEF Ending
<1> QED
  BY <1>1, <1>2, <1>3, Ticks DEF AndroidInv, Fields

(* Of the quiet steps, those after which the agent ends as before. *)
LEMMA QuietEnding ==
  ASSUME AndroidInv, shutdown # "exited",
         UNCHANGED <<session, calls, forwards, failures, starting, outran, late,
                     shutdown, deadline, awaited>>,
         runner' \subseteq runner,
         \A q \in procs' : q \in ProcessFields /\ \E p \in procs :
           /\ q.session = p.session /\ q.generation = p.generation
           /\ q.escalation = p.escalation /\ (q.alive => p.alive),
         \A q \in polls' : \/ q \in polls
                           \/ /\ q \in [session : Sessions, generation : Nat]
                              /\ OfGeneration(q)
  PROVE  AndroidInv'
<1>1. Ending'
  BY EndingKeeps DEF AndroidInv, Active
<1>2. (Fields /\ SessionsInv /\ ForwardsOwned /\ RunnersOwned)'
  BY QuietKeeps DEF AndroidInv, Fields
<1> QED
  BY <1>1, <1>2 DEF AndroidInv

(* A child is its own twin. *)
LEMMA ChildStays ==
  AndroidInv => \A q \in procs : q \in ProcessFields /\ \E p \in procs :
                  /\ q.session = p.session /\ q.generation = p.generation
                  /\ q.escalation = p.escalation /\ (q.alive => p.alive)
BY DEF AndroidInv, Fields

LEMMA PortReturnsKeeps == ASSUME AndroidInv, PortReturns PROVE AndroidInv'
BY QuietEnding, ChildStays DEF PortReturns, Running, ending, world, past

LEMMA RunnerEndsKeeps ==
  ASSUME AndroidInv, NEW d \in Devices, RunnerEnds(d) PROVE AndroidInv'
BY QuietEnding, ChildStays DEF RunnerEnds, Running, ending, past

LEMMA PollStartsKeeps ==
  ASSUME AndroidInv, NEW s \in Sessions, PollStarts(s) PROVE AndroidInv'
<1>1. /\ session[s].polling /\ shutdown # "exited"
      /\ polls' = polls \union {[session |-> s, generation |-> session[s].generation]}
      /\ UNCHANGED <<session, procs, calls, forwards, runner, starting, outran, shutdown,
                     deadline, awaited, failures, late>>
  BY DEF PollStarts, Running, ending, world, past
<1> DEFINE q == [session |-> s, generation |-> session[s].generation]
<1>2. q \in [session : Sessions, generation : Nat] /\ OfGeneration(q)
  BY <1>1 DEF AndroidInv, SessionsInv, Driven, Active, Known, OfGeneration, Fields, SessionFields
<1> QED
  BY <1>1, <1>2, QuietEnding, ChildStays

LEMMA ExitsKeeps ==
  ASSUME AndroidInv, NEW p \in procs, Exits(p) PROVE AndroidInv'
<1>1. /\ procs' = (procs \ {p}) \union {[p EXCEPT !.alive = FALSE]} /\ shutdown # "exited"
      /\ UNCHANGED <<session, calls, polls, forwards, runner, starting, outran, shutdown,
                     deadline, awaited, failures, late>>
  BY DEF Exits, Running, ending, world, past
<1>2. ASSUME NEW q \in procs'
      PROVE  q \in ProcessFields /\ \E r \in procs :
               /\ q.session = r.session /\ q.generation = r.generation
               /\ q.escalation = r.escalation /\ (q.alive => r.alive)
  <2>1. CASE q \in procs
    BY <2>1, ChildStays
  <2>2. CASE q = [p EXCEPT !.alive = FALSE]
    BY <2>2 DEF AndroidInv, Fields, ProcessFields
  <2> QED
    BY <1>1, <2>1, <2>2
<1> QED
  BY <1>1, <1>2, QuietEnding

LEMMA ChildrenAreGoneKeeps == ASSUME AndroidInv, ChildrenAreGone PROVE AndroidInv'
<1>1. /\ shutdown = "terminating" /\ shutdown' = "cleaning"
      /\ procs' = {[p EXCEPT !.alive = @ /\ p.escalation = Off] : p \in procs}
      /\ awaited' = {c \in calls : c.op \in CleanupOps}
      /\ UNCHANGED <<session, calls, polls, forwards, runner, starting, outran, deadline,
                     failures, late>>
  BY DEF ChildrenAreGone, world, past
<1>2. ASSUME NEW q \in procs'
      PROVE  /\ q.alive => q.session \in late
             /\ q \in ProcessFields
             /\ \E p \in procs :
                  /\ q.session = p.session /\ q.generation = p.generation
                  /\ q.escalation = p.escalation /\ (q.alive => p.alive)
  <2>1. PICK p \in procs : q = [p EXCEPT !.alive = @ /\ p.escalation = Off]
    BY <1>1, <1>2
  <2>2. p \in ProcessFields /\ (Active(p.session) => p.session \in late)
    BY <1>1 DEF AndroidInv, Fields, ProcessFields, Ending
  <2>3. p.alive /\ p.escalation = Off => Active(p.session)
    BY <2>2 DEF AndroidInv, SessionsInv, OfGeneration, Vouched, Matters, Active, Known
  <2> DEFINE lives == p.alive /\ p.escalation = Off
  <2>4. q = [p EXCEPT !.alive = lives] /\ lives \in BOOLEAN
    BY <2>1
  <2>5. /\ q \in ProcessFields /\ (q.alive <=> lives)
        /\ q.session = p.session /\ q.generation = p.generation /\ q.escalation = p.escalation
    <3> HIDE DEF lives
    <3> QED
      BY <2>2, <2>4 DEF ProcessFields
  <2> QED
    BY <2>2, <2>3, <2>5
<1>3. Ending'
  BY <1>1, <1>2, Ops DEF Ending, AndroidInv, Active
<1>4. deadline' \in Nat
  BY <1>1 DEF AndroidInv, Fields
<1>5. (Fields /\ SessionsInv /\ ForwardsOwned /\ RunnersOwned)'
  BY <1>1, <1>2, <1>4, QuietKeeps
<1> QED
  BY <1>3, <1>5 DEF AndroidInv

LEMMA AgentExitsKeeps == ASSUME AndroidInv, AgentExits PROVE AndroidInv'
<1>1. /\ shutdown = "cleaning" /\ shutdown' = "exited"
      /\ awaited = {} \/ deadline = 0
      /\ UNCHANGED <<session, procs, calls, polls, forwards, runner, starting, outran, deadline,
                     awaited, failures, late>>
  BY DEF AgentExits, CleanedUp, world, past
<1>2. Ending'
  BY <1>1 DEF Ending, AndroidInv, Active
<1>3. deadline' \in Nat
  BY <1>1 DEF AndroidInv, Fields
<1>4. (Fields /\ SessionsInv /\ ForwardsOwned /\ RunnersOwned)'
  BY <1>1, <1>3, QuietKeeps, ChildStays
<1> QED
  BY <1>2, <1>4 DEF AndroidInv

LEMMA RestartFiresKeeps ==
  ASSUME AndroidInv, NEW s \in Sessions, RestartFires(s) PROVE AndroidInv'
<1> DEFINE x == Launched(session[s])
           c == Call("prepare", s)
<1>1. /\ session[s].restartTimer = 0 /\ shutdown # "exited"
      /\ session' = [session EXCEPT ![s] = x] /\ calls' = calls \union {c}
      /\ UNCHANGED <<procs, polls, forwards, runner, starting, outran, shutdown, deadline,
                     awaited, failures, late>>
  BY DEF RestartFires, Running, ending, world, past
<1>2. c \in CallFields /\ c.op = "prepare" /\ c.session = s
  BY CallFacts, Ops
<1>3. /\ Active(s) /\ LaunchCalls(s) = {} /\ Idle(session[s])
  BY <1>1 DEF AndroidInv, SessionsInv, Driven, Off, Idle
<1>4. /\ x \in SessionFields /\ x.restartTimer = Off /\ Idle(x)
      /\ x.device = session[s].device /\ x.port = session[s].port
      /\ x.isStopping = session[s].isStopping /\ x.generation = session[s].generation
  BY <1>3 DEF AndroidInv, Fields, SessionFields, Launched, Idle
<1> HIDE DEF x, c
<1>5. /\ session' \in [Sessions -> SessionFields] /\ session'[s] = x
      /\ \A t \in Sessions :
           /\ (Active(t)' <=> Active(t)) /\ (Known(t)' <=> Known(t))
           /\ session'[t].device = session[t].device /\ session'[t].port = session[t].port
  BY <1>1, <1>4, Edit DEF AndroidInv
<1>6. LaunchCalls(s)' = {c} /\ \A t \in Sessions : t # s => LaunchCalls(t)' = LaunchCalls(t)
  BY <1>1, <1>2, <1>3, Ops DEF LaunchCalls
<1>7. Driven(s)'
  BY <1>1, <1>3, <1>4, <1>5, <1>6 DEF Driven, Idle
<1>8. Known(s) /\ \A e \in calls' : Known(e.session)
  BY <1>1, <1>2, <1>3 DEF AndroidInv, SessionsInv, Active, Known
<1>9. SessionsInv'
  BY <1>1, <1>3, <1>4, <1>6, <1>7, <1>8, EditKeeps DEF Idle
<1>10. ForwardsOwned' /\ RunnersOwned'
  <2>1. \A t \in Sessions : /\ HoldsForward(t) => HoldsForward(t)'
                            /\ HoldsRunner(t) => HoldsRunner(t)'
    BY <1>1, <1>5 DEF HoldsForward, HoldsRunner
  <2> QED
    BY <1>1, <1>5, <2>1, OwnedKeeps DEF AndroidInv, Fields
<1>11. Ending'
  BY <1>1, <1>2, <1>5, EndingKeeps DEF AndroidInv
<1> QED
  BY <1>1, <1>2, <1>5, <1>9, <1>10, <1>11 DEF AndroidInv, Fields

-------------------------------------------------------------------------------
LEMMA EffectTypes ==
  ASSUME AndroidInv, NEW c \in calls, Takes(c) \/ NoEffect
  PROVE  /\ forwards' \in [1..MaxSessions -> Devices \union {NoDevice}]
         /\ runner' \subseteq runner /\ outran' \subseteq Devices
<1>1. session[c.session].device \in Devices
  BY DEF AndroidInv, SessionsInv, Known, Fields, CallFields, SessionFields
<1>2. CASE NoEffect
  BY <1>2 DEF NoEffect, world, AndroidInv, Fields
<1>3. CASE Takes(c)
  <2>1. runner' \subseteq runner
    BY <1>3 DEF Takes
  <2>2. \/ forwards' = forwards
        \/ forwards' = [forwards EXCEPT ![session[c.session].port] = session[c.session].device]
        \/ forwards' = [forwards EXCEPT ![session[c.session].port] = NoDevice]
    BY <1>3 DEF Takes
  <2>3. \/ outran' = outran
        \/ outran' = outran \union {session[c.session].device}
        \/ outran' = outran \ {session[c.session].device}
    BY <1>3 DEF Takes
  <2> QED
    BY <1>1, <2>1, <2>2, <2>3 DEF AndroidInv, Fields
<1> QED
  BY <1>2, <1>3

(* What serves after an adb command did before, or is on its way; and if the command
   should have ended it, that is on record. *)
LEMMA EffectOnRunners ==
  ASSUME NEW c, Takes(c), NEW d, d \in runner' \/ Ordered(d)
  PROVE  \/ d \in outran'
         \/ /\ d \in runner \/ Ordered(d)
            /\ d \in outran => d \in outran'
            /\ c.op \in {"clear", "forceStop"} => d # session[c.session].device
<1> DEFINE device == session[c.session].device
<1>1. CASE c.op \notin {"clear", "forceStop"}
  BY <1>1 DEF Takes
<1>2. CASE c.op \in {"clear", "forceStop"} /\ Ordered(device)
  BY <1>2 DEF Takes
<1>3. CASE c.op \in {"clear", "forceStop"} /\ ~Ordered(device)
  BY <1>3 DEF Takes
<1> QED
  BY <1>1, <1>2, <1>3

(* One call is followed by another, or by none, and the sessions stay as they are. *)
LEMMA CallsKeep ==
  ASSUME AndroidInv, UNCHANGED <<session, procs, polls>>,
         \A d \in calls' : Known(d.session),
         NEW u \in Sessions,
         \A t \in Sessions : t # u => LaunchCalls(t)' = LaunchCalls(t),
         Active(u) => \/ LaunchCalls(u)' = LaunchCalls(u)
                      \/ /\ session[u].restartTimer = Off /\ ~session[u].polling
                         /\ \E d \in calls' : LaunchCalls(u)' = {d}
  PROVE  SessionsInv'
<1>1. ASSUME NEW t \in Sessions PROVE Driven(t)'
  <2>1. CASE LaunchCalls(t)' = LaunchCalls(t)
    BY <2>1, DrivenSame DEF AndroidInv, SessionsInv
  <2>2. CASE t = u /\ ~Active(u)
    BY <2>2 DEF Driven, Active, AndroidInv, SessionsInv
  <2>3. CASE /\ t = u /\ Active(u) /\ session[u].restartTimer = Off /\ ~session[u].polling
             /\ \E d \in calls' : LaunchCalls(u)' = {d}
    BY <2>3 DEF Driven, Active, AndroidInv, SessionsInv
  <2> QED
    BY <2>1, <2>2, <2>3
<1>2. \A d \in calls' : Known(d.session)'
  BY DEF Known
<1>3. \A p \in procs : OfGeneration(p)' /\ Vouched(p)'
  BY DEF AndroidInv, SessionsInv, OfGeneration, Known, Vouched, Matters
<1>4. \A q \in polls : OfGeneration(q)'
  BY DEF AndroidInv, SessionsInv, OfGeneration, Known
<1> QED
  BY <1>1, <1>2, <1>3, <1>4 DEF SessionsInv

LEMMA CleanupReturnsKeeps ==
  ASSUME AndroidInv, NEW c \in calls, NEW ok \in BOOLEAN, CleanupReturns(c, ok)
  PROVE  AndroidInv'
<1> DEFINE s == c.session
<1>1. /\ c.op \in CleanupOps /\ shutdown # "exited"
      /\ Takes(c) \/ (~ok /\ NoEffect)
      /\ calls' = calls \ {c} /\ awaited' = awaited \ {c}
      /\ UNCHANGED <<session, procs, polls, starting, shutdown, deadline, late>>
      /\ IF ok THEN failures' = failures ELSE failures' = failures + 1
  BY DEF CleanupReturns, Running, ending, past, MayFail
<1>2. s \in Sessions /\ Fields /\ failures \in Nat
  BY DEF AndroidInv, Fields, CallFields
<1>3. failures' \in Nat /\ (failures' = 0 => failures = 0 /\ Takes(c))
  BY <1>1, <1>2
<1>4. /\ forwards' \in [1..MaxSessions -> Devices \union {NoDevice}]
      /\ runner' \subseteq runner /\ outran' \subseteq Devices
  BY <1>1, EffectTypes
<1>5. SessionsInv'
  <2>1. \A t \in Sessions : LaunchCalls(t)' = LaunchCalls(t)
    BY <1>1, <1>2, DropCall, Ops
  <2>2. \A d \in calls' : Known(d.session)
    BY <1>1 DEF AndroidInv, SessionsInv
  <2> QED
    BY <1>1, <1>2, <2>1, <2>2, CallsKeep
<1>6. \A t \in Sessions : t # s =>
        /\ HoldsForward(t) => HoldsForward(t)'
        /\ HoldsRunner(t) => HoldsRunner(t)'
  BY <1>1 DEF HoldsForward, HoldsRunner, Active
<1>7. ForwardsOwned'
  <2> SUFFICES ASSUME failures' = 0, NEW port \in 1..MaxSessions, forwards'[port] # NoDevice
               PROVE  \E t \in Sessions : /\ session'[t].port = port
                                          /\ session'[t].device = forwards'[port]
                                          /\ HoldsForward(t)'
    BY DEF ForwardsOwned
  <2>1. CASE c.op \in {"remove", "undo"}
    <3>1. forwards' = [forwards EXCEPT ![session[s].port] = NoDevice]
      BY <1>3, <2>1 DEF Takes
    <3>2. port # session[s].port /\ forwards'[port] = forwards[port]
      BY <1>2, <3>1 DEF Fields
    <3>3. PICK t \in Sessions : /\ session[t].port = port /\ session[t].device = forwards[port]
                                /\ HoldsForward(t)
      BY <1>3, <3>2 DEF AndroidInv, ForwardsOwned
    <3> QED
      BY <1>1, <1>6, <3>2, <3>3
  <2>2. CASE c.op = "forceStop"
    <3>1. forwards' = forwards
      BY <1>3, <2>2 DEF Takes
    <3>2. PICK t \in Sessions : /\ session[t].port = port /\ session[t].device = forwards[port]
                                /\ HoldsForward(t)
      BY <1>3, <3>1 DEF AndroidInv, ForwardsOwned
    <3>3. HoldsForward(t)'
      BY <1>1, <2>2, <3>2 DEF HoldsForward, Active
    <3> QED
      BY <1>1, <3>1, <3>2, <3>3
  <2> QED
    BY <1>1, <2>1, <2>2 DEF CleanupOps
<1>8. RunnersOwned'
  <2>1. \A i \in starting' : Known(i.session)'
    BY <1>1 DEF AndroidInv, RunnersOwned, Known
  <2>2. ASSUME failures' = 0, NEW d \in Devices, d \in runner' \/ Ordered(d)', d \notin outran'
        PROVE  \E t \in Sessions : session'[t].device = d /\ HoldsRunner(t)'
    <3>1. d \in runner' \/ Ordered(d)
      BY <1>1, <2>2 DEF Ordered
    <3>2. /\ d \in runner \/ Ordered(d)
          /\ d \notin outran
          /\ c.op = "forceStop" => d # session[s].device
      BY <1>3, <2>2, <3>1, EffectOnRunners
    <3>3. PICK t \in Sessions : session[t].device = d /\ HoldsRunner(t)
      BY <1>3, <2>2, <3>2 DEF AndroidInv, RunnersOwned
    <3>4. CASE c.op = "forceStop"
      BY <1>1, <1>6, <3>2, <3>3, <3>4
    <3>5. CASE c.op # "forceStop"
      BY <1>1, <3>3, <3>5 DEF HoldsRunner, Active
    <3> QED
      BY <3>4, <3>5
  <2> QED
    BY <2>1, <2>2 DEF RunnersOwned
<1>9. Ending'
  BY <1>1 DEF AndroidInv, Ending, Active
<1> QED
  BY <1>1, <1>2, <1>3, <1>4, <1>5, <1>7, <1>8, <1>9 DEF AndroidInv, Fields

LEMMA PreparedKeeps ==
  ASSUME AndroidInv, NEW s \in Sessions, Prepared(s) PROVE AndroidInv'
<1> DEFINE c == Call("prepare", s)
           x == [session[s] EXCEPT !.isInstalled = TRUE]
<1>1. c \in CallFields /\ c.op = "prepare" /\ c.session = s
  BY CallFacts, Ops
<1>2. /\ ~session[s].isStopping /\ c \in calls /\ shutdown # "exited" /\ Takes(c)
      /\ calls' = (calls \ {c}) \union {Call("forward", c.session)}
      /\ session' = [session EXCEPT ![s] = x]
      /\ UNCHANGED <<procs, polls, starting, shutdown, deadline, awaited, failures, late>>
  BY <1>1 DEF Prepared, LaunchGoesOn, Running, ending, past
<1> HIDE DEF c
<1>3. /\ session[s] \in SessionFields /\ Active(s) /\ LaunchCalls(s) = {c}
      /\ session[s].restartTimer = Off /\ Idle(session[s])
  BY <1>1, <1>2, LaunchUnderWay, Ops DEF Stale
<1>4. /\ x \in SessionFields /\ x.restartTimer = Off /\ Idle(x)
      /\ x.device = session[s].device /\ x.port = session[s].port
      /\ x.isStopping = session[s].isStopping /\ x.generation = session[s].generation
  BY <1>3 DEF SessionFields, Idle
<1> HIDE DEF x
<1>5. /\ calls' \subseteq CallFields
      /\ \A t \in Sessions : t # s => LaunchCalls(t)' = LaunchCalls(t)
      /\ \E d \in calls' : LaunchCalls(s)' = {d}
      /\ \A d \in calls' : d \in calls \/ (d.session = s /\ d.op = "forward")
  BY <1>1, <1>2, <1>3, SwapCall, Ops DEF AndroidInv
<1>6. /\ session' \in [Sessions -> SessionFields] /\ session'[s] = x
      /\ \A t \in Sessions :
           /\ (Active(t)' <=> Active(t)) /\ (Known(t)' <=> Known(t))
           /\ session'[t].device = session[t].device /\ session'[t].port = session[t].port
  BY <1>2, <1>4, Edit DEF AndroidInv
<1>7. forwards' = forwards /\ runner' = runner /\ outran' = outran
  BY <1>1, <1>2 DEF Takes
<1>8. Driven(s)'
  BY <1>3, <1>4, <1>5, <1>6 DEF Driven, Idle
<1>9. Known(s) /\ \A e \in calls' : Known(e.session)
  BY <1>3, <1>5 DEF AndroidInv, SessionsInv, Active, Known
<1>10. SessionsInv'
  BY <1>2, <1>3, <1>4, <1>5, <1>8, <1>9, EditKeeps DEF Idle
<1>11. ForwardsOwned' /\ RunnersOwned'
  <2>1. \A t \in Sessions : /\ HoldsForward(t) => HoldsForward(t)'
                            /\ HoldsRunner(t) => HoldsRunner(t)'
    BY <1>1, <1>2, <1>6 DEF HoldsForward, HoldsRunner
  <2> QED
    BY <1>2, <1>6, <1>7, <2>1, OwnedKeeps DEF AndroidInv, Fields
<1>12. Ending'
  BY <1>2, <1>5, <1>6, EndingKeeps DEF AndroidInv
<1> QED
  BY <1>2, <1>5, <1>6, <1>7, <1>10, <1>11, <1>12 DEF AndroidInv, Fields

LEMMA ForwardedKeeps ==
  ASSUME AndroidInv, NEW c \in calls, Forwarded(c) PROVE AndroidInv'
<1> DEFINE s == c.session
<1>1. /\ c.op = "forward" /\ shutdown # "exited" /\ Takes(c)
      /\ calls' = (calls \ {c}) \union {Call("clear", s)}
      /\ UNCHANGED <<session, procs, polls, starting, shutdown, deadline, awaited, failures, late>>
  BY DEF Forwarded, LaunchGoesOn, Running, ending, past
<1>2. s \in Sessions /\ Fields
  BY DEF AndroidInv, Fields, CallFields
<1>3. /\ calls' \subseteq CallFields
      /\ \A t \in Sessions : t # s => LaunchCalls(t)' = LaunchCalls(t)
      /\ LaunchCalls(s) = {c} => \E d \in calls' : LaunchCalls(s)' = {d}
      /\ \A d \in calls' : d \in calls \/ (d.session = s /\ d.op = "clear")
  BY <1>1, <1>2, SwapCall, Ops
<1>4. Active(s) => /\ session[s].restartTimer = Off /\ ~session[s].polling
                   /\ LaunchCalls(s) = {c}
  BY <1>1, LaunchUnderWay, Ops DEF Stale, Active, Idle
<1>5. \A d \in calls' : Known(d.session)
  BY <1>3 DEF AndroidInv, SessionsInv
<1>6. SessionsInv'
  BY <1>1, <1>2, <1>3, <1>4, <1>5, CallsKeep
<1>7. /\ runner' = runner /\ outran' = outran
      /\ forwards' = [forwards EXCEPT ![session[s].port] = session[s].device]
  BY <1>1 DEF Takes
<1>8. ForwardsOwned' /\ RunnersOwned'
  <2>1. \A t \in Sessions : /\ HoldsForward(t) => HoldsForward(t)'
                            /\ HoldsRunner(t) => HoldsRunner(t)'
    BY <1>1 DEF HoldsForward, HoldsRunner, Active
  <2>2. HoldsForward(s)'
    <3>1. Call("clear", s) \in calls' /\ Call("clear", s).op = "clear" /\ Call("clear", s).session = s
      BY <1>1, <1>2, CallFacts, Ops
    <3> QED
      BY <3>1 DEF HoldsForward
  <2>3. \A port \in 1..MaxSessions :
          \/ forwards'[port] \in {forwards[port], NoDevice}
          \/ session[s].port = port /\ session[s].device = forwards'[port]
    BY <1>2, <1>7 DEF Fields
  <2> QED
    BY <1>1, <1>2, <1>7, <2>1, <2>2, <2>3, OwnedKeeps DEF AndroidInv, Fields
<1>9. Ending'
  BY <1>1, <1>3, EndingKeeps DEF AndroidInv, Active
<1>10. forwards' \in [1..MaxSessions -> Devices \union {NoDevice}]
  BY <1>1, EffectTypes
<1> QED
  BY <1>1, <1>3, <1>6, <1>7, <1>8, <1>9, <1>10 DEF AndroidInv, Fields

LEMMA LaunchIsStaleKeeps ==
  ASSUME AndroidInv, NEW c \in calls, LaunchIsStale(c) PROVE AndroidInv'
<1> DEFINE s == c.session
<1>1. /\ c.op \in {"prepare", "clear"} /\ shutdown # "exited" /\ Takes(c)
      /\ session[s].isStopping
      /\ calls' = (calls \ {c}) \union {Call("undo", s)}
      /\ UNCHANGED <<session, procs, polls, starting, shutdown, deadline, awaited, failures, late>>
  BY DEF LaunchIsStale, LaunchGoesOn, Running, ending, past, UndoOf, Stale
<1>2. s \in Sessions /\ Fields
  BY DEF AndroidInv, Fields, CallFields
<1>3. /\ calls' \subseteq CallFields
      /\ \A t \in Sessions : t # s => LaunchCalls(t)' = LaunchCalls(t)
      /\ \A d \in calls' : d \in calls \/ (d.session = s /\ d.op = "undo")
  BY <1>1, <1>2, SwapCall, Ops
<1>4. ~Active(s)
  BY <1>1 DEF Active
<1>5. \A d \in calls' : Known(d.session)
  BY <1>3 DEF AndroidInv, SessionsInv
<1>6. SessionsInv'
  BY <1>1, <1>2, <1>3, <1>4, <1>5, CallsKeep
<1>7. runner' \subseteq runner /\ outran' \subseteq Devices /\ forwards' = forwards
  BY <1>1, EffectTypes DEF Takes
<1>8. ForwardsOwned' /\ RunnersOwned'
  <2>1. HoldsForward(s)'
    <3>1. Call("undo", s) \in calls' /\ Call("undo", s).op = "undo" /\ Call("undo", s).session = s
      BY <1>1, <1>2, CallFacts, Ops
    <3> QED
      BY <3>1 DEF HoldsForward
  <2>2. \A t \in Sessions : /\ HoldsForward(t) => HoldsForward(t)'
                            /\ HoldsRunner(t) => HoldsRunner(t)'
    BY <1>1, <2>1 DEF HoldsForward, HoldsRunner, Active
  <2>3. ForwardsOwned'
    BY <1>1, <1>7, <2>2, ForwardsKeep DEF AndroidInv
  <2>4. \A d \in Devices : d \in runner' \/ Ordered(d)' =>
          \/ d \in outran'
          \/ (d \in runner \/ Ordered(d)) /\ (d \in outran => d \in outran')
    BY <1>1, EffectOnRunners DEF Ordered
  <2>5. RunnersOwned'
    BY <1>1, <2>2, <2>4, RunnersKeep DEF AndroidInv, Fields
  <2> QED
    BY <2>3, <2>5
<1>9. Ending'
  BY <1>1, <1>3, EndingKeeps DEF AndroidInv, Active
<1> QED
  BY <1>1, <1>3, <1>6, <1>7, <1>8, <1>9 DEF AndroidInv, Fields

LEMMA SpawnsKeeps ==
  ASSUME AndroidInv, NEW c \in calls, Spawns(c) PROVE AndroidInv'
<1> DEFINE s == c.session
           x == [session[s] EXCEPT !.instrument = TRUE, !.polling = TRUE]
           i == [session |-> s, generation |-> session[s].generation]
<1>0. PICK p : p = [session |-> s, generation |-> session[s].generation,
                    alive |-> TRUE, escalation |-> Off]
  OBVIOUS
<1>1. /\ c.op = "clear" /\ ~Stale(c) /\ shutdown # "exited" /\ Takes(c)
      /\ session' = [session EXCEPT ![s].instrument = TRUE, ![s].polling = TRUE]
      /\ procs' = procs \union {p}
      /\ starting' = starting \union {i}
      /\ calls' = calls \ {c}
      /\ UNCHANGED <<polls, shutdown, deadline, awaited, failures, late>>
  BY <1>0 DEF Spawns, LaunchGoesOn, Running, ending, past
<1>2. /\ s \in Sessions /\ session[s] \in SessionFields
      /\ Active(s) /\ LaunchCalls(s) = {c}
      /\ session[s].restartTimer = Off /\ Idle(session[s])
  BY <1>1, LaunchUnderWay, Ops
<1>3. session' = [session EXCEPT ![s] = x]
  BY <1>1, <1>2 DEF AndroidInv, Fields
<1>4. /\ x \in SessionFields /\ x.restartTimer = Off /\ x.polling /\ x.instrument
      /\ x.device = session[s].device /\ x.port = session[s].port
      /\ x.isStopping = session[s].isStopping /\ x.generation = session[s].generation
  BY <1>2 DEF SessionFields
<1>5. /\ p \in ProcessFields /\ p.session = s /\ p.generation = session[s].generation
      /\ i \in [session : Sessions, generation : Nat] /\ i.session = s
  BY <1>0, <1>2 DEF SessionFields, ProcessFields
<1> HIDE DEF x, i
<1>6. /\ session' \in [Sessions -> SessionFields] /\ session'[s] = x
      /\ \A t \in Sessions :
           /\ (Active(t)' <=> Active(t)) /\ (Known(t)' <=> Known(t))
           /\ session'[t].device = session[t].device /\ session'[t].port = session[t].port
  BY <1>2, <1>3, <1>4, Edit DEF AndroidInv
<1>7. /\ calls' \subseteq CallFields /\ LaunchCalls(s)' = {}
      /\ \A t \in Sessions : t # s => LaunchCalls(t)' = LaunchCalls(t)
  BY <1>1, <1>2, DropCall DEF AndroidInv
<1>8. Driven(s)'
  BY <1>2, <1>4, <1>6, <1>7 DEF Driven
<1>9. OfGeneration(p)' /\ Vouched(p)'
  <2>1. Known(s)' /\ session'[p.session] = x /\ Known(p.session)'
    BY <1>2, <1>5, <1>6 DEF Active, Known
  <2>2. x.generation = p.generation /\ x.generation \in Nat /\ ~x.isStopping
    BY <1>2, <1>4, <1>5 DEF SessionFields, Active
  <2>3. OfGeneration(p)'
    BY <1>4, <2>1, <2>2 DEF OfGeneration
  <2>4. Vouched(p)'
    BY <2>1, <2>2 DEF Vouched, Matters
  <2> QED
    BY <2>3, <2>4
<1>10. Known(s) /\ \A e \in calls' : Known(e.session)
  BY <1>1, <1>2 DEF AndroidInv, SessionsInv, Active, Known
<1>11. SessionsInv'
  <2>1. \A y \in procs' : y \in procs \/ (OfGeneration(y)' /\ Vouched(y)')
    BY <1>1, <1>9
  <2> HIDE DEF s
  <2> QED
    BY <1>1, <1>2, <1>3, <1>4, <1>7, <1>8, <1>10, <2>1, EditKeeps
<1>12. HoldsForward(s)' /\ HoldsRunner(s)'
  BY <1>2, <1>6 DEF HoldsForward, HoldsRunner
<1>13. /\ forwards' = forwards /\ runner' \subseteq runner /\ outran' \subseteq Devices
  BY <1>1, EffectTypes DEF Takes
<1>14. ForwardsOwned' /\ RunnersOwned'
  <2>1. \A t \in Sessions : /\ HoldsForward(t) => HoldsForward(t)'
                            /\ HoldsRunner(t) => HoldsRunner(t)'
    BY <1>1, <1>6, <1>12 DEF HoldsForward, HoldsRunner
  <2>2. ForwardsOwned'
    BY <1>1, <1>6, <1>13, <2>1, ForwardsKeep DEF AndroidInv
  <2>3. ASSUME NEW d \in Devices, d \in runner' \/ Ordered(d)'
        PROVE  \/ d \in outran'
               \/ (d \in runner \/ Ordered(d)) /\ (d \in outran => d \in outran')
               \/ session'[s].device = d
    <3>1. CASE d \in runner' \/ Ordered(d)
      BY <1>1, <3>1, EffectOnRunners
    <3>2. CASE Ordered(d)' /\ ~Ordered(d)
      <4>1. PICK o \in starting' : session'[o.session].device = d
        BY <3>2 DEF Ordered
      <4>2. o = i
        BY <1>1, <1>6, <3>2, <4>1 DEF Ordered, AndroidInv, Fields
      <4> QED
        BY <1>5, <4>1, <4>2
    <3> QED
      BY <2>3, <3>1, <3>2
  <2>4. \A o \in starting' : o \in starting \/ Known(o.session)'
    BY <1>1, <1>2, <1>5, <1>6 DEF Active, Known
  <2>5. RunnersOwned'
    BY <1>1, <1>2, <1>6, <1>12, <2>1, <2>3, <2>4, RunnersKeep DEF AndroidInv, Fields
  <2> QED
    BY <2>2, <2>5
<1>15. Ending'
  <2>1. shutdown = "no" \/ s \in late
    BY <1>2 DEF AndroidInv, Ending
  <2>2. shutdown = "no" \/ \A y \in procs' : y.alive =>
          y.session \in late' \/ \E u \in procs : u.alive /\ u.session = y.session
    BY <1>1, <1>5, <2>1
  <2> QED
    BY <1>1, <1>6, <2>2, EndingKeeps DEF AndroidInv
<1> QED
  BY <1>1, <1>5, <1>6, <1>7, <1>11, <1>13, <1>14, <1>15 DEF AndroidInv, Fields

(* What was ordered is there: the runner it was meant for comes up. *)
LEMMA RunnerComesUpKeeps ==
  ASSUME AndroidInv, NEW i \in starting, RunnerComesUp(i) PROVE AndroidInv'
<1> DEFINE s == i.session
<1>1. /\ shutdown # "exited" /\ starting' = starting \ {i}
      /\ runner' = runner \union {session[s].device}
      /\ UNCHANGED <<session, procs, calls, polls, forwards, shutdown, deadline, awaited, outran,
                     failures, late>>
  BY DEF RunnerComesUp, Running, ending, past
<1>2. s \in Sessions /\ session[s].device \in Devices
  BY DEF AndroidInv, Fields, SessionFields, RunnersOwned, Known
<1>3. SessionsInv'
  <2>1. \A t \in Sessions : LaunchCalls(t)' = LaunchCalls(t)
    BY <1>1 DEF LaunchCalls
  <2> QED
    BY <1>1, <1>2, <2>1, CallsKeep DEF AndroidInv, SessionsInv
<1>4. \A t \in Sessions : /\ HoldsForward(t) => HoldsForward(t)'
                          /\ HoldsRunner(t) => HoldsRunner(t)'
  BY <1>1 DEF HoldsForward, HoldsRunner, Active
<1>5. ForwardsOwned'
  BY <1>1, <1>4, ForwardsKeep DEF AndroidInv
<1>6. \A d \in Devices : d \in runner' \/ Ordered(d)' => d \in runner \/ Ordered(d)
  BY <1>1 DEF Ordered
<1>7. RunnersOwned'
  BY <1>1, <1>4, <1>6, RunnersKeep DEF AndroidInv, Fields
<1>8. Ending'
  BY <1>1, EndingKeeps DEF AndroidInv, Active
<1> QED
  BY <1>1, <1>2, <1>3, <1>5, <1>7, <1>8 DEF AndroidInv, Fields

LEMMA LaunchFailsKeeps ==
  ASSUME AndroidInv, NEW c \in calls, LaunchFails(c) PROVE AndroidInv'
<1> DEFINE s == c.session
<1>1. /\ c.op \in LaunchOps /\ shutdown # "exited"
      /\ Takes(c) \/ NoEffect
      /\ calls' = calls \ {c} /\ failures' = failures + 1
      /\ UNCHANGED <<polls, starting, shutdown, deadline, awaited, late>>
      /\ IF Stale(c) THEN UNCHANGED <<session, procs>>
         ELSE ScheduleRestart(s, session[s], procs)
  BY DEF LaunchFails, Running, MayFail, ending
<1>2. s \in Sessions /\ Fields /\ failures \in Nat
  BY DEF AndroidInv, Fields, CallFields
<1>3. /\ forwards' \in [1..MaxSessions -> Devices \union {NoDevice}]
      /\ runner' \subseteq runner /\ outran' \subseteq Devices
  BY <1>1, EffectTypes
<1>4. failures' \in Nat /\ failures' # 0
  BY <1>1, <1>2
<1>5. (\A t \in Sessions : session'[t].device = session[t].device)
        => ForwardsOwned' /\ RunnersOwned'
  BY <1>1, <1>4 DEF ForwardsOwned, RunnersOwned, Known, AndroidInv, Fields
<1>6. /\ calls' \subseteq CallFields
      /\ LaunchCalls(s) = {c} => LaunchCalls(s)' = {}
      /\ \A t \in Sessions : t # s => LaunchCalls(t)' = LaunchCalls(t)
  BY <1>1, <1>2, DropCall
<1>7. CASE Stale(c)
  <2>1. \A d \in calls' : Known(d.session)
    BY <1>1 DEF AndroidInv, SessionsInv
  <2>2. ~Active(s)
    BY <1>7 DEF Stale, Active
  <2>3. SessionsInv'
    BY <1>1, <1>2, <1>6, <1>7, <2>1, <2>2, CallsKeep
  <2>4. Ending'
    BY <1>1, <1>7, EndingKeeps DEF AndroidInv, Active
  <2> QED
    BY <1>1, <1>3, <1>4, <1>5, <1>6, <1>7, <2>3, <2>4 DEF AndroidInv, Fields
<1>8. CASE ~Stale(c)
  <2>1. /\ session[s] \in SessionFields /\ Active(s) /\ LaunchCalls(s) = {c}
        /\ session[s].restartTimer = Off
    BY <1>1, <1>8, LaunchUnderWay
  <2>2. ~session[s].isStopping
    BY <2>1 DEF Active
  <2>3. /\ SessionsInv'
        /\ session' \in [Sessions -> SessionFields] /\ procs' \subseteq ProcessFields
        /\ \A q \in procs' : q.alive => \E p \in procs : p.alive /\ p.session = q.session
        /\ \A t \in Sessions :
             (Active(t)' <=> Active(t)) /\ session'[t].device = session[t].device
    BY <1>1, <1>2, <1>6, <1>8, <2>1, <2>2, RestartKeeps
  <2>5. Ending'
    BY <1>1, <2>3, EndingKeeps DEF AndroidInv
  <2> QED
    BY <1>1, <1>3, <1>4, <1>5, <1>6, <2>3, <2>5 DEF AndroidInv, Fields
<1> QED
  BY <1>7, <1>8

LEMMA AnswerFields ==
  ASSUME NEW r \in SessionFields
  PROVE  /\ Healthy(r) \in SessionFields /\ Unhealthy(r) \in SessionFields
         /\ \A x \in {Healthy(r), Unhealthy(r)} :
              /\ x.device = r.device /\ x.port = r.port /\ x.isStopping = r.isStopping
              /\ x.generation = r.generation /\ x.restartTimer = r.restartTimer
              /\ x.polling = r.polling /\ x.instrument = r.instrument
<1> DEFINE zero == 0
           count == IF r.isReady THEN Saturated(r.healthFailCount + 1, HealthFailThreshold)
                    ELSE r.healthFailCount
<1>1. zero \in Nat /\ zero \in 0..MaxAttempt /\ count \in Nat
  BY Ticks DEF SessionFields, Saturated
<1>2. /\ Healthy(r) = [r EXCEPT !.isReady = TRUE, !.healthFailCount = zero, !.restartAttempt = zero]
      /\ Unhealthy(r) = [r EXCEPT !.healthFailCount = count]
  BY DEF Healthy, Unhealthy
<1> HIDE DEF zero, count
<1>3. /\ Healthy(r) \in SessionFields
      /\ Healthy(r).device = r.device /\ Healthy(r).port = r.port
      /\ Healthy(r).isStopping = r.isStopping /\ Healthy(r).generation = r.generation
      /\ Healthy(r).restartTimer = r.restartTimer
      /\ Healthy(r).polling = r.polling /\ Healthy(r).instrument = r.instrument
  BY <1>1, <1>2 DEF SessionFields
<1>4. /\ Unhealthy(r) \in SessionFields
      /\ Unhealthy(r).device = r.device /\ Unhealthy(r).port = r.port
      /\ Unhealthy(r).isStopping = r.isStopping /\ Unhealthy(r).generation = r.generation
      /\ Unhealthy(r).restartTimer = r.restartTimer
      /\ Unhealthy(r).polling = r.polling /\ Unhealthy(r).instrument = r.instrument
  BY <1>1, <1>2 DEF SessionFields
<1> QED
  BY <1>3, <1>4

(* A child or a check that is not outdated finds its session polled. *)
LEMMA TimelyFinds ==
  ASSUME AndroidInv, NEW y, y.session \in Sessions, OfGeneration(y),
         ~session[y.session].isStopping, session[y.session].generation = y.generation
  PROVE  /\ session[y.session] \in SessionFields
         /\ Active(y.session) /\ Known(y.session) /\ session[y.session].polling
         /\ session[y.session].instrument /\ session[y.session].restartTimer = Off
         /\ LaunchCalls(y.session) = {}
<1>1. session[y.session] \in SessionFields /\ Driven(y.session)
  BY DEF AndroidInv, Fields, SessionsInv
<1>2. session[y.session].polling /\ Known(y.session)
  BY DEF OfGeneration
<1> QED
  BY <1>1, <1>2 DEF Driven

LEMMA PollAnswersKeeps ==
  ASSUME AndroidInv, NEW q \in polls, NEW healthy \in BOOLEAN, PollAnswers(q, healthy)
  PROVE  AndroidInv'
<1> DEFINE s == q.session
           r == IF healthy THEN Healthy(session[s]) ELSE Unhealthy(session[s])
<1>1. /\ shutdown # "exited" /\ polls' = polls \ {q}
      /\ UNCHANGED <<calls, forwards, runner, starting, outran, shutdown, deadline, awaited,
                     failures, late>>
      /\ IF Outdated(q) THEN UNCHANGED <<session, procs>>
         ELSE IF ~healthy /\ Hopeless(r) THEN ScheduleRestart(s, r, procs)
         ELSE session' = [session EXCEPT ![s] = r] /\ UNCHANGED procs
  BY DEF PollAnswers, Running, ending, world, past
<1>2. CASE Outdated(q)
  BY <1>1, <1>2, QuietEnding, ChildStays
<1>3. CASE ~Outdated(q)
  <2>1. s \in Sessions /\ OfGeneration(q)
    BY DEF AndroidInv, Fields, SessionsInv
  <2>2. /\ session[s] \in SessionFields
        /\ Active(s) /\ Known(s) /\ session[s].polling
        /\ session[s].instrument /\ session[s].restartTimer = Off
        /\ LaunchCalls(s) = {} /\ ~session[s].isStopping
    BY <1>3, <2>1, TimelyFinds DEF Outdated
  <2>3. /\ r \in SessionFields
        /\ r.device = session[s].device /\ r.port = session[s].port
        /\ r.isStopping = session[s].isStopping
        /\ r.generation = session[s].generation /\ r.restartTimer = Off
        /\ r.polling = session[s].polling /\ r.instrument = session[s].instrument
    BY <2>2, AnswerFields
  <2> HIDE DEF r
  <2>4. \A t \in Sessions : LaunchCalls(t)' = LaunchCalls(t)
    BY <1>1 DEF LaunchCalls
  <2>5. /\ SessionsInv'
        /\ session' \in [Sessions -> SessionFields] /\ procs' \subseteq ProcessFields
        /\ \A u \in procs' : u.alive => \E w \in procs : w.alive /\ w.session = u.session
        /\ \A t \in Sessions :
             /\ (Active(t)' <=> Active(t))
             /\ session'[t].device = session[t].device /\ session'[t].port = session[t].port
    <3>1. CASE ~healthy /\ Hopeless(r)
      <4>1. ScheduleRestart(s, r, procs)
        BY <1>1, <1>3, <3>1
      <4> HIDE DEF s
      <4> QED
        BY <1>1, <2>1, <2>2, <2>3, <2>4, <4>1, RestartKeeps
    <3>2. CASE ~(~healthy /\ Hopeless(r))
      <4>1. session' = [session EXCEPT ![s] = r] /\ procs' = procs
        BY <1>1, <1>3, <3>2
      <4>2. /\ session' \in [Sessions -> SessionFields] /\ session'[s] = r
            /\ \A t \in Sessions :
                 /\ (Active(t)' <=> Active(t))
                 /\ session'[t].device = session[t].device /\ session'[t].port = session[t].port
        BY <2>1, <2>3, <4>1, Edit DEF AndroidInv
      <4>3. Driven(s)'
        BY <2>1, <2>2, <2>3, <2>4, <4>2 DEF Driven
      <4>4. SessionsInv'
        BY <1>1, <2>1, <2>2, <2>3, <2>4, <4>1, <4>3, EditKeeps DEF AndroidInv, SessionsInv
      <4> QED
        BY <4>1, <4>2, <4>4 DEF AndroidInv, Fields
    <3> QED
      BY <3>1, <3>2
  <2>6. ForwardsOwned' /\ RunnersOwned'
    <3>1. \A t \in Sessions : /\ HoldsForward(t) => HoldsForward(t)'
                              /\ HoldsRunner(t) => HoldsRunner(t)'
      BY <1>1, <2>5 DEF HoldsForward, HoldsRunner
    <3> QED
      BY <1>1, <2>5, <3>1, OwnedKeeps DEF AndroidInv, Fields
  <2>8. Ending'
    BY <1>1, <2>5, EndingKeeps DEF AndroidInv
  <2> QED
    BY <1>1, <2>5, <2>6, <2>8 DEF AndroidInv, Fields
<1> QED
  BY <1>2, <1>3

LEMMA ExitEventKeeps ==
  ASSUME AndroidInv, NEW p \in procs, ExitEvent(p) PROVE AndroidInv'
<1> DEFINE s == p.session
<1>1. /\ shutdown # "exited"
      /\ UNCHANGED <<calls, polls, forwards, runner, starting, outran, shutdown, deadline,
                     awaited, failures, late>>
      /\ IF Matters(p) THEN ScheduleRestart(s, session[s], procs \ {p})
         ELSE procs' = procs \ {p} /\ UNCHANGED session
  BY DEF ExitEvent, Running, ending, world, past
<1>2. CASE ~Matters(p)
  BY <1>1, <1>2, QuietEnding, ChildStays
<1>3. CASE Matters(p)
  <2>1. s \in Sessions /\ OfGeneration(p)
    BY DEF AndroidInv, Fields, SessionsInv, ProcessFields
  <2>2. /\ session[s] \in SessionFields
        /\ Active(s) /\ session[s].restartTimer = Off
        /\ LaunchCalls(s) = {} /\ ~session[s].isStopping
    BY <1>3, <2>1, TimelyFinds DEF Matters
  <2>3. \A t \in Sessions : LaunchCalls(t)' = LaunchCalls(t)
    BY <1>1 DEF LaunchCalls
  <2>4. ScheduleRestart(s, session[s], procs \ {p})
    BY <1>1, <1>3
  <2>5. /\ SessionsInv'
        /\ session' \in [Sessions -> SessionFields] /\ procs' \subseteq ProcessFields
        /\ \A u \in procs' : u.alive => \E w \in procs : w.alive /\ w.session = u.session
        /\ \A t \in Sessions :
             /\ (Active(t)' <=> Active(t))
             /\ session'[t].device = session[t].device /\ session'[t].port = session[t].port
    <3> HIDE DEF s
    <3> QED
      BY <1>1, <2>1, <2>2, <2>3, <2>4, RestartKeeps
  <2>6. ForwardsOwned' /\ RunnersOwned'
    <3>1. \A t \in Sessions : /\ HoldsForward(t) => HoldsForward(t)'
                              /\ HoldsRunner(t) => HoldsRunner(t)'
      BY <1>1, <2>5 DEF HoldsForward, HoldsRunner
    <3> QED
      BY <1>1, <2>5, <3>1, OwnedKeeps DEF AndroidInv, Fields
  <2>8. Ending'
    BY <1>1, <2>5, EndingKeeps DEF AndroidInv
  <2> QED
    BY <1>1, <2>5, <2>6, <2>8 DEF AndroidInv, Fields
<1> QED
  BY <1>2, <1>3

LEMMA TickKeeps == ASSUME AndroidInv, Tick PROVE AndroidInv'
<1> DEFINE down(n) == IF n > 0 THEN n - 1 ELSE n
           aged(s) == IF Active(s) THEN Saturated(session[s].age + 1, ReadyDeadline)
                      ELSE session[s].age
           session1(s) == [session[s] EXCEPT !.restartTimer = down(@), !.age = aged(s)]
           lives(p) == p.alive /\ p.escalation # 0
           later(p) == [p EXCEPT !.alive = lives(p), !.escalation = down(@)]
           older(c) == [c EXCEPT !.left = down(@)]
<1>1. /\ shutdown # "exited"
      /\ session' = [s \in Sessions |-> session1(s)]
      /\ procs' = {later(p) : p \in procs}
      /\ calls' = {older(c) : c \in calls} /\ awaited' = {older(c) : c \in awaited}
      /\ deadline' = IF shutdown = "no" THEN deadline ELSE deadline - 1
      /\ shutdown # "no" => deadline > 0
      /\ UNCHANGED <<polls, forwards, runner, starting, outran, shutdown, failures, late>>
  BY DEF Tick, Running, world, past
<1>2. ASSUME NEW s \in Sessions
      PROVE  /\ session1(s) \in SessionFields
             /\ session1(s).device = session[s].device /\ session1(s).port = session[s].port
             /\ session1(s).instrument = session[s].instrument
             /\ session1(s).isReady = session[s].isReady
             /\ session1(s).polling = session[s].polling
             /\ session1(s).isStopping = session[s].isStopping
             /\ session1(s).generation = session[s].generation
             /\ session1(s).restartTimer = Off <=> session[s].restartTimer = Off
  <2>1. session[s] \in SessionFields
    BY DEF AndroidInv, Fields
  <2>2. session[s].age \in Nat /\ session[s].restartTimer \in {Off} \union Nat
    BY <2>1 DEF SessionFields
  <2>3. aged(s) \in Nat
    BY <2>2, Ticks DEF Saturated
  <2>4. /\ down(session[s].restartTimer) \in {Off} \union Nat
        /\ down(session[s].restartTimer) = Off <=> session[s].restartTimer = Off
    BY <2>2 DEF Off
  <2> HIDE DEF aged, down
  <2> QED
    BY <2>1, <2>3, <2>4 DEF SessionFields
<1>3. ASSUME NEW p \in procs
      PROVE  /\ later(p) \in ProcessFields
             /\ later(p).session = p.session /\ later(p).generation = p.generation
             /\ later(p).alive => p.alive
             /\ later(p).escalation = Off => p.escalation = Off
  <2>1. p \in ProcessFields
    BY DEF AndroidInv, Fields
  <2>2. p.escalation \in {Off} \union Nat
    BY <2>1 DEF ProcessFields
  <2>3. /\ down(p.escalation) \in {Off} \union Nat
        /\ down(p.escalation) = Off => p.escalation = Off
    BY <2>2 DEF Off
  <2>4. lives(p) \in BOOLEAN /\ (lives(p) => p.alive)
    OBVIOUS
  <2> HIDE DEF down, lives
  <2> QED
    BY <2>1, <2>3, <2>4 DEF ProcessFields
<1>4. ASSUME NEW c \in calls
      PROVE  older(c) \in CallFields /\ older(c).op = c.op /\ older(c).session = c.session
  <2>1. c \in CallFields /\ c.left \in {Off} \union Nat
    BY DEF AndroidInv, Fields, CallFields
  <2>2. down(c.left) \in {Off} \union Nat
    BY <2>1 DEF Off
  <2> HIDE DEF down
  <2> QED
    BY <2>1, <2>2 DEF CallFields
<1> HIDE DEF session1, later, older
<1>5. /\ session' \in [Sessions -> SessionFields]
      /\ \A s \in Sessions :
           /\ session'[s] = session1(s)
           /\ session'[s].device = session[s].device /\ session'[s].port = session[s].port
           /\ (Active(s)' <=> Active(s)) /\ (Known(s)' <=> Known(s))
  BY <1>1, <1>2 DEF Active, Known
<1>6. ASSUME NEW t \in Sessions
      PROVE  /\ LaunchCalls(t) = {} => LaunchCalls(t)' = {}
             /\ (\E c \in calls : LaunchCalls(t) = {c}) => \E c \in calls' : LaunchCalls(t)' = {c}
  <2>1. LaunchCalls(t)' = {older(c) : c \in LaunchCalls(t)}
    BY <1>1, <1>4 DEF LaunchCalls
  <2>2. ASSUME NEW c \in calls, LaunchCalls(t) = {c}
        PROVE  LaunchCalls(t)' = {older(c)} /\ older(c) \in calls'
    BY <1>1, <2>1, <2>2
  <2> QED
    BY <2>1, <2>2
<1>7. ASSUME NEW t \in Sessions PROVE Driven(t)'
  <2>1. Driven(t)
    BY DEF AndroidInv, SessionsInv
  <2> QED
    BY <1>2, <1>5, <1>6, <2>1 DEF Driven
<1>8. \A q \in procs' : q \in ProcessFields /\ OfGeneration(q)' /\ Vouched(q)'
  <2> TAKE q \in procs'
  <2>1. PICK p \in procs : q = later(p)
    BY <1>1
  <2>2. p.session \in Sessions /\ OfGeneration(p) /\ Vouched(p)
    BY DEF AndroidInv, Fields, SessionsInv, ProcessFields
  <2>3. OfGeneration(q)'
    BY <1>2, <1>3, <1>5, <2>1, <2>2 DEF OfGeneration
  <2>4. Vouched(q)'
    BY <1>2, <1>3, <1>5, <2>1, <2>2 DEF Vouched, Matters
  <2> QED
    BY <1>3, <2>1, <2>3, <2>4
<1>9. \A q \in polls : OfGeneration(q)'
  BY <1>2, <1>5 DEF OfGeneration, AndroidInv, Fields, SessionsInv
<1>10. \A c \in calls' : c \in CallFields /\ Known(c.session)'
  BY <1>1, <1>4, <1>5 DEF AndroidInv, Fields, CallFields, SessionsInv
<1>11. ForwardsOwned' /\ RunnersOwned'
  <2>1. ASSUME NEW t \in Sessions
        PROVE  /\ HoldsForward(t) => HoldsForward(t)'
               /\ HoldsRunner(t) => HoldsRunner(t)'
    BY <1>1, <1>4, <1>5 DEF HoldsForward, HoldsRunner
  <2> QED
    BY <1>1, <1>5, <2>1, OwnedKeeps DEF AndroidInv, Fields
<1>12. Ending'
  <2>1. shutdown # "no" => \A s \in Sessions : Active(s)' => s \in late
    BY <1>5 DEF AndroidInv, Ending
  <2>2. shutdown = "cleaning" => \A q \in procs' : q.alive => q.session \in late
    BY <1>1, <1>3 DEF AndroidInv, Ending
  <2>3. shutdown = "cleaning" =>
          \A c \in calls' : c.op = "forceStop" => c \in awaited' \/ c.session \in late
    BY <1>1, <1>4 DEF AndroidInv, Ending
  <2> QED
    BY <1>1, <2>1, <2>2, <2>3 DEF Ending
<1>13. deadline' \in Nat
  BY <1>1 DEF AndroidInv, Fields
<1> QED
  BY <1>1, <1>5, <1>7, <1>8, <1>9, <1>10, <1>11, <1>12, <1>13 DEF AndroidInv, Fields, SessionsInv

-------------------------------------------------------------------------------
LEMMA AndroidInit == Init => AndroidInv
<1> SUFFICES ASSUME Init PROVE AndroidInv
  OBVIOUS
<1>1. /\ \A s \in Sessions : session[s] = NoSession
      /\ session \in [Sessions -> {NoSession}]
      /\ procs = {} /\ polls = {} /\ calls = {} /\ runner = {} /\ awaited = {}
      /\ starting = {} /\ outran = {} /\ late = {}
      /\ forwards = [port \in 1..MaxSessions |-> NoDevice]
      /\ shutdown = "no" /\ deadline = Grace /\ failures = 0
  BY DEF Init
<1>2. NoSession \in SessionFields
  BY Ticks DEF NoSession, SessionFields, Off
<1>3. Fields
  BY <1>1, <1>2, Ticks DEF Fields
<1>4. \A s \in Sessions : Driven(s)
  BY <1>1 DEF Driven, Active, NoSession
<1>5. ForwardsOwned /\ RunnersOwned /\ Ending
  BY <1>1 DEF ForwardsOwned, RunnersOwned, Ordered, Ending, Active, NoSession
<1> QED
  BY <1>1, <1>3, <1>4, <1>5 DEF AndroidInv, SessionsInv

LEMMA StutterKeeps == ASSUME AndroidInv, UNCHANGED vars PROVE AndroidInv'
<1>1. Ending'
  BY DEF vars, ending, AndroidInv, Ending, Active
<1>2. deadline' \in Nat /\ shutdown' \in {"no", "terminating", "cleaning", "exited"}
  BY DEF vars, AndroidInv, Fields
<1>3. (Fields /\ SessionsInv /\ ForwardsOwned /\ RunnersOwned)'
  BY <1>2, QuietKeeps, ChildStays DEF vars
<1> QED
  BY <1>1, <1>3 DEF AndroidInv

LEMMA AndroidStep == AndroidInv /\ [Next]_vars => AndroidInv'
<1> SUFFICES ASSUME AndroidInv, [Next]_vars PROVE AndroidInv'
  OBVIOUS
<1>1. ASSUME NEW d \in Devices, StartSession(d) \/ StopSession(d) \/ RunnerEnds(d)
      PROVE  AndroidInv'
  BY <1>1, StartSessionKeeps, StopSessionKeeps, RunnerEndsKeeps
<1>2. ASSUME NEW s \in Sessions, RestartFires(s) \/ PollStarts(s) \/ Prepared(s)
      PROVE  AndroidInv'
  BY <1>2, RestartFiresKeeps, PollStartsKeeps, PreparedKeeps
<1>3. ASSUME NEW c \in calls, NEW ok \in BOOLEAN, CleanupReturns(c, ok) PROVE AndroidInv'
  BY <1>3, CleanupReturnsKeeps
<1>4. ASSUME NEW c \in calls, Forwarded(c) \/ LaunchIsStale(c) \/ Spawns(c) \/ LaunchFails(c)
      PROVE  AndroidInv'
  BY <1>4, ForwardedKeeps, LaunchIsStaleKeeps, SpawnsKeeps, LaunchFailsKeeps
<1>9. ASSUME NEW i \in starting, RunnerComesUp(i) PROVE AndroidInv'
  BY <1>9, RunnerComesUpKeeps
<1>5. ASSUME NEW q \in polls, NEW healthy \in BOOLEAN, PollAnswers(q, healthy)
      PROVE  AndroidInv'
  BY <1>5, PollAnswersKeeps
<1>6. ASSUME NEW p \in procs, Exits(p) \/ ExitEvent(p) PROVE AndroidInv'
  BY <1>6, ExitsKeeps, ExitEventKeeps
<1>7. CASE PortReturns \/ Shutdown \/ ChildrenAreGone \/ AgentExits \/ Tick
  BY <1>7, PortReturnsKeeps, ShutdownKeeps, ChildrenAreGoneKeeps, AgentExitsKeeps, TickKeeps
<1>8. CASE UNCHANGED vars
  BY <1>8, StutterKeeps
<1> QED
  BY <1>1, <1>2, <1>3, <1>4, <1>5, <1>6, <1>7, <1>8, <1>9 DEF Next

(* The inductive invariant holds in every state a supervisor reaches. *)
THEOREM AndroidInvariant == Spec => []AndroidInv
<1> QED
  BY AndroidInit, AndroidStep, PTL DEF Spec

(* launch, scheduleRestart, pollHealth and the exit handler hand a session over to
   each other: in every state exactly one of a launch under way, a restart timer and
   the health polls drives it, however late an adb call, an answer or an exit event
   comes. *)
THEOREM SessionsHaveOneDriver == Spec => []OneDriver
<1>1. AndroidInv => OneDriver
  <2> SUFFICES ASSUME AndroidInv, NEW s \in Sessions, Active(s)
               PROVE  /\ session[s].polling <=> session[s].instrument
                      /\ Cardinality({x \in {"timer", "polls"} :
                           IF x = "timer" THEN session[s].restartTimer # Off
                           ELSE session[s].polling})
                         + Cardinality(LaunchCalls(s)) = 1
    BY DEF OneDriver
  <2> DEFINE drivers == {x \in {"timer", "polls"} :
                           IF x = "timer" THEN session[s].restartTimer # Off
                           ELSE session[s].polling}
  <2>1. Driven(s)
    BY DEF AndroidInv, SessionsInv
  <2>2. Cardinality({}) = 0 /\ \A e : Cardinality({e}) = 1
    BY FS_EmptySet, FS_Singleton
  <2>3. session[s].polling <=> session[s].instrument
    BY <2>1 DEF Driven
  <2>4. Cardinality(drivers) + Cardinality(LaunchCalls(s)) = 1
    <3>1. CASE session[s].restartTimer # Off /\ ~session[s].polling /\ LaunchCalls(s) = {}
      <4>1. drivers = {"timer"}
        BY <3>1
      <4>2. Cardinality(drivers) = 1 /\ Cardinality(LaunchCalls(s)) = 0
        BY <2>2, <3>1, <4>1
      <4> HIDE DEF drivers
      <4> QED
        BY <4>2
    <3>2. CASE session[s].restartTimer = Off /\ session[s].polling /\ LaunchCalls(s) = {}
      <4>1. drivers = {"polls"}
        BY <3>2
      <4>2. Cardinality(drivers) = 1 /\ Cardinality(LaunchCalls(s)) = 0
        BY <2>2, <3>2, <4>1
      <4> HIDE DEF drivers
      <4> QED
        BY <4>2
    <3>3. CASE /\ session[s].restartTimer = Off /\ ~session[s].polling
               /\ \E c \in calls : LaunchCalls(s) = {c}
      <4>1. drivers = {}
        BY <3>3
      <4>2. Cardinality(drivers) = 0 /\ Cardinality(LaunchCalls(s)) = 1
        BY <2>2, <3>3, <4>1
      <4> HIDE DEF drivers
      <4> QED
        BY <4>2
    <3> HIDE DEF drivers
    <3> QED
      BY <2>1, <3>1, <3>2, <3>3 DEF Driven
  <2> QED
    BY <2>3, <2>4
<1> QED
  BY <1>1, AndroidInvariant, PTL

(* A session counts as ready only while its present generation is polled: no late
   health answer revives one that waits for its restart. *)
THEOREM ReadySessionsAreSupervised == Spec => []ReadyIsSupervised
<1>1. AndroidInv => ReadyIsSupervised
  BY DEF AndroidInv, SessionsInv, Driven, ReadyIsSupervised
<1> QED
  BY <1>1, AndroidInvariant, PTL

(* Unless adb fails, a forward that no session asked for is on its way out, also the
   one that a launch makes for a session that was stopped meanwhile. *)
THEOREM NoForwardIsForgotten == Spec => []ForwardsAccounted
<1>1. AndroidInv => ForwardsAccounted
  BY DEF AndroidInv, ForwardsOwned, HoldsForward, ForwardsAccounted
<1> QED
  BY <1>1, AndroidInvariant, PTL

(* After awaitTermination no child is left but those of a late discovery; and unless
   adb failed or the grace was over, no runner serves a phone or is on its way up but
   theirs, and one whose force-stop came before it was up: the force-stops of all the
   other sessions were waited for. *)
THEOREM ExitIsClean == Spec => []CleanExit
<1>1. AndroidInv => CleanExit
  <2> SUFFICES ASSUME AndroidInv, shutdown = "exited"
               PROVE  /\ \A p \in procs : p.alive => p.session \in late
                      /\ failures = 0 /\ deadline > 0 =>
                           \A d \in Devices : d \in runner \/ Ordered(d) =>
                             d \in outran \/ \E s \in late : session[s].device = d
    BY DEF CleanExit
  <2>1. \A p \in procs : p.alive => p.session \in late
    BY DEF AndroidInv, Ending
  <2>2. ASSUME failures = 0, deadline > 0, NEW d \in Devices, d \in runner \/ Ordered(d),
               d \notin outran
        PROVE  \E s \in late : session[s].device = d
    <3>1. PICK s \in Sessions : session[s].device = d /\ HoldsRunner(s)
      BY <2>2 DEF AndroidInv, RunnersOwned
    <3>2. s \in late
      BY <2>2, <3>1 DEF AndroidInv, Ending, HoldsRunner
    <3> QED
      BY <3>1, <3>2
  <2> QED
    BY <2>1, <2>2
<1> QED
  BY <1>1, AndroidInvariant, PTL
================================================================================
