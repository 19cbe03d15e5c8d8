----------------------------- MODULE AgentProofs ------------------------------
(*****************************************************************************)
(* Proofs about the agent's process and the phone it drives: ServerTunnel,   *)
(* for any delays and any number of sockets; AgentLoop, for any devices and  *)
(* any limit of failures; and DeviceRunner, for any number of commands and   *)
(* any time limits that satisfy RunnerAssumption.                            *)
(*                                                                           *)
(* The inductive invariant of the tunnel is TunnelInv.  Its core is          *)
(* StepOfLife: a scheduled attempt is the only timer there is, and the       *)
(* timers of a connection exist only while it does.  Counting relates the    *)
(* counter and the timers to the history NoFastLoop measures them by.        *)
(*                                                                           *)
(* The inductive invariant of the main loop is LoopInv.  DroppedForCause     *)
(* needs more than the step that drops a device: that what is supervised     *)
(* came from the lists of the sources (SupervisedIsFound), and that a list   *)
(* names devices of its own source only (OwnDevices), for otherwise a        *)
(* device could vanish with the list of another source.                      *)
(*                                                                           *)
(* The inductive invariant of the phone is RunnerInv, of two cores.          *)
(* OneCommandWaits: on Android the backlog of the UiAutomation thread is the *)
(* command the agent waits for, or nothing, because that command is          *)
(* cancelled before the agent gives up on it.  Calm: on iOS nothing but that *)
(* command is performed or waits, until an action has lasted as long as a    *)
(* poll waits.                                                               *)
(*****************************************************************************)
EXTENDS ServerTunnel, AgentLoop, DeviceRunner, SequenceTheorems, TLAPS

SocketInUse == \A s \in Sockets : readyState[s] # "unused" => s = socket

StepOfLife ==
  \A r \in Scheduled :
    /\ readyState[socket] = "unused"
    /\ field["reconnect"] = r.of
    /\ timers = {r}

ClosedForGood == isClosed => readyState[socket] \in {"unused", "closing"}

Counting ==
  /\ readyState[socket] \in {"unused", "connecting"} => upFor = NotOpen
  /\ \A t \in timers : t.kind = "stableReset" => t.left + upFor = StableReset
  /\ ~isClosed => reconnectAttempt >= streak \/ upFor = StableReset
  /\ \A r \in Scheduled : downFor >= pause \/ r.left + downFor >= pause

TunnelInv ==
  /\ TypeOK
  /\ SocketInUse /\ TimersFollowConnection /\ StepOfLife
  /\ ClosedForGood /\ QuietAfterClose
  /\ Counting

-------------------------------------------------------------------------------
(* A delay is a number of ticks between none and the longest. *)
LEMMA BackoffInRange ==
  ASSUME NEW n \in 0..MaxAttempt
  PROVE  Backoff(n) \in 0..BackoffMax
<1>1. BackoffBase * 2^n \in Int /\ BackoffBase <= BackoffBase * 2^n
  BY TunnelAssumption, DelaysGrow
<1> QED
  BY <1>1, TunnelAssumption DEF Backoff

(* More closes in a row never make a shorter delay. *)
LEMMA BackoffMonotonic ==
  ASSUME NEW i \in 0..MaxAttempt, NEW j \in 0..MaxAttempt, i <= j
  PROVE  Backoff(i) <= Backoff(j)
<1>1. /\ BackoffBase * 2^i \in Int /\ BackoffBase * 2^j \in Int
      /\ BackoffBase * 2^i <= BackoffBase * 2^j
  BY TunnelAssumption, DelaysGrow
<1> QED
  BY <1>1, TunnelAssumption DEF Backoff

LEMMA SaturatedInRange ==
  ASSUME NEW bound \in Nat, NEW n \in Nat
  PROVE  Saturated(n, bound) \in 0..bound
  BY DEF Saturated

(* What a timer in its type looks like, without the quantifier over kinds. *)
LEMMA TimerFields ==
  ASSUME TypeOK, NEW t \in timers
  PROVE  /\ t.kind \in TimerKinds /\ t.of \in Sockets /\ t.left \in Nat
         /\ t = Timer(t.kind, t.of, t.left)
  BY TunnelAssumption
     DEF TypeOK, Timer, TimerKinds, ConnectionTimers, Longest

(* The close event of a connection, or close(), leaves none of its timers. *)
LEMMA NoneKept ==
  ASSUME TypeOK, TimersFollowConnection, StepOfLife,
         NEW kinds, ConnectionTimers \subseteq kinds,
         "reconnect" \in kinds \/ Scheduled = {}
  PROVE  Kept(kinds) = {}
<1> SUFFICES ASSUME NEW t \in Kept(kinds) PROVE FALSE
  OBVIOUS
<1>1. t \in timers /\ (t.kind \notin kinds \/ field[t.kind] # t.of)
  BY DEF Kept
<1>2. t.kind \in TimerKinds
  BY <1>1, TimerFields
<1>3. CASE t.kind \in ConnectionTimers
  BY <1>1, <1>3 DEF TimersFollowConnection
<1>4. CASE t.kind = "reconnect"
  BY <1>1, <1>4 DEF StepOfLife, Scheduled
<1> QED
  BY <1>2, <1>3, <1>4 DEF TimerKinds

LEMMA InitInv == Init => TunnelInv
<1> SUFFICES ASSUME Init PROVE TunnelInv
  OBVIOUS
<1> USE TunnelAssumption DEF Init
<1>1. Scheduled = {}
  BY DEF Scheduled
<1>2. TypeOK
  <2>1. /\ reconnectAttempt \in 0..MaxAttempt /\ streak \in 0..MaxAttempt
        /\ downFor \in 0..BackoffMax /\ pause \in 0..BackoffMax
        /\ upFor \in {NotOpen}
    OBVIOUS
  <2>2. /\ readyState \in [Sockets -> {"unused", "connecting", "open", "closing"}]
        /\ field \in [TimerKinds -> Sockets \union {NoSocket}]
    OBVIOUS
  <2> QED
    BY <2>1, <2>2 DEF TypeOK
<1>3. SocketInUse /\ TimersFollowConnection /\ ClosedForGood /\ QuietAfterClose
  BY DEF SocketInUse, TimersFollowConnection, ClosedForGood, QuietAfterClose
<1>4. StepOfLife /\ Counting
  BY <1>1 DEF StepOfLife, Counting
<1> QED
  BY <1>2, <1>3, <1>4 DEF TunnelInv

-------------------------------------------------------------------------------
(* One lemma per action: it preserves the invariant. *)
LEMMA OpenKeeps ==
  ASSUME TunnelInv, NEW s \in Sockets, Open(s)
  PROVE  TunnelInv'
<1> USE TunnelAssumption DEF TunnelInv
<1>1. s = socket /\ timers = {} /\ ~isClosed /\ upFor = NotOpen
  <2>1. s = socket
    BY DEF Open, Opens, SocketInUse
  <2>2. \A t \in timers : t.kind \in TimerKinds
    BY TimerFields
  <2> QED
    BY <2>1, <2>2 DEF Open, Opens, TimersFollowConnection, StepOfLife, Scheduled, TimerKinds,
                      ClosedForGood, Counting
<1>2. timers' = {Timer("stableReset", s, StableReset), Timer("ping", s, PingInterval)}
  BY <1>1 DEF Open, Opens
<1>3. TypeOK'
  BY <1>2 DEF Open, Opens, TypeOK, Timer, TimerKinds, ConnectionTimers, Longest, NotOpen
<1>4. (SocketInUse /\ TimersFollowConnection)'
  BY <1>1, <1>2 DEF Open, Opens, TypeOK, SocketInUse, TimersFollowConnection, Timer,
                    TimerKinds, ConnectionTimers
<1>5. (StepOfLife /\ ClosedForGood /\ QuietAfterClose)'
  BY <1>1, <1>2 DEF Open, Opens, StepOfLife, ClosedForGood, QuietAfterClose, Scheduled, Timer
<1>6. Counting'
  BY <1>1, <1>2 DEF Open, Opens, TypeOK, Counting, Scheduled, Timer, NotOpen
<1> QED
  BY <1>3, <1>4, <1>5, <1>6

LEMMA StableResetKeeps ==
  ASSUME TunnelInv, NEW s \in Sockets, StableResetFires(s)
  PROVE  TunnelInv'
<1> USE TunnelAssumption DEF TunnelInv
<1>1. timers' \subseteq timers /\ Timer("stableReset", s, 0) \in timers
  BY DEF StableResetFires, Without, Due
<1>2. upFor = StableReset
  BY <1>1 DEF Counting, Timer, TypeOK
<1>3. TypeOK'
  BY <1>1 DEF StableResetFires, TypeOK, historyVars
<1>4. (SocketInUse /\ TimersFollowConnection /\ ClosedForGood /\ QuietAfterClose)'
  BY <1>1 DEF StableResetFires, SocketInUse, TimersFollowConnection, ClosedForGood,
              QuietAfterClose
<1>5. Scheduled = {}
  BY <1>1 DEF StepOfLife, Scheduled, Timer
<1>6. Scheduled' = {}
  BY <1>1, <1>5 DEF Scheduled
<1> QED
  BY <1>1, <1>2, <1>3, <1>4, <1>6 DEF StableResetFires, StepOfLife, Counting, historyVars

LEMMA PingKeeps ==
  ASSUME TunnelInv, NEW s \in Sockets, PingFires(s)
  PROVE  TunnelInv'
<1> USE TunnelAssumption DEF TunnelInv
<1>1. Timer("ping", s, 0) \in timers
  BY DEF PingFires, Due
<1>2. s = socket /\ field["ping"] = s /\ readyState[socket] \in {"open", "closing"} /\ ~isClosed
  BY <1>1 DEF TimersFollowConnection, QuietAfterClose, Timer, ConnectionTimers
<1>3. \A t \in timers' : t \in timers \/ t = Timer("ping", s, PingInterval)
                         \/ (t = Timer("pongTimeout", s, PongTimeout) /\ field'["pongTimeout"] = s)
  BY DEF PingFires, Without, TypeOK, TimerKinds, ConnectionTimers
<1>4. /\ field' \in [TimerKinds -> Sockets \union {NoSocket}]
      /\ \A k \in TimerKinds : field'[k] = field[k] \/ (k = "pongTimeout" /\ field'[k] = s)
  BY DEF PingFires, TypeOK
<1>5. TypeOK'
  BY <1>3, <1>4 DEF PingFires, TypeOK, Timer, TimerKinds, ConnectionTimers, Longest, historyVars
<1>6. TimersFollowConnection'
  <2> SUFFICES ASSUME NEW t \in timers', t.kind \in ConnectionTimers
               PROVE  t.of = socket /\ field'[t.kind] = t.of
    BY <1>2 DEF PingFires, TimersFollowConnection
  <2>1. CASE t \in timers
    BY <2>1, <1>2, <1>4 DEF TimersFollowConnection, TimerKinds
  <2>2. CASE t = Timer("ping", s, PingInterval)
    BY <2>2, <1>2, <1>4 DEF Timer, TimerKinds, ConnectionTimers
  <2>3. CASE t = Timer("pongTimeout", s, PongTimeout) /\ field'["pongTimeout"] = s
    BY <2>3, <1>2 DEF Timer
  <2> QED
    BY <1>3, <2>1, <2>2, <2>3
<1>7. Scheduled' = {}
  BY <1>2, <1>3 DEF StepOfLife, Scheduled, Timer
<1>8. Counting'
  BY <1>2, <1>3, <1>7 DEF PingFires, Counting, Timer, historyVars
<1> QED
  BY <1>2, <1>5, <1>6, <1>7, <1>8
     DEF PingFires, SocketInUse, StepOfLife, ClosedForGood, QuietAfterClose

LEMMA PongKeeps ==
  ASSUME TunnelInv, NEW s \in Sockets, PongArrives(s)
  PROVE  TunnelInv'
<1> USE TunnelAssumption DEF TunnelInv
<1>1. /\ timers' \subseteq timers
      /\ \A t \in timers' : t.kind # "pongTimeout"
      /\ field' \in [TimerKinds -> Sockets \union {NoSocket}]
      /\ \A k \in TimerKinds : k # "pongTimeout" => field'[k] = field[k]
  BY DEF PongArrives, Kept, Emptied, TypeOK, TimersFollowConnection, ConnectionTimers
<1>2. Scheduled' = {}
  BY <1>1 DEF PongArrives, StepOfLife, Scheduled, SocketInUse
<1>3. TypeOK'
  BY <1>1 DEF PongArrives, TypeOK, historyVars
<1>4. TimersFollowConnection'
  BY <1>1 DEF PongArrives, TimersFollowConnection, TimerKinds
<1> QED
  BY <1>1, <1>2, <1>3, <1>4
     DEF PongArrives, SocketInUse, StepOfLife, ClosedForGood, QuietAfterClose, Counting,
         historyVars

LEMMA PongTimeoutKeeps ==
  ASSUME TunnelInv, NEW s \in Sockets, PongTimeoutFires(s)
  PROVE  TunnelInv'
<1> USE TunnelAssumption DEF TunnelInv
<1>1. Timer("pongTimeout", s, 0) \in timers /\ timers' \subseteq timers
  BY DEF PongTimeoutFires, Due, Without
<1>2. s = socket /\ readyState[s] \in {"open", "closing"} /\ readyState'[s] = "closing"
  BY <1>1 DEF PongTimeoutFires, TypeOK, TimersFollowConnection, Timer, ConnectionTimers
<1>3. Scheduled' = {}
  BY <1>1, <1>2 DEF StepOfLife, Scheduled
<1>4. TypeOK'
  BY <1>1 DEF PongTimeoutFires, TypeOK, historyVars
<1>5. (SocketInUse /\ TimersFollowConnection /\ ClosedForGood /\ QuietAfterClose)'
  BY <1>1, <1>2 DEF PongTimeoutFires, TypeOK, SocketInUse, TimersFollowConnection,
                    ClosedForGood, QuietAfterClose
<1>6. Counting'
  BY <1>1, <1>2, <1>3 DEF PongTimeoutFires, Counting, historyVars
<1> QED
  BY <1>3, <1>4, <1>5, <1>6 DEF StepOfLife

LEMMA FailsKeeps ==
  ASSUME TunnelInv, NEW s \in Sockets, Fails(s)
  PROVE  TunnelInv'
<1> USE TunnelAssumption DEF TunnelInv
<1>1. s = socket /\ Scheduled = {} /\ readyState'[s] = "closing" /\ Scheduled' = Scheduled
  BY DEF Fails, TypeOK, SocketInUse, StepOfLife, Scheduled
<1>2. TypeOK'
  BY DEF Fails, TypeOK, historyVars
<1>3. (SocketInUse /\ TimersFollowConnection /\ ClosedForGood /\ QuietAfterClose)'
  BY <1>1 DEF Fails, TypeOK, SocketInUse, TimersFollowConnection, ClosedForGood, QuietAfterClose
<1> QED
  BY <1>1, <1>2, <1>3 DEF Fails, StepOfLife, Counting, historyVars

LEMMA PeerVanishesKeeps ==
  ASSUME TunnelInv, NEW s \in Sockets, PeerVanishes(s)
  PROVE  TunnelInv'
<1> USE TunnelAssumption DEF TunnelInv, PeerVanishes, historyVars
<1>1. TypeOK'
  BY DEF TypeOK
<1> QED
  BY <1>1 DEF SocketInUse, TimersFollowConnection, StepOfLife, Scheduled, ClosedForGood,
              QuietAfterClose, Counting

LEMMA CloseKeeps ==
  ASSUME TunnelInv, Close
  PROVE  TunnelInv'
<1> USE TunnelAssumption DEF TunnelInv
<1>1. timers' = {}
  BY NoneKept DEF Close, StoppedTimers
<1>2. field' \in [TimerKinds -> Sockets \union {NoSocket}]
  BY DEF Close, Emptied, TypeOK
<1>3. TypeOK'
  BY <1>1, <1>2 DEF Close, TypeOK, historyVars
<1>4. (SocketInUse /\ ClosedForGood)'
  BY DEF Close, TypeOK, SocketInUse, ClosedForGood
<1>5. (TimersFollowConnection /\ StepOfLife /\ QuietAfterClose)'
  BY <1>1 DEF TimersFollowConnection, StepOfLife, Scheduled, QuietAfterClose
<1>6. Counting'
  BY <1>1 DEF Close, TypeOK, Counting, Scheduled, historyVars
<1> QED
  BY <1>3, <1>4, <1>5, <1>6

LEMMA CloseEventKeeps ==
  ASSUME TunnelInv, NEW s \in Sockets, NEW terminal \in BOOLEAN, CloseEvent(s, terminal)
  PROVE  TunnelInv'
<1> USE TunnelAssumption DEF TunnelInv
<1> DEFINE failed == IF upFor = StableReset THEN 0 ELSE streak
           delay == IF terminal THEN BackoffMax ELSE Backoff(reconnectAttempt)
<1>1. s = socket /\ Scheduled = {} /\ Kept(StoppedTimers) = {}
  <2>1. s = socket /\ Scheduled = {}
    BY DEF CloseEvent, SocketInUse, StepOfLife
  <2> QED
    BY <2>1, NoneKept DEF StoppedTimers
<1>2. timers' = IF isClosed THEN {} ELSE {Timer("reconnect", s, delay)}
  BY <1>1 DEF CloseEvent, Retries
<1>3. field' \in [TimerKinds -> Sockets \union {NoSocket}]
      /\ (~isClosed => field'["reconnect"] = s)
  BY DEF CloseEvent, Retries, Emptied, TypeOK, TimerKinds
<1>4. failed \in 0..MaxAttempt /\ (~isClosed => failed <= reconnectAttempt)
  BY DEF TypeOK, Counting
<1>5. /\ streak' = IF terminal THEN failed ELSE Saturated(failed + 1, MaxAttempt)
      /\ pause' = IF terminal THEN BackoffMax ELSE Backoff(failed)
      /\ reconnectAttempt' = IF terminal \/ isClosed THEN reconnectAttempt
                             ELSE Saturated(reconnectAttempt + 1, MaxAttempt)
      /\ upFor' = NotOpen /\ downFor' = 0
      /\ UNCHANGED <<socket, isClosed>>
      /\ readyState' = [readyState EXCEPT ![s] = "unused"]
      /\ silent' = silent \ {s}
  BY DEF CloseEvent, Retries
<1>6. /\ streak' \in 0..MaxAttempt /\ reconnectAttempt' \in 0..MaxAttempt
      /\ ~isClosed => reconnectAttempt' >= streak'
  BY <1>4, <1>5 DEF TypeOK, Saturated
<1>7. delay \in 0..BackoffMax /\ pause' \in 0..BackoffMax
  BY <1>4, <1>5, BackoffInRange DEF TypeOK
<1>8. ~isClosed => delay >= pause'
  <2> SUFFICES ASSUME ~isClosed, ~terminal PROVE delay >= pause'
    BY <1>5, <1>7
  <2> QED
    BY <1>4, <1>5, BackoffMonotonic DEF TypeOK
<1>9. TypeOK'
  <2>1. \A t \in timers' : t \in [kind : {"reconnect"}, of : Sockets, left : 0..Longest["reconnect"]]
    BY <1>2, <1>7 DEF Timer, Longest
  <2>2. (\A t \in timers : \E k \in TimerKinds :
          t \in [kind : {k}, of : Sockets, left : 0..Longest[k]])'
    BY <2>1 DEF TimerKinds
  <2> QED
    BY <2>2, <1>3, <1>5, <1>6, <1>7 DEF TypeOK
<1>10. (SocketInUse /\ ClosedForGood)'
  BY <1>1, <1>5 DEF TypeOK, SocketInUse, ClosedForGood
<1>11. (TimersFollowConnection /\ StepOfLife /\ QuietAfterClose)'
  BY <1>1, <1>2, <1>3, <1>5
     DEF TypeOK, TimersFollowConnection, StepOfLife, Scheduled, QuietAfterClose, Timer,
         ConnectionTimers
<1>12. Counting'
  BY <1>1, <1>2, <1>5, <1>6, <1>7, <1>8 DEF TypeOK, Counting, Scheduled, Timer
<1> QED
  BY <1>9, <1>10, <1>11, <1>12

LEMMA ReconnectKeeps ==
  ASSUME TunnelInv, NEW s \in Sockets, ReconnectFires(s)
  PROVE  TunnelInv'
<1> USE TunnelAssumption DEF TunnelInv
<1>1. /\ Timer("reconnect", s, 0) \in Scheduled /\ ~isClosed
      /\ readyState[socket] = "unused" /\ timers' = {}
  BY DEF ReconnectFires, Due, Without, Scheduled, Timer, StepOfLife, QuietAfterClose
<1>2. PICK c \in Sockets : Connect(c)
  BY <1>1 DEF ReconnectFires
<1>3. TypeOK'
  BY <1>1, <1>2 DEF ReconnectFires, Connect, TypeOK, historyVars
<1>4. SocketInUse'
  BY <1>1, <1>2 DEF Connect, TypeOK, SocketInUse
<1>5. (TimersFollowConnection /\ StepOfLife /\ ClosedForGood /\ QuietAfterClose)'
  BY <1>1 DEF ReconnectFires, TimersFollowConnection, StepOfLife, Scheduled, ClosedForGood,
              QuietAfterClose
<1>6. Counting'
  BY <1>1 DEF ReconnectFires, Counting, Scheduled, historyVars
<1> QED
  BY <1>3, <1>4, <1>5, <1>6

LEMMA TickKeeps ==
  ASSUME TunnelInv, Tick
  PROVE  TunnelInv'
<1> USE TunnelAssumption DEF TunnelInv
<1> DEFINE older(t) == [t EXCEPT !.left = @ - 1]
<1>1. timers' = {older(t) : t \in timers} /\ UNCHANGED <<socket, readyState, field, isClosed>>
  BY DEF Tick
<1>2. \A t \in timers : /\ t.left \in Nat /\ t.left > 0
                        /\ older(t).kind = t.kind /\ older(t).of = t.of
                        /\ older(t).left = t.left - 1
  BY TimerFields DEF Tick, Timer
<1>3. /\ upFor' \in 0..StableReset \union {NotOpen} /\ downFor' \in 0..BackoffMax
      /\ upFor # NotOpen => upFor' = Saturated(upFor + 1, StableReset)
      /\ upFor = NotOpen => upFor' = NotOpen
      /\ downFor' = Saturated(downFor + 1, BackoffMax)
  BY DEF Tick, TypeOK, Saturated
<1>4. TypeOK'
  <2>1. (\A t \in timers : \E k \in TimerKinds :
          t \in [kind : {k}, of : Sockets, left : 0..Longest[k]])'
    <3> SUFFICES ASSUME NEW t \in timers
                 PROVE  \E k \in TimerKinds :
                          older(t) \in [kind : {k}, of : Sockets, left : 0..Longest[k]]
      BY <1>1
    <3>1. PICK k \in TimerKinds : t \in [kind : {k}, of : Sockets, left : 0..Longest[k]]
      BY DEF TypeOK
    <3>2. Longest[k] \in Nat
      BY DEF Longest, TimerKinds, ConnectionTimers
    <3> QED
      BY <1>2, <3>1, <3>2
  <2> QED
    BY <2>1, <1>1, <1>3 DEF Tick, TypeOK
<1>5. (SocketInUse /\ ClosedForGood /\ QuietAfterClose)'
  BY <1>1 DEF SocketInUse, ClosedForGood, QuietAfterClose
<1>6. \A u \in timers' : \E t \in timers :
        u = older(t) /\ u.kind = t.kind /\ u.of = t.of /\ u.left = t.left - 1
  BY <1>1, <1>2
<1> HIDE DEF older
<1>7. TimersFollowConnection'
  BY <1>1, <1>6 DEF TimersFollowConnection
<1>8. \A r \in Scheduled' : \E t \in Scheduled :
        r = older(t) /\ r.of = t.of /\ r.left = t.left - 1
  BY <1>6 DEF Scheduled
<1>9. StepOfLife'
  <2> SUFFICES ASSUME NEW r \in Scheduled'
               PROVE  readyState[socket] = "unused" /\ field["reconnect"] = r.of /\ timers' = {r}
    BY <1>1 DEF StepOfLife
  <2>1. PICK t \in Scheduled : r = older(t) /\ r.of = t.of
    BY <1>8
  <2>2. timers = {t} /\ readyState[socket] = "unused" /\ field["reconnect"] = t.of
    BY <2>1 DEF StepOfLife
  <2> QED
    BY <1>1, <2>1, <2>2
<1>10. Counting'
  <2>1. (readyState[socket] \in {"unused", "connecting"} => upFor = NotOpen)'
    BY <1>1, <1>3 DEF Counting
  <2>2. (\A t \in timers : t.kind = "stableReset" => t.left + upFor = StableReset)'
    <3> SUFFICES ASSUME NEW u \in timers', u.kind = "stableReset"
                 PROVE  u.left + upFor' = StableReset
      OBVIOUS
    <3>1. PICK t \in timers : u.kind = t.kind /\ u.left = t.left - 1
      BY <1>6
    <3>2. t.left + upFor = StableReset /\ t.left \in Nat /\ t.left > 0
      BY <3>1, <1>2 DEF Counting
    <3>3. t.left <= StableReset
      BY <3>1 DEF TypeOK, Longest, TimerKinds, ConnectionTimers
    <3> QED
      BY <3>1, <3>2, <3>3, <1>3 DEF TypeOK, Saturated, NotOpen
  <2>3. (~isClosed => reconnectAttempt >= streak \/ upFor = StableReset)'
    BY <1>1, <1>3 DEF Tick, TypeOK, Counting, Saturated, NotOpen
  <2>4. (\A r \in Scheduled : downFor >= pause \/ r.left + downFor >= pause)'
    BY <1>2, <1>3, <1>8 DEF Tick, TypeOK, Counting, Saturated, Scheduled
  <2> QED
    BY <2>1, <2>2, <2>3, <2>4 DEF Counting
<1> QED
  BY <1>4, <1>5, <1>7, <1>9, <1>10

LEMMA StepInv == TunnelInv /\ [Next]_vars => TunnelInv'
<1> SUFFICES ASSUME TunnelInv, [Next]_vars PROVE TunnelInv'
  OBVIOUS
<1>1. CASE UNCHANGED vars
  BY <1>1 DEF vars, historyVars, TunnelInv, TypeOK, SocketInUse, TimersFollowConnection,
              StepOfLife, Scheduled, ClosedForGood, QuietAfterClose, Counting
<1> QED
  BY <1>1, OpenKeeps, StableResetKeeps, PingKeeps, PongKeeps, PongTimeoutKeeps, FailsKeeps,
     PeerVanishesKeeps, CloseKeeps, CloseEventKeeps, ReconnectKeeps, TickKeeps
     DEF Next, TimerFires

(* Every reachable state satisfies the invariant. *)
THEOREM TunnelInvariant == Spec => []TunnelInv
  BY InitInv, StepInv, PTL DEF Spec

-------------------------------------------------------------------------------
(* The fields and timers of the tunnel keep their types; with BackoffInRange,
   no delay leaves its range. *)
THEOREM TypeCorrect == Spec => []TypeOK
<1>1. TunnelInv => TypeOK
  BY DEF TunnelInv
<1> QED
  BY <1>1, TunnelInvariant, PTL

(* However connections fail, close and time out, the agent has one socket or
   one scheduled attempt, never two. *)
THEOREM NeverTwoConnections == Spec => []OneConnection
<1>1. TunnelInv => OneConnection
  BY DEF TunnelInv, OneConnection, SocketInUse, StepOfLife, Live, Scheduled
<1> QED
  BY <1>1, TunnelInvariant, PTL

(* No stable-reset, ping or pong timer outlives its connection, or runs where
   clearTimer cannot reach it. *)
THEOREM NoStrayTimer == Spec => []TimersFollowConnection
<1>1. TunnelInv => TimersFollowConnection
  BY DEF TunnelInv
<1> QED
  BY <1>1, TunnelInvariant, PTL

(* After close() nothing of the tunnel runs any more. *)
THEOREM NothingAfterClose == Spec => []QuietAfterClose
<1>1. TunnelInv => QuietAfterClose
  BY DEF TunnelInv
<1> QED
  BY <1>1, TunnelInvariant, PTL

(* A new connection waits out the backoff it owes, for every base, maximum and
   stability period. *)
THEOREM BackoffIsServed == Spec => NoFastLoop
<1>1. TunnelInv /\ [Next]_vars =>
        [(\E s \in Sockets : readyState[s] = "unused" /\ readyState'[s] = "connecting")
           => downFor >= pause]_vars
  <2> SUFFICES ASSUME TunnelInv, Next, NEW s \in Sockets,
                      readyState[s] = "unused", readyState'[s] = "connecting"
               PROVE  downFor >= pause
    BY DEF vars
  <2>1. PICK c \in Sockets : ReconnectFires(c)
    BY DEF Next, TimerFires, TunnelInv, TypeOK, Open, Opens, PongArrives, StableResetFires,
           PingFires, PongTimeoutFires, Fails, PeerVanishes, CloseEvent, Close, Tick
  <2>2. Timer("reconnect", c, 0) \in Scheduled
    BY <2>1 DEF ReconnectFires, Due, Scheduled, Timer
  <2> QED
    BY <2>2 DEF TunnelInv, TypeOK, Counting, Timer
<1> QED
  BY <1>1, TunnelInvariant, PTL DEF Spec, NoFastLoop

-------------------------------------------------------------------------------
(* The main loop. *)
OwnDevices ==
  \A source \in Sources :
    found[source] \subseteq Of(source) /\ results[source].ids \subseteq Of(source)

SupervisedIsFound ==
  isShuttingDown \/ supervised = (UNION {found[source] : source \in Sources}) \ StaticDevices

LoopInv == LoopTypeOK /\ OwnDevices /\ SupervisedIsFound

-------------------------------------------------------------------------------
(* Every source reports devices of its own platform. *)
LEMMA ListsAreOwn ==
  /\ \A source \in Sources : Of(source) \subseteq Devices /\ Usable(source) \subseteq Of(source)
  /\ Waiting.ids = {} /\ Failed.ids = {} /\ Waiting # Failed
  /\ \A ids : Listed(ids).ids = ids /\ Listed(ids) # Failed
BY DEF Sources, Of, Devices, Usable, Waiting, Failed, Listed

(* The invariant holds before the first discovery. *)
LEMMA InitLoop == LoopInit => LoopInv
<1>1. ASSUME LoopInit PROVE LoopTypeOK
  <2>1. AllWaiting \in [Sources -> {Waiting, Failed} \union {Listed(ids) : ids \in SUBSET Devices}]
    BY DEF AllWaiting
  <2>2. Nothing \in [ids : SUBSET Devices, ready : SUBSET Devices]
    BY DEF Nothing
  <2>3. 0 \in 0..MaxConsecutiveFailures /\ 0 \in 0..MaxChanges
    BY AgentLoopAssumption
  <2>4. attached \subseteq Devices
    BY <1>1 DEF LoopInit, Devices
  <2> QED BY <1>1, <2>1, <2>2, <2>3, <2>4 DEF LoopInit, LoopTypeOK
<1>2. ASSUME LoopInit PROVE OwnDevices
  BY <1>2, ListsAreOwn DEF LoopInit, OwnDevices, AllWaiting
<1>3. ASSUME LoopInit PROVE SupervisedIsFound
  BY <1>3 DEF LoopInit, SupervisedIsFound
<1> QED BY <1>1, <1>2, <1>3 DEF LoopInv

(* The lists and counters after refresh. *)
LEMMA AppliedTypes ==
  ASSUME LoopInv, Applied
  PROVE  /\ found' \in [Sources -> SUBSET Devices]
         /\ \A source \in Sources : found'[source] \subseteq Of(source)
         /\ failures' \in [Sources -> 0..MaxConsecutiveFailures]
<1>1. ASSUME NEW source \in Sources
      PROVE  /\ found'[source] \subseteq Devices /\ found'[source] \subseteq Of(source)
             /\ failures'[source] \in 0..MaxConsecutiveFailures
  <2>1. found'[source] = IF results[source] = Failed THEN KeptList(source) ELSE results[source].ids
    BY DEF Applied
  <2>2. KeptList(source) \subseteq Of(source)
    BY DEF LoopInv, OwnDevices, KeptList
  <2>3. results[source].ids \subseteq Of(source)
    BY DEF LoopInv, OwnDevices
  <2>4. failures'[source] \in 0..MaxConsecutiveFailures
    BY AgentLoopAssumption DEF LoopInv, LoopTypeOK, Applied
  <2> QED BY <2>1, <2>2, <2>3, <2>4, ListsAreOwn
<1> QED BY <1>1 DEF Applied

(* A discovery that finishes keeps it. *)
LEMMA FinishKeeps == LoopInv /\ Finish => LoopInv'
<1> SUFFICES ASSUME LoopInv, Finish PROVE LoopInv'
  OBVIOUS
<1>1. Applied
  BY DEF Finish
<1>2. Discovered \subseteq Devices
  BY <1>1, AppliedTypes DEF Discovered
<1>3. registered' \in [ids : SUBSET Devices, ready : SUBSET Devices]
  <2>1. AllDevices \subseteq Devices
    BY <1>2 DEF AllDevices, Devices
  <2> QED BY <2>1 DEF LoopInv, LoopTypeOK, Finish
<1>4. LoopTypeOK'
  BY <1>1, <1>2, <1>3, AppliedTypes DEF LoopInv, LoopTypeOK, Finish, AllWaiting
<1>5. OwnDevices'
  BY <1>1, AppliedTypes, ListsAreOwn DEF OwnDevices, Finish, AllWaiting, Of
<1>6. SupervisedIsFound'
  BY DEF Finish, SupervisedIsFound, Discovered
<1> QED BY <1>4, <1>5, <1>6 DEF LoopInv

(* An answer of one source. *)
LEMMA AnswerKeeps ==
  ASSUME LoopInv, NEW source \in Sources, Lists(source) \/ SourceFails(source)
  PROVE  LoopInv'
<1>1. Usable(source) \subseteq Devices
  BY ListsAreOwn
<1>2. results' \in [Sources -> {Waiting, Failed} \union {Listed(ids) : ids \in SUBSET Devices}]
  BY <1>1 DEF LoopInv, LoopTypeOK, Lists, SourceFails
<1>3. changes' \in 0..MaxChanges
  BY AgentLoopAssumption DEF LoopInv, LoopTypeOK, Lists, SourceFails, Changes
<1>4. LoopTypeOK'
  BY <1>2, <1>3 DEF LoopInv, LoopTypeOK, Lists, SourceFails, world, states
<1>5. OwnDevices'
  <2>1. found' = found
    BY DEF Lists, SourceFails, states
  <2>2. ASSUME NEW s \in Sources PROVE results'[s].ids \subseteq Of(s)
    <3>1. CASE s = source
      BY <3>1, ListsAreOwn DEF LoopInv, LoopTypeOK, Lists, SourceFails
    <3>2. CASE s # source
      BY <3>2 DEF LoopInv, LoopTypeOK, OwnDevices, Lists, SourceFails
    <3> QED BY <3>1, <3>2
  <2> QED BY <2>1, <2>2 DEF LoopInv, OwnDevices, Of
<1>6. SupervisedIsFound'
  BY DEF LoopInv, SupervisedIsFound, Lists, SourceFails, states
<1> QED BY <1>4, <1>5, <1>6 DEF LoopInv

(* The steps that leave the lists of the sources alone. *)
LEMMA OtherStepsKeep ==
  ASSUME LoopInv,
         \/ \E d \in Devices \ StaticDevices : Replugs(d) \/ Readies(d)
         \/ DiscoveryTimer \/ TunnelOpens \/ TunnelCloses \/ Shutdown
         \/ UNCHANGED loopVars
  PROVE  LoopInv'
<1>1. found' = found /\ (results' = results \/ results' = AllWaiting)
  BY DEF Replugs, Readies, DiscoveryTimer, TunnelOpens, TunnelCloses, Shutdown, Discover,
         InFlightGuard, states, loopVars
<1>2. changes' \in 0..MaxChanges
  BY AgentLoopAssumption
     DEF LoopInv, LoopTypeOK, Replugs, Readies, DiscoveryTimer, TunnelOpens, TunnelCloses,
           Shutdown, Changes, loopVars
<1>3. LoopTypeOK'
  <2>1. results' \in [Sources -> {Waiting, Failed} \union {Listed(ids) : ids \in SUBSET Devices}]
    BY <1>1 DEF LoopInv, LoopTypeOK, AllWaiting
  <2>2. registered' \in [ids : SUBSET Devices, ready : SUBSET Devices]
    BY DEF LoopInv, LoopTypeOK, Replugs, Readies, DiscoveryTimer, TunnelOpens, TunnelCloses,
           Shutdown, Nothing, loopVars
  <2>3. attached' \subseteq Devices /\ ready' \subseteq Devices /\ supervised' \subseteq Devices
    BY DEF LoopInv, LoopTypeOK, Replugs, Readies, DiscoveryTimer, TunnelOpens, TunnelCloses,
           Shutdown, world, loopVars
  <2>4. failures' = failures /\ tunnel' \in {"open", "closed"}
        /\ inFlight' \in BOOLEAN /\ isShuttingDown' \in BOOLEAN
    BY DEF LoopInv, LoopTypeOK, Replugs, Readies, DiscoveryTimer, TunnelOpens, TunnelCloses,
           Shutdown, Discover, states, loopVars
  <2> QED BY <1>1, <1>2, <2>1, <2>2, <2>3, <2>4 DEF LoopInv, LoopTypeOK
<1>4. OwnDevices'
  BY <1>1, ListsAreOwn DEF LoopInv, OwnDevices, AllWaiting, Of
<1>5. SupervisedIsFound'
  BY DEF LoopInv, SupervisedIsFound, Replugs, Readies, DiscoveryTimer, TunnelOpens, TunnelCloses,
         Shutdown, states, loopVars
<1> QED BY <1>3, <1>4, <1>5 DEF LoopInv

(* Every step keeps it. *)
LEMMA StepLoop == LoopInv /\ [LoopNext]_loopVars => LoopInv'
BY FinishKeeps, AnswerKeeps, OtherStepsKeep DEF LoopNext

(* What is supervised is what the lists name until the shutdown, and a list names devices
   of its own platform only, in every reachable state of the main loop. *)
THEOREM LoopInvariant == LoopSpec => []LoopInv
BY InitLoop, StepLoop, PTL DEF LoopSpec

-------------------------------------------------------------------------------
(* The state of the main loop keeps its types. *)
THEOREM LoopTypeCorrect == LoopSpec => []LoopTypeOK
<1>1. LoopInv => LoopTypeOK
  BY DEF LoopInv
<1> QED BY <1>1, LoopInvariant, PTL

(* A step of refresh that loses a device has the cause in the answer of the device's
   own source. *)
LEMMA FinishDropsForCause ==
  ASSUME LoopInv, Finish, NEW d \in supervised \ supervised'
  PROVE  \/ isShuttingDown'
         \/ results[SourceOf(d)] # Failed /\ d \notin results[SourceOf(d)].ids
         \/ results[SourceOf(d)] = Failed /\ failures'[SourceOf(d)] = MaxConsecutiveFailures
<1> SUFFICES ASSUME ~isShuttingDown
             PROVE  \/ results[SourceOf(d)] # Failed /\ d \notin results[SourceOf(d)].ids
                    \/ /\ results[SourceOf(d)] = Failed
                       /\ failures'[SourceOf(d)] = MaxConsecutiveFailures
  BY DEF Finish
<1>1. PICK source \in Sources : d \in found[source] /\ d \notin StaticDevices
  BY DEF LoopInv, SupervisedIsFound
<1>2. SourceOf(d) = source
  BY <1>1, AgentLoopAssumption DEF LoopInv, OwnDevices, SourceOf, Sources, Of
<1>3. d \notin found'[source]
  BY <1>1 DEF Finish, Discovered
<1>4. CASE results[source] # Failed
  BY <1>2, <1>3, <1>4 DEF Finish, Applied
<1>5. CASE results[source] = Failed
  <2>1. d \notin KeptList(source)
    BY <1>3, <1>5 DEF Finish, Applied
  <2>2. failures[source] + 1 >= MaxConsecutiveFailures
    BY <1>1, <2>1, AgentLoopAssumption DEF KeptList, LoopInv, LoopTypeOK
  <2>3. failures'[source] = MaxConsecutiveFailures
    BY <1>5, <2>2, AgentLoopAssumption DEF Finish, Applied, LoopInv, LoopTypeOK
  <2> QED BY <1>2, <1>5, <2>3
<1> QED BY <1>4, <1>5

(* Only its own source, or the shutdown, takes a device from the supervisors and the
   stream manager (discoverAndRegister), for any number of devices and any limit. *)
THEOREM DropsHaveCause == LoopSpec => DroppedForCause
<1> DEFINE Cause(d) ==
      \/ isShuttingDown'
      \/ results[SourceOf(d)] # Failed /\ d \notin results[SourceOf(d)].ids
      \/ results[SourceOf(d)] = Failed /\ failures'[SourceOf(d)] = MaxConsecutiveFailures
<1>1. ASSUME LoopInv, [LoopNext]_loopVars
      PROVE  [\A d \in supervised \ supervised' : Cause(d)]_loopVars
  <2>1. CASE Finish
    BY <1>1, <2>1, FinishDropsForCause
  <2>2. CASE Shutdown
    BY <2>2 DEF Shutdown
  <2>3. CASE ~Finish /\ ~Shutdown
    <3>1. supervised' = supervised
      BY <1>1, <2>3
         DEF LoopNext, Replugs, Readies, Lists, SourceFails, DiscoveryTimer, TunnelOpens,
             TunnelCloses, loopVars
    <3> QED BY <3>1
  <2> QED BY <2>1, <2>2, <2>3
<1> QED BY <1>1, LoopInvariant, PTL DEF LoopSpec, DroppedForCause

-------------------------------------------------------------------------------
(* The phone: a command and a poll on their way through the runner. *)
OneCommandWaits ==
  /\ backlog # <<>> => command # NoCommand /\ running # command /\ backlog = <<command>>
  /\ command # NoCommand => waited <= ActionTimeout /\ command <= sent
  /\ running # NoCommand => running <= sent

PollsAreAnswered == failCount = 0 /\ (polling => pollAge = 0)

AndroidInv == platform = "android" => OneCommandWaits /\ PollsAreAnswered

Waits(x) == \E i \in 1..Len(backlog) : backlog[i] = x

(* iOS.  Every request has one place: in the backlog once, or running, or behind it. *)
Queued ==
  /\ \A i, j \in 1..Len(backlog) : backlog[i] = backlog[j] => i = j
  /\ \A i \in 1..Len(backlog) : backlog[i] # Health => backlog[i] <= sent
  /\ running # NoCommand => running <= sent /\ ~Waits(running)
  /\ command # NoCommand => command <= sent /\ (running = command \/ Waits(command))
  /\ polling <=> Waits(Health)

(* Behind a poll there is at most the command that the agent sent after it. *)
BehindPoll ==
  \A i, j \in 1..Len(backlog) :
    i < j /\ backlog[i] = Health => backlog[j] = command /\ waited <= pollAge

(* While no action has lasted too long, nothing is performed or waits but the command the
   agent waits for, and neither it nor a poll has waited for anything else. *)
Calm ==
  /\ failCount = 0
  /\ \A c \in Commands : running = c \/ Waits(c) => c = command
  /\ running # NoCommand =>
       /\ ranFor < HealthTimeout /\ waited <= HealthTimeout + ranFor
       /\ polling => pollAge <= ranFor
  /\ running = NoCommand =>
       /\ command # NoCommand => waited <= HealthTimeout
       /\ polling /\ pollAge > 0 => pollAge < HealthTimeout /\ Head(backlog) = Health

IosInv == platform = "ios" => Queued /\ BehindPoll /\ (~overran => Calm)

RunnerInv == RunnerTypeOK /\ AndroidInv /\ IosInv

-------------------------------------------------------------------------------
(* Removing a request leaves a backlog of requests. *)
LEMMA WithoutType ==
  ASSUME NEW S, NEW requests \in Seq(S), NEW x
  PROVE  Withdrawn(x, requests) \in Seq(S)
<1>1. CASE x \notin {requests[i] : i \in 1..Len(requests)}
  BY <1>1 DEF Withdrawn
<1>2. CASE x \in {requests[i] : i \in 1..Len(requests)}
  <2> DEFINE i == CHOOSE i \in 1..Len(requests) : requests[i] = x
  <2>1. i \in 1..Len(requests) /\ Len(requests) \in Nat
    BY <1>2, LenProperties
  <2>2. SubSeq(requests, 1, i - 1) \in Seq(S)
    <3>1. \A j \in 1..i - 1 : requests[j] \in S
      BY <2>1, ElementOfSeq
    <3> HIDE DEF i
    <3> QED
      BY <2>1, <3>1, SubSeqProperties
  <2>3. SubSeq(requests, i + 1, Len(requests)) \in Seq(S)
    <3>1. \A j \in i + 1..Len(requests) : requests[j] \in S
      BY <2>1, ElementOfSeq
    <3> HIDE DEF i
    <3> QED
      BY <2>1, <3>1, SubSeqProperties
  <2> QED
    BY <1>2, <2>2, <2>3, ConcatProperties DEF Withdrawn
<1> QED
  BY <1>1, <1>2

(* Removing the only request leaves none. *)
LEMMA WithoutTheOnly ==
  ASSUME NEW x
  PROVE  Withdrawn(x, <<x>>) = <<>>
<1> DEFINE i == CHOOSE i \in 1..Len(<<x>>) : <<x>>[i] = x
<1>1. Len(<<x>>) = 1 /\ x \in {<<x>>[j] : j \in 1..Len(<<x>>)}
  OBVIOUS
<1>2. i = 1
  BY <1>1
<1>3. Withdrawn(x, <<x>>) = SubSeq(<<x>>, 1, 0) \o SubSeq(<<x>>, 2, 1)
  BY <1>1, <1>2 DEF Withdrawn
<1>4. SubSeq(<<x>>, 1, 0) = <<>> /\ SubSeq(<<x>>, 2, 1) = <<>>
  BY SubSeqEmpty
<1> QED
  BY <1>3, <1>4

(* What ConcatProperties says of two pieces of a sequence without the place between. *)
LEMMA Rejoined ==
  ASSUME NEW S, NEW before \in Seq(S), NEW behind \in Seq(S)
  PROVE  /\ Len(before \o behind) = Len(before) + Len(behind)
         /\ \A j \in 1..Len(before) : (before \o behind)[j] = before[j]
         /\ \A j \in 1..Len(behind) : (before \o behind)[Len(before) + j] = behind[j]
<1> DEFINE n == Len(before)
           m == Len(behind)
<1>0. n \in Nat /\ m \in Nat
  BY LenProperties
<1>1. /\ Len(before \o behind) = n + m
      /\ \A i \in 1..n + m :
           (before \o behind)[i] = IF i <= n THEN before[i] ELSE behind[i - n]
  BY ConcatProperties
<1> HIDE DEF n, m
<1>2. ASSUME NEW j \in 1..n PROVE (before \o behind)[j] = before[j]
  <2>1. j \in 1..n + m /\ j <= n
    BY <1>0
  <2> QED
    BY <1>1, <2>1
<1>3. ASSUME NEW j \in 1..m PROVE (before \o behind)[n + j] = behind[j]
  <2>1. n + j \in 1..n + m /\ ~(n + j <= n) /\ (n + j) - n = j
    BY <1>0
  <2>2. (before \o behind)[n + j] = behind[(n + j) - n]
    BY <1>1, <2>1
  <2> QED
    BY <2>1, <2>2
<1> QED
  BY <1>1, <1>2, <1>3 DEF n, m

(* Removing a request moves those behind it up by one place. *)
LEMMA WithoutPlaces ==
  ASSUME NEW S, NEW requests \in Seq(S), NEW x, x \in {requests[i] : i \in 1..Len(requests)}
  PROVE  \E k \in 1..Len(requests) :
           /\ requests[k] = x
           /\ Len(Withdrawn(x, requests)) = Len(requests) - 1
           /\ \A j \in 1..Len(requests) - 1 :
                Withdrawn(x, requests)[j] = IF j < k THEN requests[j] ELSE requests[j + 1]
<1> DEFINE k == CHOOSE i \in 1..Len(requests) : requests[i] = x
           before == SubSeq(requests, 1, k - 1)
           behind == SubSeq(requests, k + 1, Len(requests))
<1>1. k \in 1..Len(requests) /\ requests[k] = x /\ Len(requests) \in Nat
  BY LenProperties
<1>2. Withdrawn(x, requests) = before \o behind
  BY DEF Withdrawn
<1> HIDE DEF k
<1>3. \A j \in 1..Len(requests) : requests[j] \in S
  BY ElementOfSeq
<1>4. before \in Seq(S) /\ Len(before) = k - 1 /\ \A j \in 1..k - 1 : before[j] = requests[j]
  BY <1>1, <1>3, SubSeqProperties
<1>5. /\ behind \in Seq(S) /\ Len(behind) = Len(requests) - k
      /\ \A j \in 1..Len(requests) - k : behind[j] = requests[k + j]
  BY <1>1, <1>3, SubSeqProperties
<1> HIDE DEF before, behind
<1>6. /\ Len(before \o behind) = (k - 1) + (Len(requests) - k)
      /\ \A j \in 1..k - 1 : (before \o behind)[j] = before[j]
      /\ \A j \in 1..Len(requests) - k : (before \o behind)[(k - 1) + j] = behind[j]
  <2>1. /\ Len(before \o behind) = Len(before) + Len(behind)
        /\ \A j \in 1..Len(before) : (before \o behind)[j] = before[j]
        /\ \A j \in 1..Len(behind) : (before \o behind)[Len(before) + j] = behind[j]
    <3>1. before \in Seq(S) /\ behind \in Seq(S)
      BY <1>4, <1>5
    <3> QED
      BY <3>1, Rejoined
  <2>2. Len(before) = k - 1 /\ Len(behind) = Len(requests) - k
    BY <1>4, <1>5
  <2> QED
    BY <2>1, <2>2, Zenon
<1>7. ASSUME NEW j \in 1..Len(requests) - 1
      PROVE  (before \o behind)[j] = IF j < k THEN requests[j] ELSE requests[j + 1]
  <2>1. CASE j < k
    BY <1>1, <1>4, <1>6, <2>1
  <2>2. CASE ~(j < k)
    <3> DEFINE i == j - (k - 1)
    <3>0. j \in Int /\ k \in Int /\ Len(requests) \in Int /\ k <= j /\ j <= Len(requests) - 1
      BY <1>1, <2>2
    <3>1. i \in 1..Len(requests) - k /\ (k - 1) + i = j /\ k + i = j + 1
      BY <3>0
    <3> HIDE DEF i
    <3>2. (before \o behind)[(k - 1) + i] = behind[i] /\ behind[i] = requests[k + i]
      BY <1>5, <1>6, <3>1
    <3> QED
      BY <2>2, <3>1, <3>2
  <2> QED
    BY <2>1, <2>2
<1>8. Len(before \o behind) = Len(requests) - 1
  BY <1>1, <1>6
<1> QED
  BY <1>1, <1>2, <1>7, <1>8, Zenon

-------------------------------------------------------------------------------
(* A new count of failures is in range. *)
LEMMA CountInRange ==
  /\ 0 \in 0..HealthFailThreshold - 1
  /\ \A n \in 0..HealthFailThreshold - 1 :
       n + 1 < HealthFailThreshold => n + 1 \in 0..HealthFailThreshold - 1
BY RunnerAssumption

LEMMA InitRunnerInv == RunnerInit => RunnerInv
<1> SUFFICES ASSUME RunnerInit PROVE RunnerInv
  OBVIOUS
<1>1. RunnerTypeOK
  <2>1. backlog \in Seq(Commands \union {Health}) /\ failCount \in 0..HealthFailThreshold - 1
    BY CountInRange DEF RunnerInit
  <2>2. polling \in BOOLEAN /\ overran \in BOOLEAN
    BY DEF RunnerInit
  <2> QED
    BY <2>1, <2>2, RunnerAssumption DEF RunnerInit, RunnerTypeOK
<1>2. AndroidInv
  BY DEF RunnerInit, AndroidInv, OneCommandWaits, PollsAreAnswered
<1>3. IosInv
  <2>1. Len(backlog) = 0
    BY DEF RunnerInit
  <2>2. \A x : ~Waits(x)
    BY <2>1 DEF Waits
  <2>3. Queued /\ BehindPoll
    BY <2>1, <2>2 DEF RunnerInit, Queued, BehindPoll
  <2>4. Calm
    BY <2>2, RunnerAssumption DEF RunnerInit, Calm, Commands
  <2> QED
    BY <2>3, <2>4 DEF IosInv
<1> QED
  BY <1>1, <1>2, <1>3 DEF RunnerInv

LEMMA NextTypeOK == RunnerTypeOK /\ [RunnerNext]_phoneVars => RunnerTypeOK'
<1> SUFFICES ASSUME RunnerTypeOK, [RunnerNext]_phoneVars PROVE RunnerTypeOK'
  OBVIOUS
<1> USE RunnerAssumption DEF RunnerTypeOK
<1> DEFINE Requests == Commands \union {Health}
<1>1. CASE Send
  <2>1. sent + 1 \in Commands
    BY <1>1 DEF Send, Commands
  <2>2. backlog' \in Seq(Requests)
    BY <1>1, <2>1, AppendProperties DEF Send
  <2> QED
    BY <1>1, <2>1, <2>2 DEF Send, healthVars, Commands
<1>2. ASSUME NEW c \in Commands, Begin(c) PROVE RunnerTypeOK'
  BY <1>2, HeadTailProperties DEF Begin, IsNext, agentVars, healthVars
<1>3. ASSUME NEW c \in Commands, Aborted(c) PROVE RunnerTypeOK'
  BY <1>3, HeadTailProperties DEF Aborted, IsNext, agentVars, healthVars
<1>4. CASE Ends
  BY <1>4 DEF Ends, Settled, healthVars
<1>5. CASE PollStarts
  <2>1. backlog' \in Seq(Requests)
    BY <1>5, AppendProperties DEF PollStarts
  <2> QED
    BY <1>5, <2>1 DEF PollStarts, agentVars
<1>6. CASE PollAnswered
  <2>1. backlog' \in Seq(Requests)
    BY <1>6, HeadTailProperties DEF PollAnswered, IsNext
  <2>2. overran' \in BOOLEAN
    BY <1>6, Zenon DEF PollAnswered
  <2> QED
    BY <1>6, <2>1, <2>2, CountInRange DEF PollAnswered, agentVars
<1>7. CASE PollFails
  <2>1. backlog' \in Seq(Requests)
    BY <1>7, WithoutType DEF PollFails
  <2> QED
    BY <1>7, <2>1, CountInRange DEF PollFails, PollIsLate, agentVars
<1>8. CASE Restart
  <2>1. backlog' \in Seq(Requests) /\ failCount' \in 0..HealthFailThreshold - 1
    BY <1>8, CountInRange DEF Restart, Relaunched
  <2>2. polling' \in BOOLEAN /\ overran' \in BOOLEAN
    BY <1>8 DEF Restart, Relaunched
  <2> QED
    BY <1>8, <2>1, <2>2 DEF Restart, Relaunched
<1>9. CASE Crash
  <2>1. backlog' \in Seq(Requests) /\ failCount' \in 0..HealthFailThreshold - 1
    BY <1>9, CountInRange DEF Crash, Relaunched
  <2>2. polling' \in BOOLEAN /\ overran' \in BOOLEAN
    BY <1>9 DEF Crash, Relaunched
  <2> QED
    BY <1>9, <2>1, <2>2 DEF Crash, Relaunched
<1>10. CASE ActionTimesOut
  <2>1. backlog' \in Seq(Requests)
    BY <1>10, WithoutType DEF ActionTimesOut, Cancelled
  <2> QED
    BY <1>10, <2>1 DEF ActionTimesOut, healthVars
<1>11. CASE ClientTimesOut
  BY <1>11 DEF ClientTimesOut, runnerVars, healthVars
<1>12. CASE RunnerTick
  BY <1>12 DEF RunnerTick, Prompt
<1>13. CASE UNCHANGED phoneVars
  BY <1>13 DEF phoneVars, agentVars, runnerVars, healthVars
<1> QED
  BY <1>1, <1>2, <1>3, <1>4, <1>5, <1>6, <1>7, <1>8, <1>9, <1>10, <1>11, <1>12, <1>13
  DEF RunnerNext, RunnerStep, PollStep, TimeoutStep

LEMMA NextAndroidInv == RunnerInv /\ [RunnerNext]_phoneVars => AndroidInv'
<1> SUFFICES ASSUME RunnerTypeOK, OneCommandWaits, PollsAreAnswered, platform = "android",
                    platform' = platform, [RunnerNext]_phoneVars
             PROVE  OneCommandWaits' /\ PollsAreAnswered'
  <2>1. [RunnerNext]_phoneVars => platform' = platform
    BY DEF RunnerNext, RunnerStep, PollStep, TimeoutStep, Send, Begin, Aborted, Ends, PollStarts,
           PollAnswered, PollFails, Restart, Crash, Relaunched, ActionTimesOut, ClientTimesOut,
           RunnerTick, phoneVars
  <2> QED
    BY <2>1 DEF RunnerInv, AndroidInv
<1> USE RunnerAssumption DEF Commands
<1>1. CASE Send
  <2>1. backlog = <<>>
    BY <1>1 DEF Send, OneCommandWaits
  <2>2. backlog' = <<sent + 1>> /\ command' = sent + 1 /\ waited' = 0 /\ sent' = sent + 1
    BY <1>1, <2>1 DEF Send
  <2>3. running' = running /\ running # command'
    BY <1>1, <2>2 DEF Send, OneCommandWaits, RunnerTypeOK
  <2>4. running' # NoCommand => running' <= sent'
    BY <2>2, <2>3 DEF OneCommandWaits, RunnerTypeOK
  <2>5. command' # NoCommand /\ waited' <= ActionTimeout /\ command' <= sent'
    BY <1>1, <2>2 DEF Send, RunnerTypeOK
  <2>6. OneCommandWaits'
    BY <2>2, <2>3, <2>4, <2>5 DEF OneCommandWaits
  <2> QED
    BY <1>1, <2>6 DEF Send, PollsAreAnswered, healthVars
<1>2. ASSUME NEW c \in Commands, Begin(c) PROVE OneCommandWaits' /\ PollsAreAnswered'
  <2>1. backlog = <<command>> /\ c = command
    BY <1>2 DEF Begin, IsNext, OneCommandWaits
  <2>2. backlog' = <<>>
    BY <1>2, <2>1 DEF Begin
  <2> QED
    BY <1>2, <2>1, <2>2 DEF Begin, agentVars, healthVars, OneCommandWaits, PollsAreAnswered
<1>3. ASSUME NEW c \in Commands, Aborted(c) PROVE FALSE
  BY <1>3 DEF Aborted
<1>4. CASE Ends
  <2>1. backlog # <<>> => command' = command /\ command # NoCommand
    BY <1>4 DEF Ends, Settled, OneCommandWaits
  <2> QED
    BY <1>4, <2>1 DEF Ends, Settled, healthVars, OneCommandWaits, PollsAreAnswered
<1>5. CASE PollStarts
  BY <1>5 DEF PollStarts, Bypasses, agentVars, OneCommandWaits, PollsAreAnswered
<1>6. CASE PollAnswered
  BY <1>6 DEF PollAnswered, Bypasses, agentVars, OneCommandWaits, PollsAreAnswered
<1>7. ~PollFails /\ ~Restart
  BY DEF PollFails, Restart, PollIsLate, PollsAreAnswered
<1>8. CASE Crash
  BY <1>8 DEF Crash, Relaunched, OneCommandWaits, PollsAreAnswered
<1>9. CASE ActionTimesOut
  <2>1. backlog' = <<>>
    <3>1. CASE backlog = <<>>
      <4>1. Withdrawn(command, <<>>) = <<>>
        BY DEF Withdrawn
      <4> QED
        BY <1>9, <3>1, <4>1 DEF ActionTimesOut, Cancelled
    <3>2. CASE backlog = <<command>>
      BY <1>9, <3>2, WithoutTheOnly DEF ActionTimesOut, Cancelled
    <3> QED
      BY <3>1, <3>2 DEF OneCommandWaits
  <2> QED
    BY <1>9, <2>1 DEF ActionTimesOut, healthVars, OneCommandWaits, PollsAreAnswered
<1>10. ~ClientTimesOut
  BY DEF ClientTimesOut, OneCommandWaits
<1>11. CASE RunnerTick
  BY <1>11 DEF RunnerTick, Prompt, Bypasses, OneCommandWaits, PollsAreAnswered, RunnerTypeOK
<1>12. CASE UNCHANGED phoneVars
  BY <1>12 DEF phoneVars, agentVars, runnerVars, healthVars, OneCommandWaits, PollsAreAnswered
<1> QED
  BY <1>1, <1>2, <1>3, <1>4, <1>5, <1>6, <1>7, <1>8, <1>9, <1>10, <1>11, <1>12
  DEF RunnerNext, RunnerStep, PollStep, TimeoutStep

-------------------------------------------------------------------------------
(* iOS: what a step makes of the backlog is said by place, in three lemmas. *)
LEMMA Appended ==
  ASSUME RunnerTypeOK, NEW x \in Commands \union {Health}, backlog' = Append(backlog, x)
  PROVE  /\ Len(backlog) \in Nat /\ Len(backlog') = Len(backlog) + 1
         /\ \A i \in 1..Len(backlog) : backlog'[i] = backlog[i]
         /\ backlog'[Len(backlog) + 1] = x
         /\ \A y : Waits(y)' <=> Waits(y) \/ y = x
<1>1. /\ Len(backlog) \in Nat /\ Len(backlog') = Len(backlog) + 1
      /\ \A i \in 1..Len(backlog) : backlog'[i] = backlog[i]
      /\ backlog'[Len(backlog) + 1] = x
  BY AppendProperties, LenProperties DEF RunnerTypeOK
<1>2. \A y : Waits(y)' <=> Waits(y) \/ y = x
  BY <1>1 DEF Waits
<1> QED
  BY <1>1, <1>2

(* What taking the head of the backlog leaves. *)
LEMMA HeadTaken ==
  ASSUME RunnerTypeOK, backlog # <<>>, backlog' = Tail(backlog)
  PROVE  /\ Len(backlog) \in Nat \ {0} /\ Len(backlog') = Len(backlog) - 1
         /\ Head(backlog) = backlog[1]
         /\ \A i \in 1..Len(backlog) - 1 : backlog'[i] = backlog[i + 1]
         /\ \A y : Waits(y) <=> Waits(y)' \/ y = Head(backlog)
<1>1. /\ Len(backlog) \in Nat \ {0} /\ Len(backlog') = Len(backlog) - 1
      /\ Head(backlog) = backlog[1]
      /\ \A i \in 1..Len(backlog) - 1 : backlog'[i] = backlog[i + 1]
  BY HeadTailProperties, EmptySeq, LenProperties DEF RunnerTypeOK
<1>2. ASSUME NEW i \in 1..Len(backlog) PROVE i = 1 \/ i - 1 \in 1..Len(backlog) - 1
  BY <1>1
<1>3. ASSUME NEW y PROVE Waits(y) <=> Waits(y)' \/ y = Head(backlog)
  <2>1. ASSUME NEW i \in 1..Len(backlog), backlog[i] = y
        PROVE  Waits(y)' \/ y = Head(backlog)
    <3>1. CASE i = 1
      BY <1>1, <2>1, <3>1
    <3>2. CASE i - 1 \in 1..Len(backlog) - 1
      <4>1. backlog'[i - 1] = y
        BY <1>1, <2>1, <3>2
      <4> QED
        BY <1>1, <3>2, <4>1 DEF Waits
    <3> QED
      BY <1>2, <3>1, <3>2
  <2>2. ASSUME NEW i \in 1..Len(backlog'), backlog'[i] = y PROVE Waits(y)
    BY <1>1, <2>2 DEF Waits
  <2>3. y = Head(backlog) => Waits(y)
    BY <1>1 DEF Waits
  <2> QED
    BY <2>1, <2>2, <2>3 DEF Waits
<1> QED
  BY <1>1, <1>3

LEMMA NextIosInv == RunnerInv /\ [RunnerNext]_phoneVars => IosInv'
<1> SUFFICES ASSUME RunnerTypeOK, Queued, BehindPoll, ~overran => Calm, platform = "ios",
                    platform' = platform, [RunnerNext]_phoneVars
             PROVE  Queued' /\ BehindPoll' /\ (~overran' => Calm')
  <2>1. [RunnerNext]_phoneVars => platform' = platform
    BY DEF RunnerNext, RunnerStep, PollStep, TimeoutStep, Send, Begin, Aborted, Ends, PollStarts,
           PollAnswered, PollFails, Restart, Crash, Relaunched, ActionTimesOut, ClientTimesOut,
           RunnerTick, phoneVars
  <2> QED
    BY <2>1 DEF RunnerInv, IosInv
<1> USE RunnerAssumption DEF Commands
<1> DEFINE Holds == Queued' /\ BehindPoll' /\ (~overran' => Calm')
<1>0. \A i \in 1..Len(backlog) : backlog[i] \in Commands \union {Health}
  BY ElementOfSeq DEF RunnerTypeOK
<1>1. ASSUME Send PROVE Holds
  <2>1. /\ sent + 1 \in Commands /\ command = NoCommand /\ backlog' = Append(backlog, sent + 1)
        /\ sent' = sent + 1 /\ command' = sent + 1 /\ waited' = 0
        /\ UNCHANGED <<running, ranFor, polling, pollAge, failCount, overran>>
    BY <1>1 DEF Send, RunnerTypeOK, healthVars
  <2>2. ~Waits(sent + 1) /\ sent + 1 # Health /\ running # sent + 1
    BY <1>0, <2>1 DEF Queued, Waits, RunnerTypeOK
  <2>3. Queued'
    BY <1>0, <2>1, <2>2, Appended DEF Queued, Waits, RunnerTypeOK
  <2>4. BehindPoll'
    BY <1>0, <2>1, <2>2, Appended DEF BehindPoll, RunnerTypeOK
  <2>5. Calm => Calm'
    <3> SUFFICES ASSUME Calm PROVE Calm'
      OBVIOUS
    <3>1. running = NoCommand \/ running \notin Commands
      BY <2>1 DEF Calm
    <3>2. running = NoCommand
      BY <3>1 DEF RunnerTypeOK
    <3>3. \A c \in Commands : ~Waits(c)
      BY <2>1 DEF Calm
    <3>4. polling => Head(backlog') = Head(backlog) \/ pollAge = 0
      <4> SUFFICES ASSUME polling PROVE Head(backlog') = Head(backlog)
        OBVIOUS
      <4>1. Len(backlog) \in Nat \ {0}
        BY LenProperties DEF Queued, Waits, RunnerTypeOK
      <4> QED
        BY <4>1, <2>1, Appended, HeadTailProperties, AppendProperties DEF RunnerTypeOK
    <3> QED
      BY <2>1, <3>2, <3>3, <3>4, Appended DEF Calm, RunnerTypeOK
  <2> QED
    BY <2>1, <2>3, <2>4, <2>5
<1>2. ASSUME NEW c \in Commands, Begin(c) PROVE Holds
  <2>1. /\ backlog # <<>> /\ Head(backlog) = c /\ running = NoCommand /\ backlog' = Tail(backlog)
        /\ running' = c /\ ranFor' = 0 /\ c # NoCommand /\ c # Health
        /\ UNCHANGED <<sent, command, waited, polling, pollAge, failCount, overran>>
    BY <1>2 DEF Begin, IsNext, agentVars, healthVars
  <2>2. backlog[1] = c /\ 1 \in 1..Len(backlog) /\ Waits(c)
    BY <2>1, HeadTaken DEF Waits
  <2>3. ~Waits(c)'
    BY <2>1, <2>2, HeadTaken DEF Waits, Queued
  <2>4. Queued'
    <3>1. \A i, j \in 1..Len(backlog') : backlog'[i] = backlog'[j] => i = j
      BY <2>1, HeadTaken DEF Queued
    <3>2. \A i \in 1..Len(backlog') : backlog'[i] # Health => backlog'[i] <= sent
      BY <2>1, HeadTaken DEF Queued
    <3>3. command # NoCommand => command <= sent /\ (c = command \/ Waits(command)')
      BY <2>1, HeadTaken DEF Queued
    <3>4. polling <=> Waits(Health)'
      BY <2>1, HeadTaken DEF Queued
    <3> QED
      BY <2>1, <2>2, <2>3, <3>1, <3>2, <3>3, <3>4 DEF Queued, Waits
  <2>5. BehindPoll'
    BY <2>1, HeadTaken DEF BehindPoll
  <2>6. Calm => Calm'
    <3> SUFFICES ASSUME Calm PROVE Calm'
      OBVIOUS
    <3>1. c = command
      BY <2>2 DEF Calm
    <3>2. polling => pollAge = 0
      BY <2>1 DEF Calm, RunnerTypeOK
    <3>3. \A d \in Commands : Waits(d)' => Waits(d)
      BY <2>1, HeadTaken
    <3> QED
      BY <2>1, <3>1, <3>2, <3>3 DEF Calm, RunnerTypeOK
  <2> QED
    BY <2>1, <2>4, <2>5, <2>6
<1>3. ASSUME NEW c \in Commands, Aborted(c) PROVE Holds
  <2>1. /\ backlog # <<>> /\ Head(backlog) = c /\ running = NoCommand /\ backlog' = Tail(backlog)
        /\ c # NoCommand /\ c # Health /\ c # command
        /\ UNCHANGED <<running, ranFor, sent, command, waited, polling, pollAge, failCount, overran>>
    BY <1>3 DEF Aborted, IsNext, agentVars, healthVars
  <2>2. ~Calm
    <3>1. Waits(c)
      BY <2>1, HeadTaken DEF Waits
    <3> QED
      BY <2>1, <3>1 DEF Calm
  <2>3. Queued'
    <3>1. \A i, j \in 1..Len(backlog') : backlog'[i] = backlog'[j] => i = j
      BY <2>1, HeadTaken DEF Queued
    <3>2. \A i \in 1..Len(backlog') : backlog'[i] # Health => backlog'[i] <= sent
      BY <2>1, HeadTaken DEF Queued
    <3>3. command # NoCommand => command <= sent /\ Waits(command)'
      BY <2>1, HeadTaken DEF Queued
    <3>4. polling <=> Waits(Health)'
      BY <2>1, HeadTaken DEF Queued
    <3> QED
      BY <2>1, <3>1, <3>2, <3>3, <3>4 DEF Queued
  <2>4. BehindPoll'
    BY <2>1, HeadTaken DEF BehindPoll
  <2> QED
    BY <2>1, <2>2, <2>3, <2>4
<1>4. ASSUME Ends PROVE Holds
  <2>1. /\ running # NoCommand /\ running' = NoCommand
        /\ command' = IF command = running THEN NoCommand ELSE command
        /\ UNCHANGED <<backlog, ranFor, sent, waited, polling, pollAge, failCount, overran>>
    BY <1>4 DEF Ends, Settled, healthVars
  <2>2. Queued'
    BY <2>1 DEF Queued, Waits
  <2>3. BehindPoll'
    BY <2>1 DEF BehindPoll, Queued, Waits
  <2>4. Calm => Calm'
    <3> SUFFICES ASSUME Calm PROVE Calm'
      OBVIOUS
    <3>1. running = command /\ command' = NoCommand
      BY <2>1 DEF Calm, RunnerTypeOK
    <3>2. \A c \in Commands : ~Waits(c)
      BY <3>1 DEF Calm, Queued
    <3>3. \A i \in 1..Len(backlog) : backlog[i] = Health
      BY <1>0, <3>2 DEF Waits
    <3>4. polling => Head(backlog) = Health
      <4> SUFFICES ASSUME polling PROVE Head(backlog) = Health
        OBVIOUS
      <4>1. Len(backlog) \in Nat \ {0} /\ backlog # <<>>
        BY LenProperties, EmptySeq DEF Queued, Waits, RunnerTypeOK
      <4> QED
        BY <3>3, <4>1, HeadTailProperties DEF RunnerTypeOK
    <3>5. polling => pollAge < HealthTimeout
      BY <2>1 DEF Calm, RunnerTypeOK
    <3> QED
      BY <2>1, <3>1, <3>2, <3>4, <3>5 DEF Calm, Waits
  <2> QED
    BY <2>1, <2>2, <2>3, <2>4
<1>5. ASSUME PollStarts PROVE Holds
  <2>1. /\ ~polling /\ polling' = TRUE /\ pollAge' = 0 /\ backlog' = Append(backlog, Health)
        /\ UNCHANGED <<running, ranFor, sent, command, waited, failCount, overran>>
    BY <1>5 DEF PollStarts, Bypasses, agentVars
  <2>2. ~Waits(Health)
    BY <2>1 DEF Queued
  <2>3. Queued'
    BY <2>1, <2>2, Appended DEF Queued, Waits, RunnerTypeOK
  <2>4. BehindPoll'
    BY <2>1, <2>2, Appended DEF BehindPoll, Waits
  <2>5. Calm => Calm'
    <3> SUFFICES ASSUME Calm PROVE Calm'
      OBVIOUS
    <3>1. \A c \in Commands : Waits(c)' => Waits(c)
      BY <2>1, Appended
    <3> QED
      BY <2>1, <3>1 DEF Calm, RunnerTypeOK
  <2> QED
    BY <2>1, <2>3, <2>4, <2>5
<1>6. ASSUME PollAnswered PROVE Holds
  <2>1. /\ backlog # <<>> /\ Head(backlog) = Health /\ running = NoCommand /\ backlog' = Tail(backlog)
        /\ polling' = FALSE /\ failCount' = 0
        /\ UNCHANGED <<running, ranFor, sent, command, waited, pollAge>>
    BY <1>6 DEF PollAnswered, IsNext, Bypasses, agentVars
  <2>2. backlog[1] = Health /\ 1 \in 1..Len(backlog)
    BY <2>1, HeadTaken
  <2>3. ~Waits(Health)'
    BY <2>1, <2>2, HeadTaken DEF Waits, Queued
  <2>4. Queued'
    <3>1. \A i, j \in 1..Len(backlog') : backlog'[i] = backlog'[j] => i = j
      BY <2>1, HeadTaken DEF Queued
    <3>2. \A i \in 1..Len(backlog') : backlog'[i] # Health => backlog'[i] <= sent
      BY <2>1, HeadTaken DEF Queued
    <3>3. command # NoCommand => command <= sent /\ Waits(command)'
      BY <2>1, HeadTaken DEF Queued, RunnerTypeOK
    <3> QED
      BY <2>1, <2>3, <3>1, <3>2, <3>3 DEF Queued
  <2>5. BehindPoll'
    BY <2>3 DEF BehindPoll, Waits
  <2>6. \A i \in 1..Len(backlog') : backlog'[i] = command /\ waited <= pollAge
    BY <2>1, <2>2, HeadTaken DEF BehindPoll
  <2>7. Calm'
    <3>1. \A c \in Commands : Waits(c)' => c = command
      BY <2>6 DEF Waits
    <3>2. command # NoCommand => waited <= HealthTimeout
      BY <2>4, <2>6, <2>1 DEF Queued, Waits, RunnerTypeOK
    <3> QED
      BY <2>1, <3>1, <3>2 DEF Calm
  <2> QED
    BY <2>4, <2>5, <2>7
<1>7. ASSUME PollFails PROVE Holds
  <2>1. /\ polling /\ pollAge = HealthTimeout /\ backlog' = Withdrawn(Health, backlog)
        /\ polling' = FALSE /\ UNCHANGED <<running, ranFor, sent, command, waited, overran>>
    BY <1>7 DEF PollFails, PollIsLate, agentVars
  <2>2. ~Calm
    BY <2>1 DEF Calm, RunnerTypeOK
  <2>3. PICK k \in 1..Len(backlog) :
          /\ backlog[k] = Health /\ Len(backlog') = Len(backlog) - 1
          /\ \A j \in 1..Len(backlog) - 1 :
               backlog'[j] = IF j < k THEN backlog[j] ELSE backlog[j + 1]
    <3>1. Health \in {backlog[i] : i \in 1..Len(backlog)}
      BY <2>1 DEF Queued, Waits
    <3> QED
      BY <2>1, <3>1, WithoutPlaces DEF RunnerTypeOK
  <2>4. Len(backlog) \in Nat
    BY LenProperties DEF RunnerTypeOK
  <2>5. \A i, j \in 1..Len(backlog') : backlog'[i] = backlog'[j] => i = j
    BY <2>3, <2>4 DEF Queued
  <2>6. \A i \in 1..Len(backlog') : backlog'[i] # Health
    BY <2>3, <2>4 DEF Queued
  <2>7. \A y : Waits(y)' => Waits(y)
    BY <2>3, <2>4 DEF Waits
  <2>8. ASSUME NEW y, y # Health, Waits(y) PROVE Waits(y)'
    <3>1. PICK i \in 1..Len(backlog) : backlog[i] = y
      BY <2>8 DEF Waits
    <3>2. CASE i < k
      BY <2>3, <2>4, <3>1, <3>2 DEF Waits
    <3>3. CASE i > k
      <4>1. i - 1 \in 1..Len(backlog') /\ backlog'[i - 1] = y
        BY <2>3, <2>4, <3>1, <3>3
      <4> QED
        BY <4>1 DEF Waits
    <3> QED
      BY <2>3, <2>4, <2>8, <3>1, <3>2, <3>3
  <2>9. Queued'
    <3>1. \A i \in 1..Len(backlog') : backlog'[i] <= sent
      BY <2>3, <2>4, <2>6 DEF Queued
    <3>2. ~Waits(Health)' /\ command # Health
      BY <2>6 DEF Waits, RunnerTypeOK
    <3> QED
      BY <2>1, <2>5, <2>7, <2>8, <3>1, <3>2 DEF Queued
  <2>10. BehindPoll'
    BY <2>6 DEF BehindPoll
  <2> QED
    BY <2>1, <2>2, <2>9, <2>10
<1>8. ASSUME Restart \/ Crash PROVE Holds
  BY <1>8 DEF Restart, Crash, Relaunched, Queued, BehindPoll, Calm, Waits
<1>9. ~ActionTimesOut
  BY DEF ActionTimesOut
<1>10. ASSUME ClientTimesOut PROVE Holds
  <2>1. /\ command # NoCommand /\ waited = ClientTimeout /\ command' = NoCommand
        /\ UNCHANGED <<backlog, running, ranFor, sent, waited, polling, pollAge, failCount, overran>>
    BY <1>10 DEF ClientTimesOut, runnerVars, healthVars
  <2>2. ~Calm
    BY <2>1 DEF Calm, RunnerTypeOK
  <2>3. Queued'
    BY <2>1 DEF Queued, Waits
  <2>4. BehindPoll'
    BY <2>1 DEF BehindPoll, RunnerTypeOK
  <2> QED
    BY <2>1, <2>2, <2>3, <2>4
<1>11. ASSUME RunnerTick PROVE Holds
  <2>1. /\ UNCHANGED <<backlog, running, sent, command, polling, failCount>>
        /\ backlog = <<>> \/ running # NoCommand
        /\ waited' = IF command # NoCommand THEN waited + 1 ELSE waited
        /\ ranFor' = IF running # NoCommand /\ ranFor < HealthTimeout THEN ranFor + 1 ELSE ranFor
        /\ pollAge' = IF polling THEN pollAge + 1 ELSE pollAge
        /\ ~overran' => ~overran /\ (running # NoCommand => ranFor' # HealthTimeout)
    BY <1>11 DEF RunnerTick, Prompt
  <2>2. Queued'
    BY <2>1 DEF Queued, Waits
  <2>3. BehindPoll'
    <3> SUFFICES ASSUME NEW i \in 1..Len(backlog), NEW j \in 1..Len(backlog),
                        i < j, backlog[i] = Health
                 PROVE  backlog[j] = command /\ waited' <= pollAge'
      BY <2>1 DEF BehindPoll
    <3>1. backlog[j] = command /\ waited <= pollAge /\ polling
      BY DEF BehindPoll, Queued, Waits
    <3> QED
      BY <2>1, <3>1 DEF RunnerTypeOK
  <2>4. ASSUME ~overran', Calm PROVE Calm'
    <3>1. CASE running # NoCommand
      BY <2>1, <2>4, <3>1 DEF Calm, Waits, RunnerTypeOK
    <3>2. CASE running = NoCommand
      <4>1. backlog = <<>> /\ command = NoCommand /\ ~polling
        BY <2>1, <3>2 DEF Queued, Waits
      <4> QED
        BY <2>1, <2>4, <3>2, <4>1 DEF Calm, Waits
    <3> QED
      BY <3>1, <3>2
  <2> QED
    BY <2>1, <2>2, <2>3, <2>4
<1>12. ASSUME UNCHANGED phoneVars PROVE Holds
  BY <1>12 DEF phoneVars, agentVars, runnerVars, healthVars, Queued, BehindPoll, Calm, Waits
<1> QED
  BY <1>1, <1>2, <1>3, <1>4, <1>5, <1>6, <1>7, <1>8, <1>9, <1>10, <1>11, <1>12
  DEF RunnerNext, RunnerStep, PollStep, TimeoutStep

(* Types, and the relation of queue, running action and waiting caller on each platform,
   hold in every reachable state of runner and agent. *)
THEOREM RunnerInvariant == RunnerSpec => []RunnerInv
<1>1. RunnerInv /\ [RunnerNext]_phoneVars => RunnerInv'
  BY NextTypeOK, NextAndroidInv, NextIosInv DEF RunnerInv
<1> QED
  BY InitRunnerInv, <1>1, PTL DEF RunnerSpec

-------------------------------------------------------------------------------
(* Every variable keeps its type. *)
THEOREM RunnerTypeCorrect == RunnerSpec => []RunnerTypeOK
<1>1. RunnerInv => RunnerTypeOK
  BY DEF RunnerInv
<1> QED
  BY <1>1, RunnerInvariant, PTL

(* On Android no input is performed after its sender was told that it failed, for any
   time limits of which the queue's is the shorter. *)
THEOREM NoGhostOnAndroid == RunnerSpec => NoGhostInput
<1>1. RunnerInv /\ [RunnerNext]_phoneVars =>
        [\A c \in Commands : platform = "android" /\ running # c /\ running' = c => command = c]_phoneVars
  <2> SUFFICES ASSUME RunnerInv, RunnerNext, NEW c \in Commands, platform = "android",
                      running # c, running' = c
               PROVE  command = c
    BY DEF phoneVars
  <2>1. Begin(c)
    BY RunnerAssumption
    DEF RunnerNext, RunnerStep, PollStep, TimeoutStep, Send, Begin, Aborted, Ends, PollStarts,
        PollAnswered, PollFails, Restart, Crash, Relaunched, ActionTimesOut, ClientTimesOut,
        runnerVars, RunnerTick
  <2> QED
    BY <2>1, RunnerAssumption DEF RunnerInv, AndroidInv, OneCommandWaits, Begin, IsNext
<1> QED
  BY <1>1, RunnerInvariant, PTL DEF RunnerSpec, NoGhostInput

(* A poll is counted as failed on iOS only, and only since an action has lasted as long
   as the poll waits: no series of shorter actions, and none on Android, has a runner
   taken for dead.  It rests on the poll's limit being at most half the agent's. *)
THEOREM OnlyBlockedRunnersFail == RunnerSpec => []FailsOnlyWhenBlocked
<1>1. RunnerInv => FailsOnlyWhenBlocked
  BY DEF RunnerInv, RunnerTypeOK, AndroidInv, PollsAreAnswered, IosInv, Calm, FailsOnlyWhenBlocked
<1> QED
  BY <1>1, RunnerInvariant, PTL
===============================================================================
