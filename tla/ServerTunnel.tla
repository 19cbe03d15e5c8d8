----------------------------- MODULE ServerTunnel -----------------------------
(***************************************************************************)
(* The reconnection of an agent's tunnel (ServerTunnel): a WebSocket that  *)
(* is opened again after every close event with exponential backoff, a     *)
(* counter that is reset only by a connection that lasts, pings with a     *)
(* deadline for the pong, and close codes that no retry can repair.        *)
(*                                                                         *)
(* The callback of a timer is bound to the socket that started it, while   *)
(* one field per kind holds the timer that can be cleared: one whose field *)
(* moved on would run unchecked, so timers and fields are both modelled.   *)
(***************************************************************************)
EXTENDS Integers

CONSTANTS
  Sockets, NoSocket,
  BackoffBase, BackoffMax,   \* ticks before the first and before any retry
  MaxAttempt,                \* bound: the counter saturates where the delay does
  StableReset, PingInterval, PongTimeout

(* backoffDelayMs *)
Backoff(n) == IF BackoffBase * 2^n < BackoffMax THEN BackoffBase * 2^n ELSE BackoffMax

ASSUME TunnelAssumption ==
  /\ NoSocket \notin Sockets
  /\ {BackoffBase, BackoffMax, StableReset, PingInterval, PongTimeout} \subseteq Nat \ {0}
  /\ MaxAttempt \in Nat
  /\ BackoffBase * 2^MaxAttempt >= BackoffMax

(* Doubling never shrinks a delay: true for every base, and stated because no
   prover at hand does the induction on the exponent. *)
ASSUME DelaysGrow ==
  \A i, j \in 0..MaxAttempt : i <= j =>
    /\ BackoffBase <= BackoffBase * 2^i
    /\ BackoffBase * 2^i <= BackoffBase * 2^j

ConnectionTimers == {"stableReset", "ping", "pongTimeout"}
TimerKinds == ConnectionTimers \union {"reconnect"}
Longest == [stableReset |-> StableReset, ping |-> PingInterval,
            pongTimeout |-> PongTimeout, reconnect |-> BackoffMax]
NotOpen == -1

VARIABLES
  socket,            \* the socket of the last connect()
  readyState,        \* of every socket whose close event has not come
  silent,            \* half-open sockets: the peer is gone and nothing says so
  timers,            \* timers that run: kind, socket, ticks left
  field,             \* kind -> the socket whose timer the field holds
  reconnectAttempt, isClosed,
  upFor, downFor,    \* history: age of the open connection, time since a close
  streak,            \* history: closes in a row of connections that did not last
  pause              \* history: the pause owed before the next connection

historyVars == <<upFor, downFor, streak, pause>>
vars == <<socket, readyState, silent, timers, field, reconnectAttempt, isClosed, historyVars>>

TypeOK ==
  /\ socket \in Sockets
  /\ readyState \in [Sockets -> {"unused", "connecting", "open", "closing"}]
  /\ silent \in SUBSET Sockets
  /\ \A t \in timers : \E k \in TimerKinds :
       t \in [kind : {k}, of : Sockets, left : 0..Longest[k]]
  /\ field \in [TimerKinds -> Sockets \union {NoSocket}]
  /\ reconnectAttempt \in 0..MaxAttempt
  /\ isClosed \in BOOLEAN
  /\ upFor \in 0..StableReset \union {NotOpen}
  /\ downFor \in 0..BackoffMax
  /\ streak \in 0..MaxAttempt
  /\ pause \in 0..BackoffMax

(* After the first connect(). *)
Init ==
  /\ socket \in Sockets
  /\ readyState = [s \in Sockets |-> IF s = socket THEN "connecting" ELSE "unused"]
  /\ silent = {}
  /\ timers = {}
  /\ field = [k \in TimerKinds |-> NoSocket]
  /\ reconnectAttempt = 0
  /\ isClosed = FALSE
  /\ upFor = NotOpen /\ downFor = 0 /\ streak = 0 /\ pause = 0

-------------------------------------------------------------------------------
Timer(k, s, ticks) == [kind |-> k, of |-> s, left |-> ticks]
Due(k, s) == Timer(k, s, 0) \in timers
Without(k, s) == timers \ {Timer(k, s, 0)}

(* clearTimer for some kinds: what the fields hold, and no other timer. *)
Kept(kinds) == {t \in timers : t.kind \notin kinds \/ field[t.kind] # t.of}
Emptied(kinds) == [k \in TimerKinds |-> IF k \in kinds THEN NoSocket ELSE field[k]]

Saturated(n, bound) == IF n < bound THEN n ELSE bound

(* connect *)
Connect(s) ==
  /\ readyState[s] = "unused"
  /\ socket' = s
  /\ readyState' = [readyState EXCEPT ![s] = "connecting"]

(* The open event: stable-reset timer, startKeepalive, onOpen. *)
Opens(s) ==
  /\ readyState[s] = "connecting"
  /\ readyState' = [readyState EXCEPT ![s] = "open"]
  /\ timers' = timers \union {Timer("stableReset", s, StableReset), Timer("ping", s, PingInterval)}
  /\ field' = [field EXCEPT !["stableReset"] = s, !["ping"] = s]
  /\ upFor' = 0
  /\ UNCHANGED <<socket, silent, isClosed, downFor, streak, pause>>

(* Mutant: an accepted connection counts as a good one. *)
OpenResetsBackoff(s) == Opens(s) /\ reconnectAttempt' = 0

Open(s) == Opens(s) /\ UNCHANGED reconnectAttempt

StableResetFires(s) ==
  /\ Due("stableReset", s)
  /\ timers' = Without("stableReset", s)
  /\ reconnectAttempt' = 0
  /\ UNCHANGED <<socket, readyState, silent, field, isClosed, historyVars>>

(* The interval pings an open socket and, unless it waits already, starts to
   wait for the pong. *)
PingFires(s) ==
  /\ Due("ping", s)
  /\ LET waits == readyState[s] = "open" /\ field["pongTimeout"] = NoSocket
     IN  /\ timers' = Without("ping", s) \union {Timer("ping", s, PingInterval)}
            \union (IF waits THEN {Timer("pongTimeout", s, PongTimeout)} ELSE {})
         /\ field' = IF waits THEN [field EXCEPT !["pongTimeout"] = s] ELSE field
  /\ UNCHANGED <<socket, readyState, silent, reconnectAttempt, isClosed, historyVars>>

PongArrives(s) ==
  /\ readyState[s] = "open" /\ s \notin silent
  /\ timers' = Kept({"pongTimeout"})
  /\ field' = Emptied({"pongTimeout"})
  /\ UNCHANGED <<socket, readyState, silent, reconnectAttempt, isClosed, historyVars>>

(* socket.terminate(): the close event is still to come. *)
PongTimeoutFires(s) ==
  /\ Due("pongTimeout", s)
  /\ timers' = Without("pongTimeout", s)
  /\ readyState' = [readyState EXCEPT ![s] = IF @ = "unused" THEN @ ELSE "closing"]
  /\ UNCHANGED <<socket, silent, field, reconnectAttempt, isClosed, historyVars>>

(* Mutant of stopConnectionTimers: one kind is forgotten. *)
AllButPong == ConnectionTimers \ {"pongTimeout"}

(* stopConnectionTimers *)
StoppedTimers == ConnectionTimers

(* Mutant: a close code that needs an operator ends the retries. *)
RetriesUnlessTerminal(terminal) == ~isClosed /\ ~terminal

Retries(terminal) == ~isClosed

(* The close event: stopConnectionTimers, onDisconnect, scheduleReconnect. *)
CloseEvent(s, terminal) ==
  /\ readyState[s] = "closing"
  /\ readyState' = [readyState EXCEPT ![s] = "unused"]
  /\ silent' = silent \ {s}
  /\ IF Retries(terminal)
     THEN /\ timers' = Kept(StoppedTimers) \union
            {Timer("reconnect", s, IF terminal THEN BackoffMax ELSE Backoff(reconnectAttempt))}
          /\ field' = [Emptied(StoppedTimers) EXCEPT !["reconnect"] = s]
          /\ reconnectAttempt' = IF terminal THEN reconnectAttempt
                                 ELSE Saturated(reconnectAttempt + 1, MaxAttempt)
     ELSE /\ timers' = Kept(StoppedTimers)
          /\ field' = Emptied(StoppedTimers)
          /\ UNCHANGED reconnectAttempt
  /\ LET failed == IF upFor = StableReset THEN 0 ELSE streak
     IN  /\ streak' = IF terminal THEN failed ELSE Saturated(failed + 1, MaxAttempt)
         /\ pause' = IF terminal THEN BackoffMax ELSE Backoff(failed)
  /\ upFor' = NotOpen
  /\ downFor' = 0
  /\ UNCHANGED <<socket, isClosed>>

ReconnectFires(s) ==
  /\ Due("reconnect", s)
  /\ timers' = Without("reconnect", s)
  /\ IF isClosed THEN UNCHANGED <<socket, readyState>> ELSE \E t \in Sockets : Connect(t)
  /\ UNCHANGED <<silent, field, reconnectAttempt, isClosed, historyVars>>

(* tunnel.close() *)
Close ==
  /\ ~isClosed
  /\ isClosed' = TRUE
  /\ timers' = Kept(StoppedTimers \union {"reconnect"})
  /\ field' = Emptied(StoppedTimers \union {"reconnect"})
  /\ readyState' = [readyState EXCEPT ![socket] = IF @ = "unused" THEN @ ELSE "closing"]
  /\ UNCHANGED <<socket, silent, reconnectAttempt, historyVars>>

(* The peer, the network and the clock. *)

(* Mutant: the error event schedules a reconnection as the close event does. *)
FailsAndSchedules(s) ==
  /\ readyState[s] \in {"connecting", "open"} /\ s \notin silent
  /\ readyState' = [readyState EXCEPT ![s] = "closing"]
  /\ timers' = timers \union {Timer("reconnect", s, Backoff(reconnectAttempt))}
  /\ field' = [field EXCEPT !["reconnect"] = s]
  /\ UNCHANGED <<socket, silent, reconnectAttempt, isClosed, historyVars>>

(* A handshake fails or takes too long, the peer closes, the network reports
   an error: the error event changes nothing, a close event follows. *)
Fails(s) ==
  /\ readyState[s] \in {"connecting", "open"} /\ s \notin silent
  /\ readyState' = [readyState EXCEPT ![s] = "closing"]
  /\ UNCHANGED <<socket, silent, timers, field, reconnectAttempt, isClosed, historyVars>>

PeerVanishes(s) ==
  /\ readyState[s] = "open"
  /\ silent' = silent \union {s}
  /\ UNCHANGED <<socket, readyState, timers, field, reconnectAttempt, isClosed, historyVars>>

(* Callbacks are late by less than a tick. *)
Tick ==
  /\ \A t \in timers : t.left > 0
  /\ timers' = {[t EXCEPT !.left = @ - 1] : t \in timers}
  /\ upFor' = IF upFor = NotOpen THEN upFor ELSE Saturated(upFor + 1, StableReset)
  /\ downFor' = Saturated(downFor + 1, BackoffMax)
  /\ UNCHANGED <<socket, readyState, silent, field, reconnectAttempt, isClosed, streak, pause>>

TimerFires(s) ==
  StableResetFires(s) \/ PingFires(s) \/ PongTimeoutFires(s) \/ ReconnectFires(s)

Next ==
  \/ \E s \in Sockets :
       \/ Open(s) \/ PongArrives(s) \/ TimerFires(s) \/ Fails(s) \/ PeerVanishes(s)
       \/ \E terminal \in BOOLEAN : CloseEvent(s, terminal)
  \/ Close
  \/ Tick

Spec == Init /\ [][Next]_vars

(* Time passes and timers fire; a handshake is answered or times out; a socket
   that is closing gets its close event. *)
Fairness ==
  /\ WF_vars(Tick)
  /\ \A s \in Sockets :
       /\ WF_vars(TimerFires(s))
       /\ WF_vars(readyState[s] = "connecting" /\ (Open(s) \/ Fails(s)))
       /\ WF_vars(\E terminal \in BOOLEAN : CloseEvent(s, terminal))

FairSpec == Spec /\ Fairness

-------------------------------------------------------------------------------
(* An agent has one connection or one reconnection ahead of it, never two: a
   second socket would replace the first one at the server, and be replaced by
   its reconnection, for ever. *)
Live == {s \in Sockets : readyState[s] # "unused"}
Scheduled == {t \in timers : t.kind = "reconnect"}
OneConnection ==
  /\ \A s, t \in Live : s = t
  /\ \A r, t \in Scheduled : r = t
  /\ Live = {} \/ Scheduled = {}

(* A timer that acts on a connection belongs to the socket in use and can be
   stopped: none outlives its connection. *)
TimersFollowConnection ==
  \A t \in timers : t.kind \in ConnectionTimers =>
    /\ t.of = socket /\ field[t.kind] = t.of
    /\ readyState[socket] \in {"open", "closing"}

(* Between two connections lies the backoff of all the closes in a row of
   connections that did not last, and the longest one after a close code that
   no retry can repair: a server that accepts and drops at once, or two agents
   with one id, never make a fast loop. *)
NoFastLoop ==
  [][(\E s \in Sockets : readyState[s] = "unused" /\ readyState'[s] = "connecting")
       => downFor >= pause]_vars

(* After close() no timer runs, so none keeps the process or connects again. *)
QuietAfterClose == isClosed => timers = {}

(* A half-open connection is noticed. *)
SilenceIsNoticed == \A s \in Sockets : s \in silent ~> s \notin silent

(* Without a connection there is always a next attempt, whatever the close
   code was. *)
TriesAgain == (Live = {}) ~> (Live # {} \/ isClosed)
===============================================================================
