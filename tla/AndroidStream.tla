----------------------------- MODULE AndroidStream -----------------------------
(***************************************************************************)
(* The mirroring of an Android device: push the daemon, start it with adb, *)
(* forward a local port to its socket, connect, read the preamble and then *)
(* packets.  Whatever fails, the session is torn down and another one is   *)
(* launched after a backoff.                                               *)
(*                                                                         *)
(* Every stream object of a device uses the same local port.  An adb call  *)
(* outlives the session, and the stream, that made it.                     *)
(***************************************************************************)
EXTENDS Integers, FiniteSets

CONSTANTS
  RestartBase, RestartMax, KillEscalation, FirstOutput, ConnectRetry,    \* ticks
  MaxAttempt,
  MaxStreams, MaxLaunches  \* bounds: stream objects, and launches of all of them

Streams == 1..MaxStreams
Launches == 1..MaxLaunches
Off == -1

VARIABLES
  stream,      \* the AndroidStream objects
  session,     \* their DaemonSessions, by launch
  forwarded,   \* of the adb server: does the port lead to the device?
  removing     \* stopped streams whose `forward --remove` has not returned

avars == <<stream, session, forwarded, removing>>

StreamType ==
  [isActive : BOOLEAN, session : 0..MaxLaunches, restartTimer : {Off} \union 0..RestartMax,
   preambleTimer : {Off} \union 0..FirstOutput, connectTimer : {Off} \union 0..ConnectRetry,
   restartAttempt : 0..MaxAttempt]

(* step: the await the launch is in; socket: refused or closing until its close event. *)
SessionType ==
  [stream : 0..MaxStreams, step : {"push", "forward", "done"},
   daemon : {"none", "alive", "dead", "ended"}, escalation : {Off} \union 0..KillEscalation,
   socket : {"none", "open", "refused", "closing"}, preamble : BOOLEAN]

TypeOK ==
  /\ stream \in [Streams -> StreamType]
  /\ session \in [Launches -> SessionType]
  /\ forwarded \in BOOLEAN
  /\ removing \subseteq Streams

NoSession ==
  [stream |-> 0, step |-> "done", daemon |-> "none", escalation |-> Off,
   socket |-> "none", preamble |-> FALSE]

Init ==
  /\ stream = [o \in Streams |->
       [isActive |-> FALSE, session |-> 0, restartTimer |-> Off, preambleTimer |-> Off,
        connectTimer |-> Off, restartAttempt |-> 0]]
  /\ session = [n \in Launches |-> NoSession]
  /\ forwarded = FALSE /\ removing = {}

-------------------------------------------------------------------------------
Saturated(n, bound) == IF n < bound THEN n ELSE bound
Delay(attempt) == Saturated(RestartBase * 2^attempt, RestartMax)

Unused == {n \in Launches : session[n].stream = 0}
MayLaunch == Unused # {}

(* The session is the present one of an active stream: what every callback asks. *)
Current(n) == stream[session[n].stream].isActive /\ stream[session[n].stream].session = n

(* clearTimers *)
Cleared(r) == [r EXCEPT !.restartTimer = Off, !.connectTimer = Off, !.preambleTimer = Off]

(* launch, up to its first await: the push. *)
Launch(o, r) ==
  \E n \in Unused :
    /\ \A k \in Unused : n <= k
    /\ stream' = [stream EXCEPT ![o] = [r EXCEPT !.session = n, !.restartTimer = Off]]
    /\ session' = [session EXCEPT ![n] = [NoSession EXCEPT !.stream = o, !.step = "push"]]

(* start *)
Start(o) ==
  /\ ~stream[o].isActive
  /\ Launch(o, [stream[o] EXCEPT !.isActive = TRUE])
  /\ UNCHANGED <<forwarded, removing>>

(* teardownSession, of a session with fields q: the socket is destroyed, the daemon is
   sent SIGTERM, and SIGKILL later. *)
TornDown(q) ==
  [q EXCEPT !.socket = IF @ = "none" THEN @ ELSE "closing",
            !.escalation = IF q.daemon \in {"alive", "dead"} THEN KillEscalation ELSE @]

(* stop *)
Stop(o) ==
  LET n == stream[o].session
  IN  /\ stream' = [stream EXCEPT ![o] = [Cleared(@) EXCEPT !.isActive = FALSE, !.session = 0]]
      /\ session' = IF n = 0 THEN session ELSE [session EXCEPT ![n] = TornDown(@)]
      /\ removing' = removing \union {o}
      /\ UNCHANGED forwarded

(* scheduleRestart of the stream of session n, whose fields are q by now. *)
ScheduleRestart(n, q) ==
  LET r == stream[q.stream]
  IN  IF r.isActive /\ r.restartTimer = Off
      THEN /\ stream' = [stream EXCEPT ![q.stream] =
                [Cleared(r) EXCEPT !.session = 0, !.restartTimer = Delay(r.restartAttempt),
                                   !.restartAttempt = Saturated(@ + 1, MaxAttempt)]]
           /\ session' = [session EXCEPT ![n] = TornDown(q)]
      ELSE session' = [session EXCEPT ![n] = q] /\ UNCHANGED stream

RestartFires(o) ==
  /\ stream[o].restartTimer = 0
  /\ Launch(o, stream[o])
  /\ UNCHANGED <<forwarded, removing>>

-------------------------------------------------------------------------------
(* Mutant: the push is not followed by a look at the stream. *)
StillWanted(n) == TRUE

PushCounts(n) == Current(n)

(* The push returned: spawnDaemon, and the forward is asked for. *)
Pushed(n) ==
  /\ session[n].step = "push"
  /\ session' = [session EXCEPT ![n] =
       IF PushCounts(n) THEN [@ EXCEPT !.daemon = "alive", !.step = "forward"]
       ELSE [@ EXCEPT !.step = "done"]]
  /\ UNCHANGED <<stream, forwarded, removing>>

(* connectSocket: nobody answers when the port is not forwarded. *)
Connected(q) == [q EXCEPT !.socket = IF forwarded' THEN "open" ELSE "refused"]

(* Mutant: no deadline for the preamble. *)
NoDeadline == Off

PreambleDeadline == FirstOutput

(* The forward returned: armPreambleDeadline and connectSocket. *)
Forwarded(n) ==
  /\ session[n].step = "forward"
  /\ forwarded' = TRUE
  /\ IF Current(n)
     THEN /\ stream' = [stream EXCEPT ![session[n].stream].preambleTimer = PreambleDeadline]
          /\ session' = [session EXCEPT ![n] = Connected([@ EXCEPT !.step = "done"])]
     ELSE session' = [session EXCEPT ![n].step = "done"] /\ UNCHANGED stream
  /\ UNCHANGED removing

(* adb failed, or the spawn threw: the catch of launch. *)
LaunchFails(n) ==
  /\ session[n].step \in {"push", "forward"}
  /\ LET q == [session[n] EXCEPT !.step = "done"]
     IN  IF Current(n) THEN ScheduleRestart(n, q)
         ELSE session' = [session EXCEPT ![n] = q] /\ UNCHANGED stream
  /\ forwarded' \in {forwarded, forwarded \/ session[n].step = "forward"}
  /\ UNCHANGED removing

(* The removal that stop asked for returned, done or failed. *)
Removed(o) ==
  /\ o \in removing
  /\ removing' = removing \ {o}
  /\ forwarded' \in {FALSE, forwarded}
  /\ UNCHANGED <<stream, session>>

-------------------------------------------------------------------------------
(* handleChunk: the preamble. *)
Preamble(n) ==
  /\ session[n].socket = "open" /\ ~session[n].preamble
  /\ stream[session[n].stream].session = n
  /\ session' = [session EXCEPT ![n].preamble = TRUE]
  /\ stream' = [stream EXCEPT ![session[n].stream] =
       [@ EXCEPT !.restartAttempt = 0, !.preambleTimer = Off]]
  /\ UNCHANGED <<forwarded, removing>>

(* handleChunk: the parser finds damage. *)
Damaged(n) ==
  /\ session[n].socket = "open" /\ stream[session[n].stream].session = n
  /\ ScheduleRestart(n, session[n])
  /\ UNCHANGED <<forwarded, removing>>

(* The close event: nobody listens yet, the daemon closed, or it was destroyed. *)
CloseEvent(n) ==
  /\ session[n].socket # "none"
  /\ LET q == [session[n] EXCEPT !.socket = "none"]
     IN  CASE ~Current(n) -> session' = [session EXCEPT ![n] = q] /\ UNCHANGED stream
           [] Current(n) /\ ~q.preamble ->
                /\ session' = [session EXCEPT ![n] = q]
                /\ stream' = [stream EXCEPT ![q.stream].connectTimer = ConnectRetry]
           [] OTHER -> ScheduleRestart(n, q)
  /\ UNCHANGED <<forwarded, removing>>

(* connectTimer: try again, as long as this session is the present one. *)
Reconnects(o) ==
  /\ stream[o].connectTimer = 0
  /\ stream' = [stream EXCEPT ![o].connectTimer = Off]
  /\ UNCHANGED <<forwarded, removing>>
  /\ LET n == stream[o].session
     IN  session' = IF n # 0 THEN [session EXCEPT ![n] = Connected(@)] ELSE session

(* preambleTimer *)
DeadlinePasses(o) ==
  /\ stream[o].preambleTimer = 0
  /\ LET n == stream[o].session
     IN  IF n # 0 /\ ~session[n].preamble
         THEN ScheduleRestart(n, session[n])
         ELSE stream' = [stream EXCEPT ![o].preambleTimer = Off] /\ UNCHANGED session
  /\ UNCHANGED <<forwarded, removing>>

(* The daemon ends, by itself or asked to. *)
Ends(n) ==
  /\ session[n].daemon = "alive"
  /\ session' = [session EXCEPT ![n].daemon = "dead"]
  /\ UNCHANGED <<stream, forwarded, removing>>

(* The exit or error event. *)
EndEvent(n) ==
  /\ session[n].daemon = "dead"
  /\ LET q == [session[n] EXCEPT !.daemon = "ended"]
     IN  IF Current(n) THEN ScheduleRestart(n, q)
         ELSE session' = [session EXCEPT ![n] = q] /\ UNCHANGED stream
  /\ UNCHANGED <<forwarded, removing>>

(* awaitTermination of stream o has nothing to wait for. *)
Terminating(o) ==
  {n \in Launches : session[n].stream = o /\ session[n].daemon = "alive" /\ session[n].escalation # Off}
Awaited(o) == Terminating(o) = {}

(* Its deadline is over: SIGKILL. *)
Killed(S) ==
  /\ session' = [n \in Launches |->
       IF n \in UNION {Terminating(o) : o \in S} THEN [session[n] EXCEPT !.daemon = "dead"] ELSE session[n]]
  /\ UNCHANGED <<stream, forwarded, removing>>

ANext ==
  \/ \E o \in Streams : RestartFires(o) \/ Removed(o) \/ Reconnects(o) \/ DeadlinePasses(o)
  \/ \E n \in Launches : \/ Pushed(n) \/ Forwarded(n) \/ LaunchFails(n)
                         \/ Preamble(n) \/ Damaged(n) \/ CloseEvent(n) \/ Ends(n) \/ EndEvent(n)

(* Nothing is due. *)
MayTick ==
  /\ \A o \in Streams : /\ stream[o].restartTimer = 0 => ~MayLaunch
                        /\ stream[o].connectTimer # 0 /\ stream[o].preambleTimer # 0
  /\ \A n \in Launches : session[n].daemon # "dead" /\ session[n].socket \notin {"closing", "refused"}

Older(t) == IF t > 0 THEN t - 1 ELSE t

(* A tick; a daemon whose escalation is due ends. *)
ATick ==
  /\ MayTick
  /\ stream' = [o \in Streams |->
       [stream[o] EXCEPT !.restartTimer = Older(@), !.preambleTimer = Older(@),
                         !.connectTimer = Older(@)]]
  /\ session' = [n \in Launches |->
       [session[n] EXCEPT !.escalation = Older(@),
          !.daemon = IF @ = "alive" /\ session[n].escalation = 0 THEN "dead" ELSE @]]
  /\ UNCHANGED <<forwarded, removing>>

-------------------------------------------------------------------------------
(* A daemon that runs belongs to the present session of an active stream, or will be
   killed. *)
NoDaemonLeaks ==
  \A n \in Launches : session[n].daemon = "alive" /\ session[n].escalation = Off => Current(n)

(* An active stream waits for its restart, for adb, for the preamble with a deadline,
   or reads an open socket. *)
StreamIsDriven ==
  \A o \in Streams : stream[o].isActive =>
    LET n == stream[o].session
    IN  IF n = 0 THEN stream[o].restartTimer # Off
        ELSE /\ stream[o].restartTimer = Off
             /\ \/ session[n].step # "done"
                \/ ~session[n].preamble /\ stream[o].preambleTimer # Off
                \/ session[n].preamble /\ session[n].socket = "open"
===============================================================================
