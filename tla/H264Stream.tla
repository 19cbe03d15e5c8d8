------------------------------ MODULE H264Stream ------------------------------
(***************************************************************************)
(* The mirroring of iOS devices: one stream object per device, which runs  *)
(* mirror-helper, learns the size of its frames from what it logs, sends   *)
(* its packets as frames, and runs it again when it ends.                  *)
(*                                                                         *)
(* A helper may ignore SIGTERM.  Its exit event and what is left in its    *)
(* pipes come in any order, though within a tick.  StreamManager starts    *)
(* and stops the streams.                                                  *)
(***************************************************************************)
EXTENDS Integers, FiniteSets

CONSTANTS
  RestartBase, RestartMax, KillEscalation,    \* ticks
  FirstOutput,             \* ticks: resolution deadline, preamble deadline
  MaxAttempt,
  MaxStreams, MaxLaunches  \* bounds: stream objects, and launches of all of them

Streams == 1..MaxStreams
Launches == 1..MaxLaunches
Off == -1

VARIABLES
  mirror,     \* the H264Stream objects
  helper,     \* their helper processes, by launch
  sent        \* history: the last frame sent, by launches: from whom, in whose size

hvars == <<mirror, helper, sent>>

MirrorType ==
  [isActive : BOOLEAN, child : 0..MaxLaunches, terminatingChild : 0..MaxLaunches,
   restartTimer : {Off} \union 0..RestartMax, resolutionTimer : {Off} \union 0..FirstOutput,
   restartAttempt : 0..MaxAttempt, size : 0..MaxLaunches]

HelperType ==
  [stream : 0..MaxStreams, alive : BOOLEAN, ended : BOOLEAN, open : BOOLEAN,
   poisoned : BOOLEAN, asked : BOOLEAN, escalation : {Off} \union 0..KillEscalation]

TypeOK ==
  /\ mirror \in [Streams -> MirrorType]
  /\ helper \in [Launches -> HelperType]
  /\ sent \in [from : 0..MaxLaunches, size : 0..MaxLaunches]

NoHelper ==
  [stream |-> 0, alive |-> FALSE, ended |-> FALSE, open |-> FALSE,
   poisoned |-> FALSE, asked |-> FALSE, escalation |-> Off]

Init ==
  /\ mirror = [o \in Streams |->
       [isActive |-> FALSE, child |-> 0, terminatingChild |-> 0, restartTimer |-> Off,
        resolutionTimer |-> Off, restartAttempt |-> 0, size |-> 0]]
  /\ helper = [n \in Launches |-> NoHelper]
  /\ sent = [from |-> 0, size |-> 0]

-------------------------------------------------------------------------------
Saturated(n, bound) == IF n < bound THEN n ELSE bound
Delay(attempt) == Saturated(RestartBase * 2^attempt, RestartMax)

Unused == {n \in Launches : helper[n].stream = 0}
MayLaunch == Unused # {}

(* Mutant: the size of the last helper stays. *)
SizeKept(r) == r.size

SizeAtLaunch(r) == 0

(* launch of stream o, whose fields are r by now: the next helper. *)
Launch(o, r) ==
  \E n \in Unused :
    /\ \A k \in Unused : n <= k
    /\ mirror' = [mirror EXCEPT ![o] =
         [r EXCEPT !.size = SizeAtLaunch(r), !.child = n, !.restartTimer = Off,
                   !.resolutionTimer = FirstOutput]]
    /\ helper' = [helper EXCEPT ![n] = [NoHelper EXCEPT !.stream = o, !.alive = TRUE, !.open = TRUE]]

(* start *)
Start(o) ==
  /\ ~mirror[o].isActive
  /\ Launch(o, [mirror[o] EXCEPT !.isActive = TRUE])
  /\ UNCHANGED sent

(* scheduleRestart *)
Restarting(r) ==
  IF ~r.isActive \/ r.restartTimer # Off THEN r
  ELSE [r EXCEPT !.resolutionTimer = Off, !.restartTimer = Delay(r.restartAttempt),
                 !.restartAttempt = Saturated(@ + 1, MaxAttempt)]

RestartFires(o) ==
  /\ mirror[o].restartTimer = 0
  /\ Launch(o, mirror[o])
  /\ UNCHANGED sent

(* stop: SIGTERM, and a timer that escalates to SIGKILL. *)
Stop(o) ==
  LET r == mirror[o]
      n == r.child
  IN  /\ mirror' = [mirror EXCEPT ![o] =
           [r EXCEPT !.isActive = FALSE, !.restartTimer = Off, !.resolutionTimer = Off,
                     !.child = 0, !.terminatingChild = IF n = 0 THEN @ ELSE n]]
      /\ helper' = IF n = 0 THEN helper
                   ELSE [helper EXCEPT ![n].escalation = KillEscalation, ![n].asked = TRUE]
      /\ UNCHANGED sent

-------------------------------------------------------------------------------
(* The log line with the size: parseHelperLog, whichever helper wrote it. *)
Announces(n) ==
  /\ helper[n].open
  /\ mirror' = [mirror EXCEPT ![helper[n].stream] =
       [@ EXCEPT !.size = n, !.restartAttempt = 0, !.resolutionTimer = Off]]
  /\ UNCHANGED <<helper, sent>>

(* A chunk with a packet: emit sends it, or drops it as long as the size is
   unknown. *)
Packet(n) ==
  /\ helper[n].open /\ ~helper[n].poisoned
  /\ LET r == mirror[helper[n].stream]
     IN  r.isActive /\ r.size # 0 /\ sent' = [from |-> n, size |-> r.size]
  /\ UNCHANGED <<mirror, helper>>

(* A damaged chunk: SIGTERM, and every later chunk does the same. *)
Damaged(n) ==
  /\ helper[n].open
  /\ helper' = [helper EXCEPT ![n].poisoned = TRUE, ![n].asked = TRUE]
  /\ UNCHANGED <<mirror, sent>>

(* The resolution deadline: SIGTERM, and the rest is left to the exit event. *)
ResolutionDeadline(o) ==
  LET r == mirror[o]
      silent == r.isActive /\ r.child # 0 /\ r.size = 0
  IN  /\ r.resolutionTimer = 0
      /\ mirror' = [mirror EXCEPT ![o].resolutionTimer = Off]
      /\ helper' = IF silent THEN [helper EXCEPT ![r.child].asked = TRUE] ELSE helper
      /\ UNCHANGED sent

(* The helper ends, by itself or asked to, or it could not be started. *)
Ends(n) ==
  /\ helper[n].alive
  /\ helper' = [helper EXCEPT ![n].alive = FALSE]
  /\ UNCHANGED <<mirror, sent>>

(* The exit or error event. *)
EndEvent(n) ==
  /\ helper[n].stream # 0 /\ ~helper[n].alive /\ ~helper[n].ended
  /\ helper' = [helper EXCEPT ![n].ended = TRUE]
  /\ mirror' = [mirror EXCEPT ![helper[n].stream] = Restarting(@)]
  /\ UNCHANGED sent

(* The last of the output was read. *)
Closes(n) ==
  /\ helper[n].open /\ ~helper[n].alive
  /\ helper' = [helper EXCEPT ![n].open = FALSE]
  /\ UNCHANGED <<mirror, sent>>

(* awaitTermination of stream o has nothing to wait for. *)
Awaited(o) == mirror[o].terminatingChild = 0 \/ ~helper[mirror[o].terminatingChild].alive

(* Mutant: awaitTermination gives up on a child that ignores SIGTERM. *)
GivenUp(S) == {}

Surviving(S) == {mirror[o].terminatingChild : o \in S}

(* Its deadline is over: SIGKILL. *)
Killed(S) ==
  /\ helper' = [n \in Launches |-> [helper[n] EXCEPT !.alive = @ /\ n \notin Surviving(S)]]
  /\ UNCHANGED <<mirror, sent>>

HNext ==
  \/ \E o \in Streams : RestartFires(o) \/ ResolutionDeadline(o)
  \/ \E n \in Launches :
       Announces(n) \/ Packet(n) \/ Damaged(n) \/ Ends(n) \/ EndEvent(n) \/ Closes(n)

(* Nothing is due. *)
MayTick ==
  /\ \A o \in Streams : /\ mirror[o].restartTimer = 0 => ~MayLaunch
                        /\ mirror[o].resolutionTimer # 0
  /\ \A n \in Launches : ~helper[n].alive => helper[n].stream = 0 \/ (helper[n].ended /\ ~helper[n].open)

Older(t) == IF t > 0 THEN t - 1 ELSE t

(* A tick; a child whose escalation is due ends. *)
HTick ==
  /\ MayTick
  /\ mirror' = [o \in Streams |->
       [mirror[o] EXCEPT !.restartTimer = Older(@), !.resolutionTimer = Older(@)]]
  /\ helper' = [n \in Launches |->
       [helper[n] EXCEPT !.escalation = Older(@), !.alive = @ /\ helper[n].escalation # 0]]
  /\ UNCHANGED sent

-------------------------------------------------------------------------------
(* A frame goes out in the size its own helper announced. *)
FramesInOwnSize == sent.from = sent.size

(* A helper that runs belongs to an active stream, or will be killed. *)
NoHelperLeaks ==
  \A n \in Launches : helper[n].alive /\ helper[n].escalation = Off =>
    mirror[helper[n].stream].isActive /\ mirror[helper[n].stream].child = n

(* An active stream waits for its restart or for an event of its helper. *)
StreamIsDriven ==
  \A o \in Streams : mirror[o].isActive =>
    \/ mirror[o].restartTimer # Off
    \/ mirror[o].child # 0 /\ ~helper[mirror[o].child].ended
===============================================================================
