-------------------------- MODULE StreamManagerProofs --------------------------
(***************************************************************************)
(* Proofs about StreamManager and the two kinds of streams it keeps, for   *)
(* any number of streams and launches, and any delays that satisfy         *)
(* StreamManagerAssumption.  The inductive invariant is StreamsInv: one    *)
(* part for the streams of either platform, which speaks of one stream and *)
(* its launches, and ManagerInv, by which only the stream in the map is    *)
(* active, and the streams still to be made have no launches.              *)
(***************************************************************************)
EXTENDS StreamManager, TLAPS

(* iOS.  An active stream has a child, whose end starts the restart timer; when that
   timer is over, the child has also closed. *)
MirrorInv(o) ==
  LET r == mirror[o]
  IN  IF r.isActive
      THEN /\ r.child # 0 /\ helper[r.child].stream = o
           /\ r.size \in {0, r.child}
           /\ helper[r.child].ended <=> r.restartTimer # Ios!Off
           /\ r.restartTimer = 0 => ~helper[r.child].open
      ELSE r.child = 0 /\ r.restartTimer = Ios!Off

(* Every other helper of an active stream is gone with all its output, and one of a
   stopped stream runs only as the child that will be killed. *)
HelperInv(n) ==
  LET h == helper[n]
      r == mirror[h.stream]
  IN  IF h.stream = 0 THEN ~h.alive /\ ~h.open
      ELSE /\ h.ended => ~h.alive
           /\ r.isActive /\ n = r.child => h.escalation = Ios!Off
           /\ r.isActive /\ n # r.child => h.ended /\ ~h.open
           /\ ~r.isActive /\ h.alive => r.terminatingChild = n /\ h.escalation # Ios!Off

IosInv ==
  /\ Ios!TypeOK
  /\ \A o \in Ios!Streams : MirrorInv(o)
  /\ \A n \in Ios!Launches : HelperInv(n)
  /\ FramesInOwnSize

(* Android.  A stream without a session has only its restart timer, if it is active; one with a
   session waits for adb, for the preamble with a deadline, or reads an open
   socket, and connects again only before the preamble. *)
StreamInv(o) ==
  LET r == stream[o]
      q == session[r.session]
  IN  /\ ~r.isActive => r.session = 0 /\ r.restartTimer = Android!Off
      /\ r.session = 0 =>
           /\ r.preambleTimer = Android!Off /\ r.connectTimer = Android!Off
           /\ r.isActive => r.restartTimer # Android!Off
      /\ r.session # 0 =>
           /\ r.restartTimer = Android!Off /\ q.stream = o
           /\ q.step # "done" => r.connectTimer = Android!Off
           /\ r.connectTimer # Android!Off => q.socket = "none" /\ ~q.preamble
           /\ q.preamble => q.socket = "open"
           /\ q.step = "done" /\ ~q.preamble => r.preambleTimer # Android!Off

(* A daemon runs for the present session of its stream, or will be killed. *)
SessionInv(n) ==
  LET q == session[n]
  IN  IF q.stream = 0 THEN q.step = "done" /\ q.daemon = "none" /\ q.socket = "none"
      ELSE /\ q.step = "push" => q.daemon = "none"
           /\ q.step # "done" => q.socket = "none" /\ ~q.preamble
           /\ q.daemon = "alive" /\ q.escalation = Android!Off => stream[q.stream].session = n

AndroidInv ==
  /\ Android!TypeOK
  /\ \A o \in Android!Streams : StreamInv(o)
  /\ \A n \in Android!Launches : SessionInv(n)

-------------------------------------------------------------------------------
(* Only the stream in the map is active, and it is none that stopAll stopped; only
   streams made so far have launches. *)
ManagerInv ==
  /\ current < nextStream
  /\ \A o \in stopped : o < nextStream /\ o # current
  /\ \A o \in 1..MaxStreams :
       /\ stream[o].isActive <=> platform = "android" /\ o = current
       /\ mirror[o].isActive <=> platform = "ios" /\ o = current
  /\ \A n \in 1..MaxLaunches : session[n].stream < nextStream /\ helper[n].stream < nextStream

StreamsInv == TypeOK /\ AndroidInv /\ IosInv /\ ManagerInv /\ AwaitedAreGone

-------------------------------------------------------------------------------
LEMMA Ticks ==
  /\ RestartBase \in Nat \ {0} /\ RestartMax \in Nat \ {0} /\ KillEscalation \in Nat \ {0}
  /\ FirstOutput \in Nat \ {0} /\ ConnectRetry \in Nat \ {0} /\ Grace \in Nat \ {0}
  /\ MaxAttempt \in Nat /\ MaxStreams \in Nat \ {0} /\ MaxLaunches \in Nat \ {0}
BY StreamManagerAssumption

(* The values that timers are set to. *)
LEMMA Timers ==
  /\ Ios!Off \in {Ios!Off} \union 0..RestartMax /\ FirstOutput \in {Ios!Off} \union 0..FirstOutput
  /\ Ios!Off \in {Ios!Off} \union 0..KillEscalation
  /\ KillEscalation \in {Ios!Off} \union 0..KillEscalation /\ KillEscalation # Ios!Off
  /\ Android!Off = Ios!Off /\ Ios!Off \notin Nat
BY Ticks DEF Ios!Off, Android!Off

LEMMA DelayInRange ==
  \A n \in 0..MaxAttempt : /\ Ios!Delay(n) \in 1..RestartMax
                           /\ Android!Delay(n) = Ios!Delay(n)
<1> SUFFICES ASSUME NEW n \in 0..MaxAttempt
             PROVE  Ios!Delay(n) \in 1..RestartMax /\ Android!Delay(n) = Ios!Delay(n)
  OBVIOUS
<1>1. RestartBase * 2^n \in Int /\ RestartBase <= RestartBase * 2^n
  BY Ticks, DelaysGrow
<1> QED
  BY <1>1, Ticks DEF Ios!Delay, Ios!Saturated, Android!Delay, Android!Saturated

(* What scheduleRestart makes of the fields of an active stream that does not wait
   for a restart yet. *)
LEMMA RestartingFields ==
  ASSUME NEW r \in Ios!MirrorType, r.isActive, r.restartTimer = Ios!Off
  PROVE  /\ Ios!Restarting(r) \in Ios!MirrorType
         /\ Ios!Restarting(r).isActive
         /\ Ios!Restarting(r).child = r.child /\ Ios!Restarting(r).size = r.size
         /\ Ios!Restarting(r).terminatingChild = r.terminatingChild
         /\ Ios!Restarting(r).restartTimer \in 1..RestartMax
<1> DEFINE delay == Ios!Delay(r.restartAttempt)
           attempt == Ios!Saturated(r.restartAttempt + 1, MaxAttempt)
<1>1. delay \in {Ios!Off} \union 0..RestartMax /\ delay \in 1..RestartMax
  BY DelayInRange DEF Ios!MirrorType
<1>2. attempt \in 0..MaxAttempt
  BY Ticks DEF Ios!MirrorType, Ios!Saturated
<1>3. Ios!Restarting(r) =
        [r EXCEPT !.resolutionTimer = Ios!Off, !.restartTimer = delay, !.restartAttempt = attempt]
  BY DEF Ios!Restarting, Ios!MirrorType
<1> HIDE DEF delay, attempt
<1> QED
  BY <1>1, <1>2, <1>3 DEF Ios!MirrorType

(* What no step of the streams does: make a stream active or end it, or launch for a
   stream that is not active. *)
MirrorFrame ==
  /\ \A o \in Ios!Streams : mirror'[o].isActive = mirror[o].isActive
  /\ \A n \in Ios!Launches : \/ helper'[n].stream = helper[n].stream
                             \/ /\ helper'[n].stream \in Ios!Streams
                                /\ mirror[helper'[n].stream].isActive

(* Launching, when no earlier helper of the stream has anything left to say. *)
LEMMA IosLaunchKeeps ==
  ASSUME IosInv, NEW o \in Ios!Streams, NEW r \in Ios!MirrorType, r.isActive,
         \A n \in Ios!Launches :
           helper[n].stream = o => helper[n].ended /\ ~helper[n].open,
         Ios!Launch(o, r), sent' = sent
  PROVE  /\ IosInv'
         /\ mirror'[o].isActive
         /\ \A p \in Ios!Streams : p # o => mirror'[p] = mirror[p]
         /\ \A n \in Ios!Launches : helper'[n].stream \in {helper[n].stream, o}
<1> DEFINE x(n) == [r EXCEPT !.size = Ios!SizeAtLaunch(r), !.child = n, !.restartTimer = Ios!Off,
                             !.resolutionTimer = FirstOutput]
           new == [Ios!NoHelper EXCEPT !.stream = o, !.alive = TRUE, !.open = TRUE]
<1>1. PICK n \in Ios!Unused :
        mirror' = [mirror EXCEPT ![o] = x(n)] /\ helper' = [helper EXCEPT ![n] = new]
  BY DEF Ios!Launch
<1>2. /\ n \in Ios!Launches /\ n \in 0..MaxLaunches /\ n # 0 /\ helper[n].stream = 0
      /\ o \in 0..MaxStreams /\ o # 0
  BY Ticks DEF Ios!Unused, Ios!Launches, Ios!Streams
<1>3. /\ x(n) \in Ios!MirrorType
      /\ x(n).isActive /\ x(n).child = n /\ x(n).size = 0 /\ x(n).restartTimer = Ios!Off
  <2>1. 0 \in 0..MaxLaunches
    BY Ticks
  <2> QED
    BY <1>2, <2>1, Timers DEF Ios!MirrorType, Ios!SizeAtLaunch
<1>4. /\ new \in Ios!HelperType /\ new.stream = o
      /\ ~new.ended /\ new.escalation = Ios!Off
  BY <1>2, Timers DEF Ios!HelperType, Ios!NoHelper
<1> HIDE DEF x, new
<1>5. /\ mirror'[o] = x(n) /\ helper'[n] = new
      /\ \A p \in Ios!Streams : p # o => mirror'[p] = mirror[p]
      /\ \A m \in Ios!Launches : m # n => helper'[m] = helper[m]
  BY <1>1, <1>2 DEF IosInv, Ios!TypeOK
<1>6. Ios!TypeOK'
  BY <1>1, <1>2, <1>3, <1>4 DEF IosInv, Ios!TypeOK
<1>7. ASSUME NEW p \in Ios!Streams PROVE MirrorInv(p)'
  <2>1. CASE p = o
    BY <1>2, <1>3, <1>4, <1>5, <2>1 DEF MirrorInv, Ios!Off
  <2>2. CASE p # o
    <3>1. MirrorInv(p) /\ mirror'[p] = mirror[p] /\ mirror[p].child \in 0..MaxLaunches
      BY <1>5, <2>2 DEF IosInv, Ios!TypeOK, Ios!MirrorType
    <3>2. mirror[p].child # 0 => helper'[mirror[p].child] = helper[mirror[p].child]
      BY <1>2, <1>5, <3>1 DEF MirrorInv, Ios!Launches, Ios!Streams
    <3> QED
      BY <3>1, <3>2 DEF MirrorInv
  <2> QED
    BY <2>1, <2>2
<1>8. ASSUME NEW m \in Ios!Launches PROVE HelperInv(m)'
  <2>1. CASE m = n
    BY <1>2, <1>3, <1>4, <1>5, <2>1 DEF HelperInv
  <2>2. CASE m # n
    <3>1. HelperInv(m) /\ helper'[m] = helper[m] /\ helper[m].stream \in 0..MaxStreams
      BY <1>5, <2>2 DEF IosInv, Ios!TypeOK, Ios!HelperType
    <3>2. CASE helper[m].stream = o
      BY <1>2, <1>3, <1>5, <2>2, <3>1, <3>2 DEF HelperInv
    <3>3. CASE helper[m].stream # o
      BY <1>5, <3>1, <3>3 DEF HelperInv, Ios!Streams
    <3> QED
      BY <3>2, <3>3
  <2> QED
    BY <2>1, <2>2
<1>9. FramesInOwnSize'
  BY DEF IosInv, FramesInOwnSize, Ios!FramesInOwnSize
<1> QED
  BY <1>2, <1>3, <1>4, <1>5, <1>6, <1>7, <1>8, <1>9 DEF IosInv

(* A helper that is known to its stream, and speaks or ends. *)
LEMMA HelperEditKeeps ==
  ASSUME IosInv, NEW n \in Ios!Launches, NEW h \in Ios!HelperType, helper[n].stream # 0,
         h.stream = helper[n].stream, h.ended = helper[n].ended, h.escalation = helper[n].escalation,
         h.open => helper[n].open, h.alive => helper[n].alive,
         helper' = [helper EXCEPT ![n] = h], UNCHANGED <<mirror, sent>>
  PROVE  IosInv' /\ MirrorFrame
<1>1. /\ Ios!TypeOK' /\ helper'[n] = h
      /\ \A m \in Ios!Launches : m # n => helper'[m] = helper[m]
  BY DEF IosInv, Ios!TypeOK
<1>2. \A m \in Ios!Launches :
        /\ helper'[m].stream = helper[m].stream /\ helper'[m].ended = helper[m].ended
        /\ helper'[m].open => helper[m].open
  BY <1>1
<1>3. ASSUME NEW o \in Ios!Streams PROVE MirrorInv(o)'
  <2>1. MirrorInv(o) /\ mirror[o].child \in 0..MaxLaunches
    BY DEF IosInv, Ios!TypeOK, Ios!MirrorType
  <2> QED
    BY <1>2, <2>1 DEF MirrorInv, Ios!Launches
<1>4. ASSUME NEW m \in Ios!Launches PROVE HelperInv(m)'
  BY <1>1 DEF IosInv, HelperInv
<1>5. FramesInOwnSize'
  BY DEF IosInv, FramesInOwnSize, Ios!FramesInOwnSize
<1> QED
  BY <1>1, <1>2, <1>3, <1>4, <1>5 DEF IosInv, MirrorFrame

(* A step that changes the fields of one stream, which neither starts nor ends it. *)
LEMMA MirrorEditKeeps ==
  ASSUME IosInv, NEW o \in Ios!Streams, NEW r \in Ios!MirrorType,
         mirror' = [mirror EXCEPT ![o] = r],
         r.isActive = mirror[o].isActive, r.child = mirror[o].child,
         r.terminatingChild = mirror[o].terminatingChild,
         helper' \in [Ios!Launches -> Ios!HelperType], MirrorInv(o)',
         \A n \in Ios!Launches :
           /\ helper'[n].stream = helper[n].stream /\ helper'[n].open = helper[n].open
           /\ helper'[n].alive = helper[n].alive
           /\ helper'[n].escalation = helper[n].escalation
           /\ helper[n].ended => helper'[n].ended
           /\ helper'[n].ended /\ ~helper[n].ended => helper[n].stream = o /\ ~helper[n].alive,
         sent' = sent
  PROVE  IosInv' /\ MirrorFrame
<1>1. /\ mirror' \in [Ios!Streams -> Ios!MirrorType] /\ mirror'[o] = r
      /\ \A p \in Ios!Streams : p # o => mirror'[p] = mirror[p]
  BY DEF IosInv, Ios!TypeOK
<1>2. Ios!TypeOK'
  BY <1>1 DEF IosInv, Ios!TypeOK
<1>3. \A p \in Ios!Streams : /\ mirror'[p].isActive = mirror[p].isActive
                             /\ mirror'[p].child = mirror[p].child
                             /\ mirror'[p].terminatingChild = mirror[p].terminatingChild
  BY <1>1
<1>4. ASSUME NEW p \in Ios!Streams PROVE MirrorInv(p)'
  <2>1. CASE p # o
    <3>1. MirrorInv(p) /\ mirror'[p] = mirror[p] /\ mirror[p].child \in 0..MaxLaunches
      BY <1>1, <2>1 DEF IosInv, Ios!TypeOK, Ios!MirrorType
    <3>2. mirror[p].child # 0 => mirror[p].child \in Ios!Launches
      BY <3>1, Ticks DEF Ios!Launches
    <3>3. CASE mirror[p].isActive
      BY <2>1, <3>1, <3>2, <3>3 DEF MirrorInv
    <3>4. CASE ~mirror[p].isActive
      BY <3>1, <3>4 DEF MirrorInv
    <3> QED
      BY <3>3, <3>4, <3>1
  <2> QED
    BY <2>1
<1>5. ASSUME NEW n \in Ios!Launches PROVE HelperInv(n)'
  <2>1. HelperInv(n) /\ helper[n].stream \in 0..MaxStreams
    BY DEF IosInv, Ios!TypeOK, Ios!HelperType
  <2>2. CASE helper[n].stream = 0
    BY <2>1, <2>2 DEF HelperInv
  <2>3. CASE helper[n].stream # 0
    <3>1. helper[n].stream \in Ios!Streams /\ helper'[n].stream = helper[n].stream
      BY <2>1, <2>3, Ticks DEF Ios!Streams
    <3>2. helper'[n].ended => ~helper'[n].alive
      BY <2>1, <2>3 DEF HelperInv
    <3> QED
      BY <1>3, <2>1, <2>3, <3>1, <3>2 DEF HelperInv
  <2> QED
    BY <2>2, <2>3
<1>6. FramesInOwnSize'
  BY DEF IosInv, FramesInOwnSize, Ios!FramesInOwnSize
<1> QED
  BY <1>2, <1>3, <1>4, <1>5, <1>6 DEF IosInv, MirrorFrame

(* A helper that is known to its stream, and the stream. *)
LEMMA KnownHelper ==
  ASSUME IosInv, NEW n \in Ios!Launches,
         helper[n].alive \/ helper[n].open \/ helper[n].stream # 0
  PROVE  /\ helper[n].stream \in Ios!Streams /\ helper[n].stream # 0
         /\ MirrorInv(helper[n].stream) /\ HelperInv(n)
         /\ helper[n] \in Ios!HelperType /\ mirror[helper[n].stream] \in Ios!MirrorType
         /\ n \in 0..MaxLaunches /\ n # 0
<1>1. helper[n].stream # 0 /\ helper[n].stream \in 0..MaxStreams
  BY DEF IosInv, HelperInv, Ios!TypeOK, Ios!HelperType
<1>2. helper[n].stream \in Ios!Streams
  BY <1>1, Ticks DEF Ios!Streams
<1> QED
  BY <1>1, <1>2, Ticks DEF IosInv, Ios!TypeOK, Ios!Launches

LEMMA AnnouncesKeeps ==
  ASSUME IosInv, NEW n \in Ios!Launches, Ios!Announces(n)
  PROVE  IosInv' /\ MirrorFrame
<1>0. PICK o \in Ios!Streams : o = helper[n].stream
  BY KnownHelper DEF Ios!Announces
<1> DEFINE r == [mirror[o] EXCEPT !.size = n, !.restartAttempt = 0, !.resolutionTimer = Ios!Off]
<1>1. helper[n].open
  BY DEF Ios!Announces
<1>2. /\ o \in Ios!Streams /\ o # 0 /\ MirrorInv(o) /\ HelperInv(n)
      /\ mirror[o] \in Ios!MirrorType /\ n \in 0..MaxLaunches
  BY <1>0, <1>1, KnownHelper
<1>3. mirror' = [mirror EXCEPT ![o] = r] /\ helper' = helper /\ sent' = sent
  BY <1>0 DEF Ios!Announces
<1>4. /\ r \in Ios!MirrorType /\ r.isActive = mirror[o].isActive /\ r.child = mirror[o].child
      /\ r.terminatingChild = mirror[o].terminatingChild
      /\ r.restartTimer = mirror[o].restartTimer /\ r.size = n
  <2>1. 0 \in 0..MaxAttempt /\ Ios!Off \in {Ios!Off} \union 0..FirstOutput
    BY Ticks
  <2> QED
    BY <1>2, <2>1 DEF Ios!MirrorType
<1>5. mirror[o].isActive => n = mirror[o].child
  BY <1>0, <1>1, <1>2 DEF HelperInv
<1> HIDE DEF r
<1>6. mirror'[o] = r
  BY <1>2, <1>3 DEF IosInv, Ios!TypeOK
<1>7. MirrorInv(o)'
  <2>1. CASE mirror[o].isActive
    BY <1>2, <1>3, <1>4, <1>5, <1>6, <2>1 DEF MirrorInv
  <2>2. CASE ~mirror[o].isActive
    BY <1>2, <1>3, <1>4, <1>6, <2>2 DEF MirrorInv
  <2> QED
    BY <2>1, <2>2
<1> QED
  BY <1>2, <1>3, <1>4, <1>7, MirrorEditKeeps DEF IosInv, Ios!TypeOK

LEMMA PacketKeeps ==
  ASSUME IosInv, NEW n \in Ios!Launches, Ios!Packet(n)
  PROVE  IosInv' /\ MirrorFrame
<1>1. helper[n].open
  BY DEF Ios!Packet
<1>2. /\ helper[n].stream # 0 /\ MirrorInv(helper[n].stream) /\ HelperInv(n)
      /\ mirror[helper[n].stream] \in Ios!MirrorType /\ n \in 0..MaxLaunches
  BY <1>1, KnownHelper
<1>3. /\ mirror[helper[n].stream].isActive /\ mirror[helper[n].stream].size # 0
      /\ sent' = [from |-> n, size |-> mirror[helper[n].stream].size]
      /\ mirror' = mirror /\ helper' = helper
  BY DEF Ios!Packet
<1>4. mirror[helper[n].stream].size = n
  BY <1>1, <1>2, <1>3 DEF HelperInv, MirrorInv
<1>5. Ios!TypeOK' /\ FramesInOwnSize'
  BY <1>2, <1>3, <1>4 DEF IosInv, Ios!TypeOK, FramesInOwnSize, Ios!FramesInOwnSize
<1> QED
  BY <1>3, <1>5 DEF IosInv, MirrorInv, HelperInv, MirrorFrame

LEMMA DamagedKeeps ==
  ASSUME IosInv, NEW n \in Ios!Launches, Ios!Damaged(n)
  PROVE  IosInv' /\ MirrorFrame
<1> DEFINE h == [helper[n] EXCEPT !.poisoned = TRUE, !.asked = TRUE]
<1>1. helper[n].open
  BY DEF Ios!Damaged
<1>2. helper[n] \in Ios!HelperType /\ helper[n].stream # 0
  BY <1>1, KnownHelper
<1>3. helper' = [helper EXCEPT ![n] = h]
  BY <1>2 DEF Ios!Damaged, Ios!HelperType
<1>4. /\ h \in Ios!HelperType /\ h.stream = helper[n].stream /\ h.ended = helper[n].ended
      /\ h.escalation = helper[n].escalation /\ h.open = helper[n].open
      /\ h.alive = helper[n].alive
  BY <1>2 DEF Ios!HelperType
<1> HIDE DEF h
<1> QED
  BY <1>2, <1>3, <1>4, HelperEditKeeps DEF Ios!Damaged

LEMMA EndsKeeps ==
  ASSUME IosInv, NEW n \in Ios!Launches, Ios!Ends(n) \/ Ios!Closes(n)
  PROVE  IosInv' /\ MirrorFrame
<1>1. helper[n].alive \/ helper[n].open
  BY DEF Ios!Ends, Ios!Closes
<1>2. helper[n] \in Ios!HelperType /\ helper[n].stream # 0
  BY <1>1, KnownHelper
<1>3. PICK h \in Ios!HelperType :
        /\ h.stream = helper[n].stream /\ h.ended = helper[n].ended
        /\ h.escalation = helper[n].escalation
        /\ h.open => helper[n].open
        /\ h.alive => helper[n].alive
        /\ helper' = [helper EXCEPT ![n] = h]
  <2>1. CASE Ios!Ends(n)
    <3>1. [helper[n] EXCEPT !.alive = FALSE] \in Ios!HelperType
      BY <1>2 DEF Ios!HelperType
    <3> WITNESS [helper[n] EXCEPT !.alive = FALSE] \in Ios!HelperType
    <3> QED
      BY <1>2, <2>1 DEF Ios!Ends, Ios!HelperType
  <2>2. CASE Ios!Closes(n)
    <3>1. [helper[n] EXCEPT !.open = FALSE] \in Ios!HelperType
      BY <1>2 DEF Ios!HelperType
    <3> WITNESS [helper[n] EXCEPT !.open = FALSE] \in Ios!HelperType
    <3> QED
      BY <1>2, <2>2 DEF Ios!Closes, Ios!HelperType
  <2> QED
    BY <2>1, <2>2
<1> QED
  BY <1>2, <1>3, HelperEditKeeps DEF Ios!Ends, Ios!Closes

LEMMA EndEventKeeps ==
  ASSUME IosInv, NEW n \in Ios!Launches, Ios!EndEvent(n)
  PROVE  IosInv' /\ MirrorFrame
<1>0. PICK o \in Ios!Streams : o = helper[n].stream
  BY KnownHelper DEF Ios!EndEvent
<1> DEFINE h == [helper[n] EXCEPT !.ended = TRUE]
           r == Ios!Restarting(mirror[o])
<1>1. helper[n].stream # 0 /\ ~helper[n].alive /\ ~helper[n].ended
  BY DEF Ios!EndEvent
<1>2. /\ o \in Ios!Streams /\ o # 0 /\ MirrorInv(o) /\ HelperInv(n)
      /\ mirror[o] \in Ios!MirrorType /\ helper[n] \in Ios!HelperType /\ n \in 0..MaxLaunches
  BY <1>0, <1>1, KnownHelper
<1>3. /\ mirror' = [mirror EXCEPT ![o] = r] /\ sent' = sent
      /\ helper' = [helper EXCEPT ![n] = h]
  BY <1>0, <1>2 DEF Ios!EndEvent, Ios!HelperType
<1>4. /\ h \in Ios!HelperType /\ h.stream = o /\ h.ended /\ h.open = helper[n].open
      /\ h.alive = helper[n].alive /\ h.escalation = helper[n].escalation
  BY <1>0, <1>2 DEF Ios!HelperType
<1>5. /\ r \in Ios!MirrorType /\ r.isActive = mirror[o].isActive /\ r.child = mirror[o].child
      /\ r.terminatingChild = mirror[o].terminatingChild /\ r.size = mirror[o].size
      /\ r.isActive => r.restartTimer \in 1..RestartMax
      /\ ~r.isActive => r.restartTimer = Ios!Off
  <2>1. CASE mirror[o].isActive
    <3>1. mirror[o].restartTimer = Ios!Off
      BY <1>0, <1>1, <1>2, <2>1 DEF HelperInv, MirrorInv
    <3> QED
      BY <1>2, <2>1, <3>1, RestartingFields
  <2>2. CASE ~mirror[o].isActive
    <3>1. r = mirror[o]
      BY <2>2 DEF Ios!Restarting
    <3>2. mirror[o].restartTimer = Ios!Off
      BY <1>2, <2>2 DEF MirrorInv
    <3> HIDE DEF r
    <3> QED
      BY <1>2, <2>2, <3>1, <3>2
  <2> QED
    BY <2>1, <2>2
<1> HIDE DEF r, h
<1>6. /\ mirror'[o] = r /\ helper'[n] = h
      /\ helper' \in [Ios!Launches -> Ios!HelperType]
      /\ \A m \in Ios!Launches : m # n => helper'[m] = helper[m]
  BY <1>2, <1>3, <1>4 DEF IosInv, Ios!TypeOK
<1>7. MirrorInv(o)'
  <2>1. CASE mirror[o].isActive
    <3>1. n = mirror[o].child
      BY <1>0, <1>1, <1>2, <2>1 DEF HelperInv
    <3>2. r.isActive /\ r.restartTimer # 0 /\ r.restartTimer # Ios!Off
      BY <1>5, <2>1, Ticks DEF Ios!Off
    <3>3. r.child # 0 /\ helper'[r.child].stream = o /\ r.size \in {0, r.child}
      BY <1>0, <1>2, <1>4, <1>5, <1>6, <2>1, <3>1 DEF MirrorInv
    <3>4. helper'[r.child].ended
      BY <1>4, <1>5, <1>6, <3>1
    <3> QED
      BY <1>6, <3>2, <3>3, <3>4 DEF MirrorInv
  <2>2. CASE ~mirror[o].isActive
    <3>1. ~r.isActive /\ r.child = 0 /\ r.restartTimer = Ios!Off
      BY <1>2, <1>5, <2>2 DEF MirrorInv
    <3> QED
      BY <1>6, <3>1 DEF MirrorInv
  <2> QED
    BY <2>1, <2>2
<1>8. \A m \in Ios!Launches :
        /\ helper'[m].stream = helper[m].stream /\ helper'[m].open = helper[m].open
        /\ helper'[m].alive = helper[m].alive
        /\ helper'[m].escalation = helper[m].escalation
        /\ helper[m].ended => helper'[m].ended
        /\ helper'[m].ended /\ ~helper[m].ended => helper[m].stream = o /\ ~helper[m].alive
  BY <1>0, <1>1, <1>2, <1>4, <1>6
<1> QED
  BY <1>2, <1>3, <1>5, <1>6, <1>7, <1>8, MirrorEditKeeps

LEMMA ResolutionDeadlineKeeps ==
  ASSUME IosInv, NEW o \in Ios!Streams, Ios!ResolutionDeadline(o)
  PROVE  IosInv' /\ MirrorFrame
<1> DEFINE r == [mirror[o] EXCEPT !.resolutionTimer = Ios!Off]
           n == mirror[o].child
           silent == mirror[o].isActive /\ n # 0 /\ mirror[o].size = 0
           h == [helper[n] EXCEPT !.asked = TRUE]
<1>1. mirror[o] \in Ios!MirrorType /\ MirrorInv(o) /\ n \in 0..MaxLaunches
  BY DEF IosInv, Ios!TypeOK, Ios!MirrorType
<1>2. /\ r \in Ios!MirrorType /\ r.isActive = mirror[o].isActive /\ r.child = mirror[o].child
      /\ r.terminatingChild = mirror[o].terminatingChild
      /\ r.restartTimer = mirror[o].restartTimer /\ r.size = mirror[o].size
  BY <1>1 DEF Ios!MirrorType
<1>3. mirror' = [mirror EXCEPT ![o] = r] /\ mirror'[o] = r /\ sent' = sent
  BY <1>1 DEF Ios!ResolutionDeadline, IosInv, Ios!TypeOK, Ios!MirrorType
<1>4. /\ helper' \in [Ios!Launches -> Ios!HelperType]
      /\ \A m \in Ios!Launches :
           /\ helper'[m].stream = helper[m].stream /\ helper'[m].open = helper[m].open
           /\ helper'[m].alive = helper[m].alive /\ helper'[m].ended = helper[m].ended
           /\ helper'[m].escalation = helper[m].escalation
  <2>1. CASE silent
    <3>1. n \in Ios!Launches /\ helper[n].stream # 0 /\ helper[n] \in Ios!HelperType
      <4>1. n \in Ios!Launches
        BY <1>1, <2>1, Ticks DEF Ios!Launches
      <4>2. helper[n].stream = o /\ o # 0
        BY <1>1, <2>1 DEF MirrorInv, Ios!Streams
      <4> QED
        BY <4>1, <4>2 DEF IosInv, Ios!TypeOK
    <3>2. helper' = [helper EXCEPT ![n] = h]
      BY <2>1, <3>1 DEF Ios!ResolutionDeadline, Ios!HelperType
    <3>3. /\ h \in Ios!HelperType /\ h.stream = helper[n].stream /\ h.open = helper[n].open
          /\ h.alive = helper[n].alive /\ h.ended = helper[n].ended
          /\ h.escalation = helper[n].escalation
      BY <3>1 DEF Ios!HelperType
    <3> HIDE DEF h, n
    <3> QED
      BY <3>1, <3>2, <3>3 DEF IosInv, Ios!TypeOK
  <2>2. CASE ~silent
    <3>1. helper' = helper
      BY <2>2 DEF Ios!ResolutionDeadline
    <3> QED
      BY <3>1 DEF IosInv, Ios!TypeOK
  <2> QED
    BY <2>1, <2>2
<1> HIDE DEF r
<1>5. MirrorInv(o)'
  <2>1. n # 0 => n \in Ios!Launches
    BY <1>1, Ticks DEF Ios!Launches
  <2>2. CASE mirror[o].isActive
    <3>1. /\ n \in Ios!Launches /\ helper[n].stream = o /\ mirror[o].size \in {0, n}
          /\ helper[n].ended <=> mirror[o].restartTimer # Ios!Off
          /\ mirror[o].restartTimer = 0 => ~helper[n].open
      BY <1>1, <2>1, <2>2 DEF MirrorInv
    <3>2. /\ helper'[n].stream = helper[n].stream /\ helper'[n].open = helper[n].open
          /\ helper'[n].ended = helper[n].ended
      BY <1>4, <3>1
    <3>3. r.isActive /\ r.child = n /\ n # 0
      BY <1>1, <1>2, <2>2 DEF MirrorInv
    <3> QED
      BY <1>2, <1>3, <3>1, <3>2, <3>3 DEF MirrorInv
  <2>3. CASE ~mirror[o].isActive
    BY <1>1, <1>2, <1>3, <2>3 DEF MirrorInv
  <2> QED
    BY <2>2, <2>3
<1> QED
  BY <1>2, <1>3, <1>4, <1>5, MirrorEditKeeps

LEMMA IosRestartKeeps ==
  ASSUME IosInv, NEW o \in Ios!Streams, Ios!RestartFires(o)
  PROVE  IosInv' /\ MirrorFrame
<1>1. mirror[o] \in Ios!MirrorType /\ MirrorInv(o) /\ o # 0
  BY DEF IosInv, Ios!TypeOK, Ios!Streams
<1>2. /\ mirror[o].isActive /\ Ios!Launch(o, mirror[o]) /\ sent' = sent
      /\ mirror[o].restartTimer = 0
  BY <1>1 DEF Ios!RestartFires, MirrorInv, Ios!Off
<1>3. \A n \in Ios!Launches :
        helper[n].stream = o => helper[n].ended /\ ~helper[n].open
  <2>1. helper[mirror[o].child].ended /\ ~helper[mirror[o].child].open
    BY <1>1, <1>2 DEF MirrorInv, Ios!Off
  <2> QED
    BY <1>1, <1>2, <2>1 DEF IosInv, HelperInv
<1>4. /\ IosInv' /\ mirror'[o].isActive
      /\ \A p \in Ios!Streams : p # o => mirror'[p] = mirror[p]
      /\ \A n \in Ios!Launches : helper'[n].stream \in {helper[n].stream, o}
  BY <1>1, <1>2, <1>3, IosLaunchKeeps
<1>5. mirror'[o].isActive = mirror[o].isActive
  BY <1>2, <1>4 DEF IosInv, Ios!TypeOK, Ios!MirrorType
<1> QED
  BY <1>2, <1>4, <1>5 DEF MirrorFrame

LEMMA IosTickKeeps ==
  ASSUME IosInv, Ios!HTick
  PROVE  IosInv' /\ MirrorFrame
<1>1. \A o \in Ios!Streams :
        mirror'[o] = [mirror[o] EXCEPT !.restartTimer = Ios!Older(@), !.resolutionTimer = Ios!Older(@)]
  BY DEF Ios!HTick
<1>2. \A n \in Ios!Launches :
        helper'[n] = [helper[n] EXCEPT !.escalation = Ios!Older(@),
                                       !.alive = @ /\ helper[n].escalation # 0]
  BY DEF Ios!HTick
<1>3. ASSUME NEW o \in Ios!Streams
      PROVE  /\ mirror'[o] \in Ios!MirrorType
             /\ mirror'[o].isActive = mirror[o].isActive
             /\ mirror'[o].child = mirror[o].child /\ mirror'[o].size = mirror[o].size
             /\ mirror'[o].terminatingChild = mirror[o].terminatingChild
             /\ mirror'[o].restartTimer = Ios!Off <=> mirror[o].restartTimer = Ios!Off
  <2> DEFINE t == Ios!Older(mirror[o].restartTimer)
             u == Ios!Older(mirror[o].resolutionTimer)
  <2>1. mirror[o] \in Ios!MirrorType
    BY DEF IosInv, Ios!TypeOK
  <2>2. /\ t \in {Ios!Off} \union 0..RestartMax
        /\ t = Ios!Off <=> mirror[o].restartTimer = Ios!Off
    BY <2>1, Ticks DEF Ios!MirrorType, Ios!Older, Ios!Off
  <2>3. u \in {Ios!Off} \union 0..FirstOutput
    BY <2>1, Ticks DEF Ios!MirrorType, Ios!Older, Ios!Off
  <2>4. mirror'[o] = [mirror[o] EXCEPT !.restartTimer = t, !.resolutionTimer = u]
    BY <1>1
  <2> HIDE DEF t, u
  <2> QED
    BY <2>1, <2>2, <2>3, <2>4 DEF Ios!MirrorType
<1>4. ASSUME NEW n \in Ios!Launches
      PROVE  /\ helper'[n] \in Ios!HelperType
             /\ helper'[n].stream = helper[n].stream /\ helper'[n].ended = helper[n].ended
             /\ helper'[n].open = helper[n].open
             /\ helper'[n].alive => helper[n].alive
             /\ helper'[n].escalation = Ios!Off <=> helper[n].escalation = Ios!Off
  <2> DEFINE t == Ios!Older(helper[n].escalation)
             runs == helper[n].alive /\ helper[n].escalation # 0
  <2>1. helper[n] \in Ios!HelperType
    BY DEF IosInv, Ios!TypeOK
  <2>2. /\ t \in {Ios!Off} \union 0..KillEscalation
        /\ t = Ios!Off <=> helper[n].escalation = Ios!Off
    BY <2>1, Ticks DEF Ios!HelperType, Ios!Older, Ios!Off
  <2>3. runs \in BOOLEAN /\ (runs => helper[n].alive)
    BY <2>1 DEF Ios!HelperType
  <2>4. helper'[n] = [helper[n] EXCEPT !.escalation = t, !.alive = runs]
    BY <1>2
  <2> HIDE DEF t, runs
  <2>5. /\ helper'[n] \in Ios!HelperType
        /\ helper'[n].alive = runs /\ helper'[n].escalation = t
        /\ helper'[n].stream = helper[n].stream /\ helper'[n].ended = helper[n].ended
        /\ helper'[n].open = helper[n].open
    BY <2>1, <2>2, <2>3, <2>4 DEF Ios!HelperType
  <2> QED
    BY <2>2, <2>3, <2>5
<1>5. Ios!TypeOK'
  <2>1. mirror' \in [Ios!Streams -> Ios!MirrorType]
    BY <1>3 DEF Ios!HTick
  <2>2. helper' \in [Ios!Launches -> Ios!HelperType]
    BY <1>4 DEF Ios!HTick
  <2> QED
    BY <2>1, <2>2 DEF Ios!TypeOK, IosInv, Ios!HTick
<1>6. ASSUME NEW o \in Ios!Streams PROVE MirrorInv(o)'
  <2>1. MirrorInv(o) /\ mirror[o].child \in 0..MaxLaunches
    BY DEF IosInv, Ios!TypeOK, Ios!MirrorType
  <2>2. mirror[o].child # 0 => mirror[o].child \in Ios!Launches
    BY <2>1, Ticks DEF Ios!Launches
  <2>3. CASE mirror[o].isActive
    <3>1. /\ mirror[o].child \in Ios!Launches
          /\ helper[mirror[o].child].stream = o /\ o # 0
          /\ helper[mirror[o].child].ended <=> mirror[o].restartTimer # Ios!Off
      BY <2>1, <2>2, <2>3 DEF MirrorInv, Ios!Streams
    <3>2. helper[mirror[o].child].ended => ~helper[mirror[o].child].open
      BY <3>1 DEF Ios!HTick, Ios!MayTick, IosInv, HelperInv
    <3>3. mirror'[o].restartTimer = 0 => mirror[o].restartTimer # Ios!Off
      BY <1>3 DEF Ios!Off
    <3> QED
      BY <1>3, <1>4, <2>1, <2>3, <3>1, <3>2, <3>3 DEF MirrorInv
  <2>4. CASE ~mirror[o].isActive
    BY <1>3, <2>1, <2>4 DEF MirrorInv
  <2> QED
    BY <2>3, <2>4
<1>7. ASSUME NEW n \in Ios!Launches PROVE HelperInv(n)'
  <2>1. HelperInv(n) /\ helper[n].stream \in 0..MaxStreams
    BY DEF IosInv, Ios!TypeOK, Ios!HelperType
  <2>2. CASE helper[n].stream = 0
    BY <1>4, <2>1, <2>2 DEF HelperInv
  <2>3. CASE helper[n].stream # 0
    <3>1. helper[n].stream \in Ios!Streams
      BY <2>1, <2>3, Ticks DEF Ios!Streams
    <3> QED
      BY <1>3, <1>4, <2>1, <2>3, <3>1 DEF HelperInv
  <2> QED
    BY <2>2, <2>3
<1>8. FramesInOwnSize'
  BY DEF IosInv, FramesInOwnSize, Ios!FramesInOwnSize, Ios!HTick
<1> QED
  BY <1>3, <1>4, <1>5, <1>6, <1>7, <1>8 DEF IosInv, MirrorFrame

LEMMA IosStepKeeps ==
  ASSUME IosInv, Ios!HNext \/ Ios!HTick
  PROVE  IosInv' /\ MirrorFrame
BY AnnouncesKeeps, PacketKeeps, DamagedKeeps, EndsKeeps, EndEventKeeps, ResolutionDeadlineKeeps,
   IosRestartKeeps, IosTickKeeps DEF Ios!HNext

(* What StreamManager does to the stream it adds, drops or waits for. *)
OnlyMirror(o) ==
  /\ \A p \in Ios!Streams : p # o => mirror'[p] = mirror[p]
  /\ \A n \in Ios!Launches : helper'[n].stream \in {helper[n].stream, o}

LEMMA IosStartKeeps ==
  ASSUME IosInv, NEW o \in Ios!Streams, \A n \in Ios!Launches : helper[n].stream # o, Ios!Start(o)
  PROVE  IosInv' /\ OnlyMirror(o) /\ mirror'[o].isActive
<1> DEFINE r == [mirror[o] EXCEPT !.isActive = TRUE]
<1>1. r \in Ios!MirrorType /\ r.isActive
  BY DEF IosInv, Ios!TypeOK, Ios!MirrorType
<1>2. Ios!Launch(o, r) /\ sent' = sent
  BY DEF Ios!Start
<1> HIDE DEF r
<1> QED
  BY <1>1, <1>2, IosLaunchKeeps DEF OnlyMirror

LEMMA IosStopKeeps ==
  ASSUME IosInv, NEW o \in Ios!Streams, mirror[o].isActive, Ios!Stop(o)
  PROVE  IosInv' /\ OnlyMirror(o) /\ ~mirror'[o].isActive
<1>1. PICK n \in 0..MaxLaunches : n = mirror[o].child
  BY DEF IosInv, Ios!TypeOK, Ios!MirrorType
<1> DEFINE r == [mirror[o] EXCEPT !.isActive = FALSE, !.restartTimer = Ios!Off,
                   !.resolutionTimer = Ios!Off, !.child = 0, !.terminatingChild = n]
           h == [helper[n] EXCEPT !.escalation = KillEscalation, !.asked = TRUE]
<1>2. /\ mirror[o] \in Ios!MirrorType /\ MirrorInv(o) /\ o # 0
      /\ n # 0 /\ n \in Ios!Launches /\ helper[n] \in Ios!HelperType /\ HelperInv(n)
      /\ helper[n].stream = o
  <2>1. mirror[o] \in Ios!MirrorType /\ MirrorInv(o) /\ o # 0
    BY DEF IosInv, Ios!TypeOK, Ios!Streams
  <2>2. n # 0 /\ helper[n].stream = o
    BY <1>1, <2>1 DEF MirrorInv
  <2>3. n \in Ios!Launches
    BY <2>2, Ticks DEF Ios!Launches
  <2> QED
    BY <2>1, <2>2, <2>3 DEF IosInv, Ios!TypeOK
<1>3. /\ r \in Ios!MirrorType /\ ~r.isActive /\ r.child = 0 /\ r.restartTimer = Ios!Off
      /\ r.terminatingChild = n
  <2>1. 0 \in 0..MaxLaunches /\ Ios!Off \in {Ios!Off} \union 0..FirstOutput
    BY Ticks
  <2> QED
    BY <1>2, <2>1, Timers DEF Ios!MirrorType
<1>4. /\ h \in Ios!HelperType /\ h.stream = o /\ h.alive = helper[n].alive
      /\ h.ended = helper[n].ended /\ h.open = helper[n].open /\ h.escalation = KillEscalation
  BY <1>2, Timers DEF Ios!HelperType
<1>5. mirror' = [mirror EXCEPT ![o] = r] /\ helper' = [helper EXCEPT ![n] = h] /\ sent' = sent
  BY <1>1, <1>2 DEF Ios!Stop, Ios!MirrorType, Ios!HelperType
<1> HIDE DEF r, h
<1>6. /\ Ios!TypeOK' /\ mirror'[o] = r /\ helper'[n] = h
      /\ \A p \in Ios!Streams : p # o => mirror'[p] = mirror[p]
      /\ \A m \in Ios!Launches : m # n => helper'[m] = helper[m]
  BY <1>2, <1>3, <1>4, <1>5 DEF IosInv, Ios!TypeOK
<1>7. ASSUME NEW p \in Ios!Streams PROVE MirrorInv(p)'
  <2>1. CASE p = o
    BY <1>3, <1>6, <2>1 DEF MirrorInv
  <2>2. CASE p # o
    <3>1. MirrorInv(p) /\ mirror'[p] = mirror[p] /\ mirror[p].child \in 0..MaxLaunches
      BY <1>6, <2>2 DEF IosInv, Ios!TypeOK, Ios!MirrorType
    <3>2. mirror[p].isActive => helper'[mirror[p].child] = helper[mirror[p].child]
      BY <1>2, <1>6, <2>2, <3>1, Ticks DEF MirrorInv, Ios!Launches
    <3> QED
      BY <3>1, <3>2 DEF MirrorInv
  <2> QED
    BY <2>1, <2>2
<1>8. ASSUME NEW m \in Ios!Launches PROVE HelperInv(m)'
  <2>1. HelperInv(m) /\ helper[m].stream \in 0..MaxStreams
    BY DEF IosInv, Ios!TypeOK, Ios!HelperType
  <2>2. CASE m = n
    BY <1>2, <1>3, <1>4, <1>6, <2>2, Timers DEF HelperInv
  <2>3. CASE m # n /\ helper[m].stream = o
    <3>1. helper[m].ended /\ ~helper[m].alive
      BY <1>1, <1>2, <2>1, <2>3 DEF HelperInv
    <3> QED
      BY <1>2, <1>3, <1>6, <2>1, <2>3, <3>1 DEF HelperInv
  <2>4. CASE m # n /\ helper[m].stream # o
    <3>1. helper[m].stream # 0 => mirror'[helper[m].stream] = mirror[helper[m].stream]
      BY <1>6, <2>1, <2>4, Ticks DEF Ios!Streams
    <3> QED
      BY <1>6, <2>1, <2>4, <3>1 DEF HelperInv
  <2> QED
    BY <2>2, <2>3, <2>4
<1>9. FramesInOwnSize'
  BY <1>5 DEF IosInv, FramesInOwnSize, Ios!FramesInOwnSize
<1> QED
  BY <1>2, <1>3, <1>4, <1>6, <1>7, <1>8, <1>9 DEF IosInv, OnlyMirror

LEMMA IosKilledKeeps ==
  ASSUME IosInv, NEW S \in SUBSET Ios!Streams, Ios!Killed(S)
  PROVE  /\ IosInv' /\ mirror' = mirror
         /\ \A n \in Ios!Launches :
              /\ helper'[n].stream = helper[n].stream
              /\ helper'[n].alive => helper[n].alive /\ n \notin Ios!Surviving(S)
<1>1. mirror' = mirror /\ sent' = sent
  BY DEF Ios!Killed
<1>2. ASSUME NEW n \in Ios!Launches
      PROVE  /\ helper'[n] \in Ios!HelperType
             /\ helper'[n].stream = helper[n].stream /\ helper'[n].ended = helper[n].ended
             /\ helper'[n].open = helper[n].open /\ helper'[n].escalation = helper[n].escalation
             /\ helper'[n].alive => helper[n].alive /\ n \notin Ios!Surviving(S)
  <2> DEFINE spared == helper[n].alive /\ n \notin Ios!Surviving(S)
  <2>1. helper[n] \in Ios!HelperType /\ spared \in BOOLEAN
    BY DEF IosInv, Ios!TypeOK
  <2>2. helper'[n] = [helper[n] EXCEPT !.alive = spared]
    BY DEF Ios!Killed
  <2>3. spared => helper[n].alive /\ n \notin Ios!Surviving(S)
    OBVIOUS
  <2> HIDE DEF spared
  <2>4. /\ helper'[n] \in Ios!HelperType /\ helper'[n].alive = spared
        /\ helper'[n].stream = helper[n].stream /\ helper'[n].ended = helper[n].ended
        /\ helper'[n].open = helper[n].open /\ helper'[n].escalation = helper[n].escalation
    BY <2>1, <2>2 DEF Ios!HelperType
  <2> QED
    BY <2>3, <2>4
<1>3. Ios!TypeOK'
  <2>1. helper' \in [Ios!Launches -> Ios!HelperType]
    BY <1>2 DEF Ios!Killed
  <2> QED
    BY <1>1, <2>1 DEF IosInv, Ios!TypeOK
<1>4. ASSUME NEW o \in Ios!Streams PROVE MirrorInv(o)'
  <2>1. MirrorInv(o) /\ mirror[o].child \in 0..MaxLaunches
    BY DEF IosInv, Ios!TypeOK, Ios!MirrorType
  <2>2. mirror[o].isActive => mirror[o].child \in Ios!Launches
    BY <2>1, Ticks DEF MirrorInv, Ios!Launches
  <2> QED
    BY <1>1, <1>2, <2>1, <2>2 DEF MirrorInv
<1>5. ASSUME NEW n \in Ios!Launches PROVE HelperInv(n)'
  <2>1. HelperInv(n)
    BY DEF IosInv
  <2> QED
    BY <1>1, <1>2, <2>1 DEF HelperInv
<1>6. FramesInOwnSize'
  BY <1>1 DEF IosInv, FramesInOwnSize, Ios!FramesInOwnSize
<1> QED
  BY <1>1, <1>2, <1>3, <1>4, <1>5, <1>6 DEF IosInv

-------------------------------------------------------------------------------
AndroidFrame ==
  /\ \A o \in Android!Streams : stream'[o].isActive = stream[o].isActive
  /\ \A n \in Android!Launches : \/ session'[n].stream = session[n].stream
                                 \/ /\ session'[n].stream \in Android!Streams
                                    /\ stream[session'[n].stream].isActive

(* A session that was launched, and its stream. *)
LEMMA KnownSession ==
  ASSUME AndroidInv, NEW n \in Android!Launches,
         \/ session[n].step # "done" \/ session[n].daemon # "none"
         \/ session[n].socket # "none" \/ session[n].stream # 0
  PROVE  /\ session[n].stream \in Android!Streams /\ session[n].stream # 0
         /\ StreamInv(session[n].stream) /\ SessionInv(n)
         /\ session[n] \in Android!SessionType /\ stream[session[n].stream] \in Android!StreamType
         /\ n \in 0..MaxLaunches /\ n # 0
         /\ Android!Current(n) <=> stream[session[n].stream].session = n
<1>1. session[n].stream # 0 /\ session[n].stream \in 0..MaxStreams
  BY DEF AndroidInv, SessionInv, Android!TypeOK, Android!SessionType
<1>2. session[n].stream \in Android!Streams
  BY <1>1, Ticks DEF Android!Streams
<1>3. n \in 0..MaxLaunches /\ n # 0
  BY Ticks DEF Android!Launches
<1>4. StreamInv(session[n].stream)
  BY <1>2 DEF AndroidInv
<1>5. Android!Current(n) <=> stream[session[n].stream].session = n
  BY <1>3, <1>4 DEF StreamInv, Android!Current
<1> QED
  BY <1>1, <1>2, <1>3, <1>4, <1>5 DEF AndroidInv, Android!TypeOK

(* A step that changes a session, and its stream, which it neither starts nor ends. *)
LEMMA AndroidEditKeeps ==
  ASSUME AndroidInv, NEW o \in Android!Streams, NEW n \in Android!Launches, session[n].stream = o,
         NEW r \in Android!StreamType, NEW q \in Android!SessionType,
         stream' = [stream EXCEPT ![o] = r], session' = [session EXCEPT ![n] = q],
         r.isActive = stream[o].isActive, q.stream = o,
         r.session = stream[o].session \/ stream[o].session = n,
         StreamInv(o)', SessionInv(n)',
         forwarded' \in BOOLEAN, removing' \subseteq Android!Streams
  PROVE  AndroidInv' /\ AndroidFrame
<1>1. /\ Android!TypeOK' /\ stream'[o] = r /\ session'[n] = q
      /\ \A p \in Android!Streams : p # o => stream'[p] = stream[p]
      /\ \A m \in Android!Launches : m # n => session'[m] = session[m]
  BY DEF AndroidInv, Android!TypeOK
<1>2. ASSUME NEW p \in Android!Streams PROVE StreamInv(p)'
  <2>1. CASE p # o
    <3>1. StreamInv(p) /\ stream'[p] = stream[p] /\ stream[p].session \in 0..MaxLaunches
      BY <1>1, <2>1 DEF AndroidInv, Android!TypeOK, Android!StreamType
    <3>2. stream[p].session # 0 => session'[stream[p].session] = session[stream[p].session]
      BY <1>1, <2>1, <3>1, Ticks DEF StreamInv, Android!Launches
    <3> QED
      BY <3>1, <3>2 DEF StreamInv
  <2> QED
    BY <2>1
<1>3. ASSUME NEW m \in Android!Launches PROVE SessionInv(m)'
  <2>1. CASE m # n
    <3>1. SessionInv(m) /\ session'[m] = session[m] /\ session[m].stream \in 0..MaxStreams
      BY <1>1, <2>1 DEF AndroidInv, Android!TypeOK, Android!SessionType
    <3>2. CASE session[m].stream = o
      <4>1. stream[o].session = m => stream'[o].session = m
        BY <1>1, <2>1
      <4> QED
        BY <3>1, <3>2, <4>1 DEF SessionInv
    <3>3. CASE session[m].stream # o
      BY <1>1, <3>1, <3>3, Ticks DEF SessionInv, Android!Streams
    <3> QED
      BY <3>2, <3>3
  <2> QED
    BY <2>1
<1> QED
  BY <1>1, <1>2, <1>3 DEF AndroidInv, AndroidFrame

(* A session that is not the present one of its stream: nothing is started for it. *)
LEMMA OldSessionKeeps ==
  ASSUME AndroidInv, NEW n \in Android!Launches, session[n].stream # 0, ~Android!Current(n),
         NEW q \in Android!SessionType, session' = [session EXCEPT ![n] = q], stream' = stream,
         q.stream = session[n].stream,
         q.step = "push" => q.daemon = "none",
         q.step # "done" => q.socket = "none" /\ ~q.preamble,
         q.daemon = "alive" => session[n].daemon = "alive" /\ q.escalation = session[n].escalation,
         forwarded' \in BOOLEAN, removing' \subseteq Android!Streams
  PROVE  AndroidInv' /\ AndroidFrame
<1>1. PICK o \in Android!Streams : o = session[n].stream
  BY KnownSession
<1>2. /\ StreamInv(o) /\ SessionInv(n) /\ stream[o] \in Android!StreamType
      /\ stream[o].session # n /\ stream[o].session \in 0..MaxLaunches /\ o # 0
  BY <1>1, KnownSession DEF Android!StreamType
<1>3. /\ session'[n] = q /\ stream' = [stream EXCEPT ![o] = stream[o]]
      /\ \A m \in Android!Launches : m # n => session'[m] = session[m]
  BY DEF AndroidInv, Android!TypeOK
<1>4. StreamInv(o)'
  <2>1. stream[o].session # 0 => session'[stream[o].session] = session[stream[o].session]
    BY <1>2, <1>3, Ticks DEF Android!Launches
  <2> QED
    BY <1>2, <2>1 DEF StreamInv
<1>5. SessionInv(n)'
  BY <1>1, <1>2, <1>3 DEF SessionInv
<1> QED
  BY <1>1, <1>2, <1>3, <1>4, <1>5, AndroidEditKeeps

(* The present session ends, with fields q. *)
LEMMA ScheduleRestartKeeps ==
  ASSUME AndroidInv, NEW n \in Android!Launches, session[n].stream # 0, Android!Current(n),
         NEW q \in Android!SessionType, q.stream = session[n].stream,
         q.step = "push" => q.daemon = "none",
         q.step # "done" => q.socket = "none" /\ ~q.preamble,
         Android!ScheduleRestart(n, q), forwarded' \in BOOLEAN, removing' \subseteq Android!Streams
  PROVE  AndroidInv' /\ AndroidFrame
<1>1. PICK o \in Android!Streams : o = session[n].stream
  BY KnownSession
<1>2. /\ StreamInv(o) /\ SessionInv(n) /\ stream[o] \in Android!StreamType
      /\ stream[o].session = n /\ n # 0 /\ o # 0
      /\ stream[o].isActive /\ stream[o].restartTimer = Android!Off
  <2>1. /\ StreamInv(o) /\ SessionInv(n) /\ stream[o] \in Android!StreamType
        /\ stream[o].session = n /\ n # 0 /\ o # 0
    BY <1>1, KnownSession
  <2> QED
    BY <2>1 DEF StreamInv
<1> DEFINE delay == Android!Delay(stream[o].restartAttempt)
           attempt == Android!Saturated(stream[o].restartAttempt + 1, MaxAttempt)
           kill == IF q.daemon \in {"alive", "dead"} THEN KillEscalation ELSE q.escalation
           sock == IF q.socket = "none" THEN q.socket ELSE "closing"
           r == [Android!Cleared(stream[o]) EXCEPT !.session = 0, !.restartTimer = delay,
                                                   !.restartAttempt = attempt]
           torn == [q EXCEPT !.socket = sock, !.escalation = kill]
<1>3. stream' = [stream EXCEPT ![o] = r] /\ session' = [session EXCEPT ![n] = torn]
  <2>1. torn = Android!TornDown(q)
    BY DEF Android!TornDown, Android!SessionType
  <2>2. r = [Android!Cleared(stream[o]) EXCEPT !.session = 0,
               !.restartTimer = Android!Delay(stream[o].restartAttempt),
               !.restartAttempt = Android!Saturated(@ + 1, MaxAttempt)]
    BY <1>2 DEF Android!Cleared, Android!StreamType
  <2> HIDE DEF torn, r
  <2> QED
    BY <1>1, <1>2, <2>1, <2>2 DEF Android!ScheduleRestart
<1>4. /\ delay \in {Android!Off} \union 0..RestartMax /\ delay # Android!Off
      /\ attempt \in 0..MaxAttempt
  <2>1. stream[o].restartAttempt \in 0..MaxAttempt
    BY <1>2 DEF Android!StreamType
  <2> QED
    BY <2>1, DelayInRange, Ticks, Timers DEF Android!Saturated
<1>5. /\ kill \in {Android!Off} \union 0..KillEscalation
      /\ q.daemon = "alive" => kill # Android!Off
      /\ sock \in {"none", "open", "refused", "closing"}
      /\ q.socket = "none" => sock = "none"
  BY Timers DEF Android!SessionType
<1> HIDE DEF delay, attempt, kill, sock
<1>6. /\ r \in Android!StreamType /\ r.isActive /\ r.session = 0
      /\ r.preambleTimer = Android!Off /\ r.connectTimer = Android!Off
      /\ r.restartTimer = delay
  <2>1. 0 \in 0..MaxLaunches
    BY Ticks
  <2> QED
    BY <1>2, <1>4, <2>1 DEF Android!Cleared, Android!StreamType
<1>7. /\ torn \in Android!SessionType /\ torn.stream = o /\ torn.step = q.step
      /\ torn.daemon = q.daemon /\ torn.preamble = q.preamble
      /\ torn.socket = sock /\ torn.escalation = kill
  BY <1>1, <1>5 DEF Android!SessionType
<1> HIDE DEF r, torn
<1>8. stream'[o] = r /\ session'[n] = torn
  BY <1>3 DEF AndroidInv, Android!TypeOK
<1>9. StreamInv(o)'
  BY <1>4, <1>6, <1>8 DEF StreamInv
<1>10. SessionInv(n)'
  BY <1>2, <1>5, <1>7, <1>8 DEF SessionInv
<1> QED
  BY <1>1, <1>2, <1>3, <1>6, <1>7, <1>9, <1>10, AndroidEditKeeps

LEMMA PushedKeeps ==
  ASSUME AndroidInv, NEW n \in Android!Launches, Android!Pushed(n)
  PROVE  AndroidInv' /\ AndroidFrame
<1>0. session[n].step = "push" /\ UNCHANGED <<stream, forwarded, removing>>
  BY DEF Android!Pushed
<1>1. PICK o \in Android!Streams : o = session[n].stream
  BY <1>0, KnownSession
<1>2. /\ o # 0 /\ StreamInv(o) /\ SessionInv(n) /\ session[n] \in Android!SessionType
      /\ stream[o] \in Android!StreamType /\ n # 0
      /\ Android!Current(n) <=> stream[o].session = n
      /\ forwarded' \in BOOLEAN /\ removing' \subseteq Android!Streams
  BY <1>0, <1>1, KnownSession DEF AndroidInv, Android!TypeOK
<1>3. CASE Android!Current(n)
  <2> DEFINE q == [session[n] EXCEPT !.daemon = "alive", !.step = "forward"]
  <2>1. session' = [session EXCEPT ![n] = q]
    BY <1>3 DEF Android!Pushed, Android!PushCounts
  <2>2. /\ q \in Android!SessionType /\ q.stream = o /\ q.step = "forward"
        /\ q.socket = session[n].socket /\ q.preamble = session[n].preamble
    BY <1>1, <1>2 DEF Android!SessionType
  <2> HIDE DEF q
  <2>3. session'[n] = q
    BY <2>1 DEF AndroidInv, Android!TypeOK
  <2>4. q.socket = "none" /\ ~q.preamble
    BY <1>0, <1>1, <1>2, <2>2 DEF SessionInv
  <2>5. stream' = [stream EXCEPT ![o] = stream[o]]
    BY <1>0 DEF AndroidInv, Android!TypeOK
  <2>6. StreamInv(o)'
    BY <1>0, <1>1, <1>2, <1>3, <2>2, <2>3, <2>4 DEF StreamInv
  <2>7. SessionInv(n)'
    BY <1>0, <1>2, <1>3, <2>2, <2>3, <2>4 DEF SessionInv
  <2> QED
    BY <1>1, <1>2, <2>1, <2>2, <2>5, <2>6, <2>7, AndroidEditKeeps
<1>4. CASE ~Android!Current(n)
  <2> DEFINE q == [session[n] EXCEPT !.step = "done"]
  <2>1. session' = [session EXCEPT ![n] = q]
    BY <1>4 DEF Android!Pushed, Android!PushCounts
  <2>2. /\ q \in Android!SessionType /\ q.stream = session[n].stream /\ q.step = "done"
        /\ q.daemon = session[n].daemon /\ q.escalation = session[n].escalation
    BY <1>2 DEF Android!SessionType
  <2> HIDE DEF q
  <2> QED
    BY <1>0, <1>1, <1>2, <1>4, <2>1, <2>2, OldSessionKeeps
<1> QED
  BY <1>3, <1>4

LEMMA ForwardedKeeps ==
  ASSUME AndroidInv, NEW n \in Android!Launches, Android!Forwarded(n)
  PROVE  AndroidInv' /\ AndroidFrame
<1>0. session[n].step = "forward" /\ forwarded' = TRUE /\ removing' = removing
  BY DEF Android!Forwarded
<1>1. PICK o \in Android!Streams : o = session[n].stream
  BY <1>0, KnownSession
<1>2. /\ o # 0 /\ StreamInv(o) /\ SessionInv(n) /\ session[n] \in Android!SessionType
      /\ stream[o] \in Android!StreamType /\ n # 0
      /\ Android!Current(n) <=> stream[o].session = n
      /\ forwarded' \in BOOLEAN /\ removing' \subseteq Android!Streams
  BY <1>0, <1>1, KnownSession DEF AndroidInv, Android!TypeOK
<1>3. CASE Android!Current(n)
  <2> DEFINE r == [stream[o] EXCEPT !.preambleTimer = FirstOutput]
             q == [session[n] EXCEPT !.step = "done", !.socket = "open"]
  <2>1. stream' = [stream EXCEPT ![o] = r] /\ session' = [session EXCEPT ![n] = q]
    <3>1. session' = [session EXCEPT ![n] = Android!Connected([session[n] EXCEPT !.step = "done"])]
      BY <1>3 DEF Android!Forwarded
    <3>2. Android!Connected([session[n] EXCEPT !.step = "done"]) = q
      BY <1>0, <1>2 DEF Android!Connected, Android!SessionType
    <3>3. stream' = [stream EXCEPT ![o] = r]
      BY <1>1, <1>2, <1>3 DEF Android!Forwarded, Android!PreambleDeadline
    <3> QED
      BY <3>1, <3>2, <3>3
  <2>2. /\ q \in Android!SessionType /\ q.stream = o /\ q.step = "done"
        /\ q.socket = "open" /\ q.preamble = session[n].preamble
    BY <1>1, <1>2 DEF Android!SessionType
  <2>3. /\ r \in Android!StreamType /\ r.isActive = stream[o].isActive
        /\ r.session = stream[o].session /\ r.restartTimer = stream[o].restartTimer
        /\ r.connectTimer = stream[o].connectTimer /\ r.preambleTimer = FirstOutput
    <3>1. FirstOutput \in {Android!Off} \union 0..FirstOutput
      BY Timers
    <3> QED
      BY <1>2, <3>1 DEF Android!StreamType
  <2> HIDE DEF q, r
  <2>4. session'[n] = q /\ stream'[o] = r
    BY <2>1 DEF AndroidInv, Android!TypeOK
  <2>5. ~q.preamble /\ r.connectTimer = Android!Off /\ r.preambleTimer # Android!Off
    <3>1. ~q.preamble
      BY <1>0, <1>1, <1>2, <2>2 DEF SessionInv
    <3>2. r.connectTimer = Android!Off
      BY <1>0, <1>2, <1>3, <2>3 DEF StreamInv
    <3> QED
      BY <2>3, <3>1, <3>2, Ticks, Timers
  <2>6. StreamInv(o)'
    BY <1>1, <1>2, <1>3, <2>2, <2>3, <2>4, <2>5 DEF StreamInv
  <2>7. SessionInv(n)'
    BY <1>2, <1>3, <2>2, <2>3, <2>4 DEF SessionInv
  <2> QED
    BY <1>1, <1>2, <2>1, <2>2, <2>3, <2>6, <2>7, AndroidEditKeeps
<1>4. CASE ~Android!Current(n)
  <2> DEFINE q == [session[n] EXCEPT !.step = "done"]
  <2>1. session' = [session EXCEPT ![n] = q] /\ stream' = stream
    BY <1>2, <1>4 DEF Android!Forwarded, Android!SessionType
  <2>2. /\ q \in Android!SessionType /\ q.stream = session[n].stream /\ q.step = "done"
        /\ q.daemon = session[n].daemon /\ q.escalation = session[n].escalation
    BY <1>2 DEF Android!SessionType
  <2> HIDE DEF q
  <2> QED
    BY <1>1, <1>2, <1>4, <2>1, <2>2, OldSessionKeeps
<1> QED
  BY <1>3, <1>4

LEMMA LaunchFailsKeeps ==
  ASSUME AndroidInv, NEW n \in Android!Launches, Android!LaunchFails(n)
  PROVE  AndroidInv' /\ AndroidFrame
<1> DEFINE q == [session[n] EXCEPT !.step = "done"]
<1>1. /\ session[n] \in Android!SessionType /\ session[n].stream # 0
      /\ forwarded' \in BOOLEAN /\ removing' \subseteq Android!Streams
  <2>1. session[n].step # "done"
    BY DEF Android!LaunchFails
  <2> QED
    BY <2>1, KnownSession DEF AndroidInv, Android!TypeOK, Android!LaunchFails
<1>2. /\ q \in Android!SessionType /\ q.stream = session[n].stream /\ q.step = "done"
      /\ q.daemon = session[n].daemon /\ q.escalation = session[n].escalation
  BY <1>1 DEF Android!SessionType
<1>3. CASE Android!Current(n)
  <2>1. Android!ScheduleRestart(n, q)
    BY <1>3 DEF Android!LaunchFails
  <2> HIDE DEF q
  <2> QED
    BY <1>1, <1>2, <1>3, <2>1, ScheduleRestartKeeps
<1>4. CASE ~Android!Current(n)
  <2>1. session' = [session EXCEPT ![n] = q] /\ stream' = stream
    BY <1>4 DEF Android!LaunchFails
  <2> HIDE DEF q
  <2> QED
    BY <1>1, <1>2, <1>4, <2>1, OldSessionKeeps
<1> QED
  BY <1>3, <1>4

LEMMA PreambleKeeps ==
  ASSUME AndroidInv, NEW n \in Android!Launches, Android!Preamble(n)
  PROVE  AndroidInv' /\ AndroidFrame
<1>0. session[n].socket = "open"
  BY DEF Android!Preamble
<1>1. PICK o \in Android!Streams : o = session[n].stream
  BY <1>0, KnownSession
<1>2. /\ o # 0 /\ StreamInv(o) /\ SessionInv(n) /\ session[n] \in Android!SessionType
      /\ stream[o] \in Android!StreamType /\ n # 0 /\ stream[o].session = n
      /\ forwarded' \in BOOLEAN /\ removing' \subseteq Android!Streams
  BY <1>0, <1>1, KnownSession DEF AndroidInv, Android!TypeOK, Android!Preamble
<1> DEFINE r == [stream[o] EXCEPT !.restartAttempt = 0, !.preambleTimer = Android!Off]
           q == [session[n] EXCEPT !.preamble = TRUE]
<1>3. stream' = [stream EXCEPT ![o] = r] /\ session' = [session EXCEPT ![n] = q]
  BY <1>1, <1>2 DEF Android!Preamble, Android!SessionType
<1>4. /\ q \in Android!SessionType /\ q.stream = o /\ q.step = session[n].step
      /\ q.socket = "open" /\ q.preamble /\ q.daemon = session[n].daemon
  BY <1>0, <1>1, <1>2 DEF Android!SessionType
<1>5. /\ r \in Android!StreamType /\ r.isActive = stream[o].isActive
      /\ r.session = n /\ r.restartTimer = stream[o].restartTimer
      /\ r.connectTimer = stream[o].connectTimer
  <2>1. 0 \in 0..MaxAttempt /\ Android!Off \in {Android!Off} \union 0..FirstOutput
    BY Ticks
  <2> QED
    BY <1>2, <2>1 DEF Android!StreamType
<1> HIDE DEF q, r
<1>6. session'[n] = q /\ stream'[o] = r
  BY <1>3 DEF AndroidInv, Android!TypeOK
<1>7. q.step = "done" /\ r.connectTimer = Android!Off
  <2>1. q.step = "done"
    BY <1>0, <1>1, <1>2, <1>4 DEF SessionInv
  <2>2. r.connectTimer = Android!Off
    BY <1>0, <1>2, <1>5 DEF StreamInv
  <2> QED
    BY <2>1, <2>2
<1>8. StreamInv(o)'
  BY <1>2, <1>4, <1>5, <1>6, <1>7 DEF StreamInv
<1>9. SessionInv(n)'
  BY <1>2, <1>4, <1>5, <1>6, <1>7 DEF SessionInv
<1> QED
  BY <1>1, <1>2, <1>3, <1>4, <1>5, <1>8, <1>9, AndroidEditKeeps

LEMMA AndroidDamagedKeeps ==
  ASSUME AndroidInv, NEW n \in Android!Launches, Android!Damaged(n)
  PROVE  AndroidInv' /\ AndroidFrame
<1>0. /\ session[n].socket = "open" /\ stream[session[n].stream].session = n
      /\ Android!ScheduleRestart(n, session[n]) /\ UNCHANGED <<forwarded, removing>>
  BY DEF Android!Damaged
<1>1. /\ session[n] \in Android!SessionType /\ session[n].stream # 0 /\ SessionInv(n)
      /\ Android!Current(n)
      /\ forwarded' \in BOOLEAN /\ removing' \subseteq Android!Streams
  BY <1>0, KnownSession DEF AndroidInv, Android!TypeOK
<1>2. /\ session[n].step = "push" => session[n].daemon = "none"
      /\ session[n].step # "done" => session[n].socket = "none" /\ ~session[n].preamble
  BY <1>1 DEF SessionInv
<1> QED
  BY <1>0, <1>1, <1>2, ScheduleRestartKeeps

LEMMA CloseEventKeeps ==
  ASSUME AndroidInv, NEW n \in Android!Launches, Android!CloseEvent(n)
  PROVE  AndroidInv' /\ AndroidFrame
<1>0. session[n].socket # "none" /\ UNCHANGED <<forwarded, removing>>
  BY DEF Android!CloseEvent
<1>1. PICK o \in Android!Streams : o = session[n].stream
  BY <1>0, KnownSession
<1>2. /\ o # 0 /\ StreamInv(o) /\ SessionInv(n) /\ session[n] \in Android!SessionType
      /\ stream[o] \in Android!StreamType /\ n # 0
      /\ Android!Current(n) <=> stream[o].session = n
      /\ forwarded' \in BOOLEAN /\ removing' \subseteq Android!Streams
  BY <1>0, <1>1, KnownSession DEF AndroidInv, Android!TypeOK
<1> DEFINE q == [session[n] EXCEPT !.socket = "none"]
<1>3. session[n].step = "done"
  BY <1>0, <1>1, <1>2 DEF SessionInv
<1>4. /\ q \in Android!SessionType /\ q.stream = o /\ q.step = "done"
      /\ q.daemon = session[n].daemon /\ q.escalation = session[n].escalation
      /\ q.socket = "none" /\ q.preamble = session[n].preamble
  BY <1>1, <1>2, <1>3 DEF Android!SessionType
<1>5. CASE ~Android!Current(n)
  <2>1. session' = [session EXCEPT ![n] = q] /\ stream' = stream
    BY <1>5 DEF Android!CloseEvent
  <2> HIDE DEF q
  <2> QED
    BY <1>1, <1>2, <1>4, <1>5, <2>1, OldSessionKeeps
<1>6. CASE Android!Current(n) /\ ~q.preamble
  <2> DEFINE r == [stream[o] EXCEPT !.connectTimer = ConnectRetry]
  <2>1. session' = [session EXCEPT ![n] = q] /\ stream' = [stream EXCEPT ![o] = r]
    BY <1>1, <1>2, <1>6 DEF Android!CloseEvent, Android!StreamType, Android!SessionType
  <2>2. /\ r \in Android!StreamType /\ r.isActive = stream[o].isActive
        /\ r.session = stream[o].session /\ r.restartTimer = stream[o].restartTimer
        /\ r.preambleTimer = stream[o].preambleTimer
    <3>1. ConnectRetry \in {Android!Off} \union 0..ConnectRetry
      BY Ticks
    <3> QED
      BY <1>2, <3>1 DEF Android!StreamType
  <2> HIDE DEF q, r
  <2>3. session'[n] = q /\ stream'[o] = r
    BY <2>1 DEF AndroidInv, Android!TypeOK
  <2>4. StreamInv(o)'
    BY <1>2, <1>3, <1>4, <1>6, <2>2, <2>3 DEF StreamInv
  <2>5. SessionInv(n)'
    BY <1>2, <1>4, <1>6, <2>2, <2>3 DEF SessionInv
  <2> QED
    BY <1>1, <1>2, <1>4, <2>1, <2>2, <2>4, <2>5, AndroidEditKeeps
<1>7. CASE Android!Current(n) /\ q.preamble
  <2>1. Android!ScheduleRestart(n, q)
    BY <1>7 DEF Android!CloseEvent
  <2> HIDE DEF q
  <2> QED
    BY <1>1, <1>2, <1>4, <1>7, <2>1, ScheduleRestartKeeps
<1> QED
  BY <1>5, <1>6, <1>7

LEMMA ReconnectsKeeps ==
  ASSUME AndroidInv, NEW o \in Android!Streams, Android!Reconnects(o)
  PROVE  AndroidInv' /\ AndroidFrame
<1>0. stream[o].connectTimer = 0 /\ UNCHANGED <<forwarded, removing>>
  BY DEF Android!Reconnects
<1>1. PICK n \in 0..MaxLaunches : n = stream[o].session
  BY DEF AndroidInv, Android!TypeOK, Android!StreamType
<1>2. /\ StreamInv(o) /\ stream[o] \in Android!StreamType /\ o # 0
      /\ forwarded' \in BOOLEAN /\ removing' \subseteq Android!Streams
  BY <1>0 DEF AndroidInv, Android!TypeOK, Android!Streams
<1>3. /\ n # 0 /\ session[n].stream = o /\ session[n].step = "done" /\ ~session[n].preamble
      /\ stream[o].preambleTimer # Android!Off /\ stream[o].restartTimer = Android!Off
  <2>1. stream[o].connectTimer # Android!Off
    BY <1>0, Timers
  <2>2. n # 0
    BY <1>1, <1>2, <2>1 DEF StreamInv
  <2> QED
    BY <1>1, <1>2, <2>1, <2>2 DEF StreamInv
<1>4. n \in Android!Launches
  BY <1>3, Ticks DEF Android!Launches
<1>5. session[n] \in Android!SessionType /\ SessionInv(n)
  BY <1>4 DEF AndroidInv, Android!TypeOK
<1> DEFINE sock == IF forwarded THEN "open" ELSE "refused"
           r == [stream[o] EXCEPT !.connectTimer = Android!Off]
           q == [session[n] EXCEPT !.socket = sock]
<1>6. stream' = [stream EXCEPT ![o] = r] /\ session' = [session EXCEPT ![n] = q]
  BY <1>0, <1>1, <1>2, <1>3, <1>5
  DEF Android!Reconnects, Android!Connected, Android!StreamType, Android!SessionType
<1>7. sock \in {"none", "open", "refused", "closing"}
  OBVIOUS
<1> HIDE DEF sock
<1>8. /\ q \in Android!SessionType /\ q.stream = o /\ q.step = "done" /\ ~q.preamble
      /\ q.daemon = session[n].daemon /\ q.escalation = session[n].escalation
  BY <1>3, <1>5, <1>7 DEF Android!SessionType
<1>9. /\ r \in Android!StreamType /\ r.isActive = stream[o].isActive
      /\ r.session = n /\ r.restartTimer = Android!Off /\ r.connectTimer = Android!Off
      /\ r.preambleTimer # Android!Off
  <2>1. Android!Off \in {Android!Off} \union 0..ConnectRetry
    OBVIOUS
  <2> QED
    BY <1>1, <1>2, <1>3, <2>1 DEF Android!StreamType
<1> HIDE DEF q, r
<1>10. session'[n] = q /\ stream'[o] = r
  BY <1>4, <1>6 DEF AndroidInv, Android!TypeOK
<1>11. StreamInv(o)'
  BY <1>1, <1>2, <1>3, <1>8, <1>9, <1>10 DEF StreamInv
<1>12. SessionInv(n)'
  BY <1>2, <1>8, <1>9, <1>10 DEF SessionInv
<1> QED
  BY <1>1, <1>2, <1>3, <1>4, <1>6, <1>8, <1>9, <1>11, <1>12, AndroidEditKeeps

LEMMA DeadlinePassesKeeps ==
  ASSUME AndroidInv, NEW o \in Android!Streams, Android!DeadlinePasses(o)
  PROVE  AndroidInv' /\ AndroidFrame
<1>0. stream[o].preambleTimer = 0 /\ UNCHANGED <<forwarded, removing>>
  BY DEF Android!DeadlinePasses
<1>1. PICK n \in 0..MaxLaunches : n = stream[o].session
  BY DEF AndroidInv, Android!TypeOK, Android!StreamType
<1>2. /\ StreamInv(o) /\ stream[o] \in Android!StreamType /\ o # 0
      /\ forwarded' \in BOOLEAN /\ removing' \subseteq Android!Streams
  BY <1>0 DEF AndroidInv, Android!TypeOK, Android!Streams
<1>3. n # 0 /\ session[n].stream = o /\ stream[o].restartTimer = Android!Off
  <2>1. stream[o].preambleTimer # Android!Off
    BY <1>0, Timers
  <2> QED
    BY <1>1, <1>2, <2>1 DEF StreamInv
<1>4. n \in Android!Launches
  BY <1>3, Ticks DEF Android!Launches
<1>5. session[n] \in Android!SessionType /\ SessionInv(n) /\ Android!Current(n)
  BY <1>1, <1>2, <1>3, <1>4, KnownSession DEF AndroidInv, Android!TypeOK
<1>6. /\ session[n].step = "push" => session[n].daemon = "none"
      /\ session[n].step # "done" => session[n].socket = "none" /\ ~session[n].preamble
  BY <1>2, <1>3, <1>5 DEF SessionInv
<1>7. CASE ~session[n].preamble
  <2>1. Android!ScheduleRestart(n, session[n])
    BY <1>1, <1>3, <1>7 DEF Android!DeadlinePasses
  <2> QED
    BY <1>2, <1>3, <1>4, <1>5, <1>6, <2>1, ScheduleRestartKeeps
<1>8. CASE session[n].preamble
  <2> DEFINE r == [stream[o] EXCEPT !.preambleTimer = Android!Off]
  <2>1. stream' = [stream EXCEPT ![o] = r] /\ session' = [session EXCEPT ![n] = session[n]]
    BY <1>1, <1>3, <1>4, <1>8 DEF Android!DeadlinePasses, AndroidInv, Android!TypeOK
  <2>2. /\ r \in Android!StreamType /\ r.isActive = stream[o].isActive
        /\ r.session = n /\ r.restartTimer = Android!Off
        /\ r.connectTimer = stream[o].connectTimer
    <3>1. Android!Off \in {Android!Off} \union 0..FirstOutput
      OBVIOUS
    <3> QED
      BY <1>1, <1>2, <1>3, <3>1 DEF Android!StreamType
  <2> HIDE DEF r
  <2>3. session'[n] = session[n] /\ stream'[o] = r
    BY <1>4, <2>1 DEF AndroidInv, Android!TypeOK
  <2>4. StreamInv(o)'
    BY <1>1, <1>2, <1>3, <1>8, <2>2, <2>3 DEF StreamInv
  <2>5. SessionInv(n)'
    BY <1>3, <1>5, <1>6, <2>2, <2>3 DEF SessionInv
  <2> QED
    BY <1>1, <1>2, <1>3, <1>4, <1>5, <2>1, <2>2, <2>4, <2>5, AndroidEditKeeps
<1> QED
  BY <1>7, <1>8

LEMMA DaemonEndsKeeps ==
  ASSUME AndroidInv, NEW n \in Android!Launches, Android!Ends(n)
  PROVE  AndroidInv' /\ AndroidFrame
<1>0. session[n].daemon = "alive" /\ UNCHANGED <<stream, forwarded, removing>>
  BY DEF Android!Ends
<1>1. PICK o \in Android!Streams : o = session[n].stream
  BY <1>0, KnownSession
<1>2. /\ o # 0 /\ StreamInv(o) /\ SessionInv(n) /\ session[n] \in Android!SessionType
      /\ stream[o] \in Android!StreamType /\ stream[o].session \in 0..MaxLaunches
      /\ forwarded' \in BOOLEAN /\ removing' \subseteq Android!Streams
  BY <1>0, <1>1, KnownSession DEF AndroidInv, Android!TypeOK, Android!StreamType
<1> DEFINE q == [session[n] EXCEPT !.daemon = "dead"]
<1>3. session' = [session EXCEPT ![n] = q] /\ stream' = [stream EXCEPT ![o] = stream[o]]
  BY <1>0, <1>2 DEF Android!Ends, Android!SessionType, AndroidInv, Android!TypeOK
<1>4. /\ q \in Android!SessionType /\ q.stream = o /\ q.step = session[n].step
      /\ q.socket = session[n].socket /\ q.preamble = session[n].preamble /\ q.daemon = "dead"
  BY <1>1, <1>2 DEF Android!SessionType
<1> HIDE DEF q
<1>5. /\ session'[n] = q /\ stream'[o] = stream[o]
      /\ \A m \in Android!Launches : m # n => session'[m] = session[m]
  BY <1>3 DEF AndroidInv, Android!TypeOK
<1>6. StreamInv(o)'
  <2>1. CASE stream[o].session = n
    BY <1>1, <1>2, <1>4, <1>5, <2>1 DEF StreamInv
  <2>2. CASE stream[o].session # n
    <3>1. stream[o].session # 0 => session'[stream[o].session] = session[stream[o].session]
      BY <1>2, <1>5, <2>2, Ticks DEF Android!Launches
    <3> QED
      BY <1>2, <1>5, <3>1 DEF StreamInv
  <2> QED
    BY <2>1, <2>2
<1>7. SessionInv(n)'
  <2>1. session[n].step # "push" /\ (session[n].step # "done" => session[n].socket = "none" /\ ~session[n].preamble)
    BY <1>0, <1>1, <1>2 DEF SessionInv
  <2> QED
    BY <1>2, <1>4, <1>5, <2>1 DEF SessionInv
<1> QED
  BY <1>1, <1>2, <1>3, <1>4, <1>6, <1>7, AndroidEditKeeps

LEMMA DaemonEndEventKeeps ==
  ASSUME AndroidInv, NEW n \in Android!Launches, Android!EndEvent(n)
  PROVE  AndroidInv' /\ AndroidFrame
<1> DEFINE q == [session[n] EXCEPT !.daemon = "ended"]
<1>1. /\ session[n] \in Android!SessionType /\ session[n].stream # 0 /\ SessionInv(n)
      /\ session[n].daemon = "dead"
      /\ forwarded' \in BOOLEAN /\ removing' \subseteq Android!Streams
  <2>1. session[n].daemon = "dead"
    BY DEF Android!EndEvent
  <2> QED
    BY <2>1, KnownSession DEF AndroidInv, Android!TypeOK, Android!EndEvent
<1>2. /\ q \in Android!SessionType /\ q.stream = session[n].stream /\ q.step = session[n].step
      /\ q.daemon = "ended" /\ q.socket = session[n].socket /\ q.preamble = session[n].preamble
  BY <1>1 DEF Android!SessionType
<1>3. q.step # "push" /\ (q.step # "done" => q.socket = "none" /\ ~q.preamble)
  <2> HIDE DEF q
  <2> QED
    BY <1>1, <1>2 DEF SessionInv
<1>4. CASE Android!Current(n)
  <2>1. Android!ScheduleRestart(n, q)
    BY <1>4 DEF Android!EndEvent
  <2> HIDE DEF q
  <2> QED
    BY <1>1, <1>2, <1>3, <1>4, <2>1, ScheduleRestartKeeps
<1>5. CASE ~Android!Current(n)
  <2>1. session' = [session EXCEPT ![n] = q] /\ stream' = stream
    BY <1>5 DEF Android!EndEvent
  <2> HIDE DEF q
  <2> QED
    BY <1>1, <1>2, <1>3, <1>5, <2>1, OldSessionKeeps
<1> QED
  BY <1>4, <1>5

(* Launching for a stream that has no session and no timer but its restart timer. *)
LEMMA AndroidLaunchKeeps ==
  ASSUME AndroidInv, NEW o \in Android!Streams, NEW r \in Android!StreamType, r.isActive,
         stream[o].session = 0,
         r.preambleTimer = Android!Off, r.connectTimer = Android!Off,
         Android!Launch(o, r), forwarded' = forwarded, removing' = removing
  PROVE  /\ AndroidInv'
         /\ stream'[o].isActive
         /\ \A p \in Android!Streams : p # o => stream'[p] = stream[p]
         /\ \A n \in Android!Launches : session'[n].stream \in {session[n].stream, o}
<1> DEFINE x(n) == [r EXCEPT !.session = n, !.restartTimer = Android!Off]
           new == [Android!NoSession EXCEPT !.stream = o, !.step = "push"]
<1>1. PICK n \in Android!Unused :
        stream' = [stream EXCEPT ![o] = x(n)] /\ session' = [session EXCEPT ![n] = new]
  BY DEF Android!Launch
<1>2. /\ n \in Android!Launches /\ n \in 0..MaxLaunches /\ n # 0 /\ session[n].stream = 0
      /\ o \in 0..MaxStreams /\ o # 0
  BY Ticks DEF Android!Unused, Android!Launches, Android!Streams
<1>3. /\ x(n) \in Android!StreamType /\ x(n).isActive /\ x(n).session = n
      /\ x(n).restartTimer = Android!Off
      /\ x(n).preambleTimer = Android!Off /\ x(n).connectTimer = Android!Off
  <2>1. Android!Off \in {Android!Off} \union 0..RestartMax
    OBVIOUS
  <2> QED
    BY <1>2, <2>1 DEF Android!StreamType
<1>4. /\ new \in Android!SessionType /\ new.stream = o /\ new.step = "push"
      /\ new.daemon = "none" /\ new.socket = "none" /\ ~new.preamble
  <2>1. Android!Off \in {Android!Off} \union 0..KillEscalation
    OBVIOUS
  <2> QED
    BY <1>2, <2>1 DEF Android!SessionType, Android!NoSession
<1> HIDE DEF x, new
<1>5. /\ Android!TypeOK' /\ stream'[o] = x(n) /\ session'[n] = new
      /\ \A p \in Android!Streams : p # o => stream'[p] = stream[p]
      /\ \A m \in Android!Launches : m # n => session'[m] = session[m]
  BY <1>1, <1>2, <1>3, <1>4 DEF AndroidInv, Android!TypeOK
<1>6. ASSUME NEW p \in Android!Streams PROVE StreamInv(p)'
  <2>1. CASE p = o
    BY <1>2, <1>3, <1>4, <1>5, <2>1 DEF StreamInv
  <2>2. CASE p # o
    <3>1. StreamInv(p) /\ stream'[p] = stream[p] /\ p # 0
      BY <1>5, <2>2 DEF AndroidInv, Android!Streams
    <3>2. stream[p].session # 0 => session'[stream[p].session] = session[stream[p].session]
      <4>1. stream[p].session \in 0..MaxLaunches
        BY DEF AndroidInv, Android!TypeOK, Android!StreamType
      <4> QED
        BY <1>2, <1>5, <3>1, <4>1, Ticks DEF StreamInv, Android!Launches
    <3> QED
      BY <3>1, <3>2 DEF StreamInv
  <2> QED
    BY <2>1, <2>2
<1>7. ASSUME NEW m \in Android!Launches PROVE SessionInv(m)'
  <2>1. CASE m = n
    BY <1>2, <1>4, <1>5, <2>1 DEF SessionInv
  <2>2. CASE m # n
    <3>1. SessionInv(m) /\ session'[m] = session[m] /\ session[m].stream \in 0..MaxStreams /\ m # 0
      BY <1>5, <2>2 DEF AndroidInv, Android!TypeOK, Android!SessionType, Android!Launches
    <3>2. CASE session[m].stream = o
      BY <1>2, <3>1, <3>2 DEF SessionInv
    <3>3. CASE session[m].stream # o
      BY <1>5, <3>1, <3>3, Ticks DEF SessionInv, Android!Streams
    <3> QED
      BY <3>2, <3>3
  <2> QED
    BY <2>1, <2>2
<1> QED
  BY <1>2, <1>3, <1>4, <1>5, <1>6, <1>7 DEF AndroidInv

LEMMA AndroidRestartKeeps ==
  ASSUME AndroidInv, NEW o \in Android!Streams, Android!RestartFires(o)
  PROVE  AndroidInv' /\ AndroidFrame
<1>1. stream[o] \in Android!StreamType /\ StreamInv(o) /\ o # 0
  BY DEF AndroidInv, Android!TypeOK, Android!Streams
<1>2. stream[o].restartTimer # Android!Off /\ Android!Launch(o, stream[o])
      /\ forwarded' = forwarded /\ removing' = removing
  BY Timers DEF Android!RestartFires
<1>3. /\ stream[o].isActive /\ stream[o].session = 0
      /\ stream[o].preambleTimer = Android!Off /\ stream[o].connectTimer = Android!Off
  BY <1>1, <1>2 DEF StreamInv
<1>4. /\ AndroidInv' /\ stream'[o].isActive
      /\ \A p \in Android!Streams : p # o => stream'[p] = stream[p]
      /\ \A n \in Android!Launches : session'[n].stream \in {session[n].stream, o}
  BY <1>1, <1>2, <1>3, AndroidLaunchKeeps
<1>5. stream'[o].isActive = stream[o].isActive
  BY <1>3, <1>4 DEF AndroidInv, Android!TypeOK, Android!StreamType
<1> QED
  BY <1>3, <1>4, <1>5 DEF AndroidFrame

LEMMA RemovedKeeps ==
  ASSUME AndroidInv, NEW o \in Android!Streams, Android!Removed(o)
  PROVE  AndroidInv' /\ AndroidFrame
BY DEF Android!Removed, AndroidInv, Android!TypeOK, StreamInv, SessionInv, AndroidFrame

LEMMA AndroidTickKeeps ==
  ASSUME AndroidInv, Android!ATick
  PROVE  AndroidInv' /\ AndroidFrame
<1>1. ASSUME NEW o \in Android!Streams
      PROVE  /\ stream'[o] \in Android!StreamType
             /\ stream'[o].isActive = stream[o].isActive
             /\ stream'[o].session = stream[o].session
             /\ stream'[o].restartTimer = Android!Off <=> stream[o].restartTimer = Android!Off
             /\ stream'[o].preambleTimer = Android!Off <=> stream[o].preambleTimer = Android!Off
             /\ stream'[o].connectTimer = Android!Off <=> stream[o].connectTimer = Android!Off
  <2> DEFINE t == Android!Older(stream[o].restartTimer)
             u == Android!Older(stream[o].preambleTimer)
             v == Android!Older(stream[o].connectTimer)
  <2>1. stream[o] \in Android!StreamType
    BY DEF AndroidInv, Android!TypeOK
  <2>2. /\ t \in {Android!Off} \union 0..RestartMax
        /\ t = Android!Off <=> stream[o].restartTimer = Android!Off
    BY <2>1, Ticks DEF Android!StreamType, Android!Older, Android!Off
  <2>3. /\ u \in {Android!Off} \union 0..FirstOutput
        /\ u = Android!Off <=> stream[o].preambleTimer = Android!Off
    BY <2>1, Ticks DEF Android!StreamType, Android!Older, Android!Off
  <2>4. /\ v \in {Android!Off} \union 0..ConnectRetry
        /\ v = Android!Off <=> stream[o].connectTimer = Android!Off
    BY <2>1, Ticks DEF Android!StreamType, Android!Older, Android!Off
  <2>5. stream'[o] = [stream[o] EXCEPT !.restartTimer = t, !.preambleTimer = u, !.connectTimer = v]
    BY DEF Android!ATick
  <2> HIDE DEF t, u, v
  <2> QED
    BY <2>1, <2>2, <2>3, <2>4, <2>5 DEF Android!StreamType
<1>2. ASSUME NEW n \in Android!Launches
      PROVE  /\ session'[n] \in Android!SessionType
             /\ session'[n].stream = session[n].stream /\ session'[n].step = session[n].step
             /\ session'[n].socket = session[n].socket
             /\ session'[n].preamble = session[n].preamble
             /\ session'[n].escalation = Android!Off <=> session[n].escalation = Android!Off
             /\ session'[n].daemon = "alive" => session[n].daemon = "alive"
             /\ session'[n].daemon = "none" <=> session[n].daemon = "none"
  <2> DEFINE t == Android!Older(session[n].escalation)
             d == IF session[n].daemon = "alive" /\ session[n].escalation = 0 THEN "dead"
                  ELSE session[n].daemon
  <2>1. session[n] \in Android!SessionType
    BY DEF AndroidInv, Android!TypeOK
  <2>2. /\ t \in {Android!Off} \union 0..KillEscalation
        /\ t = Android!Off <=> session[n].escalation = Android!Off
    BY <2>1, Ticks DEF Android!SessionType, Android!Older, Android!Off
  <2>3. /\ d \in {"none", "alive", "dead", "ended"}
        /\ d = "alive" => session[n].daemon = "alive"
        /\ d = "none" <=> session[n].daemon = "none"
    BY <2>1 DEF Android!SessionType
  <2>4. session'[n] = [session[n] EXCEPT !.escalation = t, !.daemon = d]
    BY <2>1 DEF Android!ATick, Android!SessionType
  <2> HIDE DEF t, d
  <2> QED
    BY <2>1, <2>2, <2>3, <2>4 DEF Android!SessionType
<1>3. Android!TypeOK'
  <2>1. stream' \in [Android!Streams -> Android!StreamType]
    BY <1>1 DEF Android!ATick
  <2>2. session' \in [Android!Launches -> Android!SessionType]
    BY <1>2 DEF Android!ATick
  <2> QED
    BY <2>1, <2>2 DEF AndroidInv, Android!TypeOK, Android!ATick
<1>4. ASSUME NEW o \in Android!Streams PROVE StreamInv(o)'
  <2>1. StreamInv(o) /\ stream[o].session \in 0..MaxLaunches
    BY DEF AndroidInv, Android!TypeOK, Android!StreamType
  <2>2. CASE stream[o].session = 0
    BY <1>1, <2>1, <2>2 DEF StreamInv
  <2>3. CASE stream[o].session # 0
    <3>1. stream[o].session \in Android!Launches
      BY <2>1, <2>3, Ticks DEF Android!Launches
    <3> QED
      BY <1>1, <1>2, <2>1, <2>3, <3>1 DEF StreamInv
  <2> QED
    BY <2>2, <2>3
<1>5. ASSUME NEW n \in Android!Launches PROVE SessionInv(n)'
  <2>1. SessionInv(n) /\ session[n].stream \in 0..MaxStreams
    BY DEF AndroidInv, Android!TypeOK, Android!SessionType
  <2>2. CASE session[n].stream = 0
    BY <1>2, <2>1, <2>2 DEF SessionInv
  <2>3. CASE session[n].stream # 0
    <3>1. session[n].stream \in Android!Streams
      BY <2>1, <2>3, Ticks DEF Android!Streams
    <3> QED
      BY <1>1, <1>2, <2>1, <2>3, <3>1 DEF SessionInv
  <2> QED
    BY <2>2, <2>3
<1> QED
  BY <1>1, <1>2, <1>3, <1>4, <1>5 DEF AndroidInv, AndroidFrame

LEMMA AndroidStepKeeps ==
  ASSUME AndroidInv, Android!ANext \/ Android!ATick
  PROVE  AndroidInv' /\ AndroidFrame
BY PushedKeeps, ForwardedKeeps, LaunchFailsKeeps, PreambleKeeps, AndroidDamagedKeeps, CloseEventKeeps,
   ReconnectsKeeps, DeadlinePassesKeeps, DaemonEndsKeeps, DaemonEndEventKeeps, AndroidRestartKeeps,
   RemovedKeeps, AndroidTickKeeps DEF Android!ANext

OnlyStream(o) ==
  /\ \A p \in Android!Streams : p # o => stream'[p] = stream[p]
  /\ \A n \in Android!Launches : session'[n].stream \in {session[n].stream, o}

LEMMA AndroidStartKeeps ==
  ASSUME AndroidInv, NEW o \in Android!Streams, Android!Start(o)
  PROVE  AndroidInv' /\ OnlyStream(o) /\ stream'[o].isActive
<1> DEFINE r == [stream[o] EXCEPT !.isActive = TRUE]
<1>1. stream[o] \in Android!StreamType /\ StreamInv(o) /\ ~stream[o].isActive
  BY DEF AndroidInv, Android!TypeOK, Android!Start
<1>2. /\ stream[o].session = 0
      /\ stream[o].preambleTimer = Android!Off /\ stream[o].connectTimer = Android!Off
  BY <1>1 DEF StreamInv
<1>3. /\ r \in Android!StreamType /\ r.isActive
      /\ r.preambleTimer = Android!Off /\ r.connectTimer = Android!Off
  BY <1>1, <1>2 DEF Android!StreamType
<1>4. Android!Launch(o, r) /\ forwarded' = forwarded /\ removing' = removing
  BY DEF Android!Start
<1> HIDE DEF r
<1> QED
  BY <1>2, <1>3, <1>4, AndroidLaunchKeeps DEF OnlyStream

LEMMA AndroidStopKeeps ==
  ASSUME AndroidInv, NEW o \in Android!Streams, Android!Stop(o)
  PROVE  AndroidInv' /\ OnlyStream(o) /\ ~stream'[o].isActive
<1>1. PICK n \in 0..MaxLaunches : n = stream[o].session
  BY DEF AndroidInv, Android!TypeOK, Android!StreamType
<1> DEFINE r == [Android!Cleared(stream[o]) EXCEPT !.isActive = FALSE, !.session = 0]
<1>2. stream[o] \in Android!StreamType /\ StreamInv(o) /\ o # 0
  BY DEF AndroidInv, Android!TypeOK, Android!Streams
<1>3. stream' = [stream EXCEPT ![o] = r] /\ removing' = removing \union {o} /\ forwarded' = forwarded
  BY DEF Android!Stop
<1>4. /\ r \in Android!StreamType /\ ~r.isActive /\ r.session = 0 /\ r.restartTimer = Android!Off
      /\ r.preambleTimer = Android!Off /\ r.connectTimer = Android!Off
  <2>1. 0 \in 0..MaxLaunches
    BY Ticks
  <2> QED
    BY <1>2, <2>1 DEF Android!Cleared, Android!StreamType
<1> HIDE DEF r
<1>5. /\ stream' \in [Android!Streams -> Android!StreamType] /\ stream'[o] = r
      /\ \A p \in Android!Streams : p # o => stream'[p] = stream[p]
  BY <1>3, <1>4 DEF AndroidInv, Android!TypeOK
<1>6. /\ session' \in [Android!Launches -> Android!SessionType]
      /\ \A m \in Android!Launches :
           /\ m # n => session'[m] = session[m]
           /\ session'[m].stream = session[m].stream
      /\ n # 0 => SessionInv(n)' /\ session[n].stream = o
  <2>1. CASE n = 0
    BY <1>1, <2>1 DEF Android!Stop, AndroidInv, Android!TypeOK
  <2>2. CASE n # 0
    <3> DEFINE kill == IF session[n].daemon \in {"alive", "dead"} THEN KillEscalation
                       ELSE session[n].escalation
               sock == IF session[n].socket = "none" THEN session[n].socket ELSE "closing"
               q == [session[n] EXCEPT !.socket = sock, !.escalation = kill]
    <3>1. /\ n \in Android!Launches /\ session[n] \in Android!SessionType
          /\ SessionInv(n) /\ session[n].stream = o
      <4>1. n \in Android!Launches
        BY <2>2, Ticks DEF Android!Launches
      <4>2. session[n].stream = o
        BY <1>1, <1>2, <2>2 DEF StreamInv
      <4> QED
        BY <4>1, <4>2 DEF AndroidInv, Android!TypeOK
    <3>2. session' = [session EXCEPT ![n] = q]
      <4>1. session' = [session EXCEPT ![n] = Android!TornDown(session[n])]
        BY <1>1, <2>2, <3>1 DEF Android!Stop, AndroidInv, Android!TypeOK
      <4>2. Android!TornDown(session[n]) = q
        BY <3>1 DEF Android!TornDown, Android!SessionType
      <4> QED
        BY <4>1, <4>2
    <3>3. /\ kill \in {Android!Off} \union 0..KillEscalation
          /\ session[n].daemon = "alive" => kill # Android!Off
          /\ sock \in {"none", "open", "refused", "closing"}
          /\ session[n].socket = "none" => sock = "none"
      BY <3>1, Timers DEF Android!SessionType
    <3> HIDE DEF kill, sock
    <3>4. /\ q \in Android!SessionType /\ q.stream = o /\ q.step = session[n].step
          /\ q.daemon = session[n].daemon /\ q.preamble = session[n].preamble
          /\ q.socket = sock /\ q.escalation = kill
      BY <3>1, <3>3 DEF Android!SessionType
    <3> HIDE DEF q
    <3>5. /\ session' \in [Android!Launches -> Android!SessionType] /\ session'[n] = q
          /\ \A m \in Android!Launches : m # n => session'[m] = session[m]
      BY <3>1, <3>2, <3>4 DEF AndroidInv, Android!TypeOK
    <3>6. SessionInv(n)'
      BY <1>2, <3>1, <3>3, <3>4, <3>5 DEF SessionInv
    <3> QED
      BY <3>1, <3>4, <3>5, <3>6
  <2> QED
    BY <2>1, <2>2
<1>7. ASSUME NEW p \in Android!Streams PROVE StreamInv(p)'
  <2>1. CASE p = o
    BY <1>4, <1>5, <2>1 DEF StreamInv
  <2>2. CASE p # o
    <3>1. StreamInv(p) /\ stream'[p] = stream[p] /\ stream[p].session \in 0..MaxLaunches
      BY <1>5, <2>2 DEF AndroidInv, Android!TypeOK, Android!StreamType
    <3>2. stream[p].session # 0 => session'[stream[p].session] = session[stream[p].session]
      <4>1. stream[p].session # 0 => stream[p].session \in Android!Launches
        BY <3>1, Ticks DEF Android!Launches
      <4>2. stream[p].session # 0 => session[stream[p].session].stream = p
        BY <3>1 DEF StreamInv
      <4> QED
        BY <1>6, <2>2, <4>1, <4>2
    <3> QED
      BY <3>1, <3>2 DEF StreamInv
  <2> QED
    BY <2>1, <2>2
<1>8. ASSUME NEW m \in Android!Launches PROVE SessionInv(m)'
  <2>1. CASE m = n
    BY <1>6, <2>1, Ticks DEF Android!Launches
  <2>2. CASE m # n
    <3>1. SessionInv(m) /\ session'[m] = session[m] /\ session[m].stream \in 0..MaxStreams
      BY <1>6, <2>2 DEF AndroidInv, Android!TypeOK, Android!SessionType
    <3>2. CASE session[m].stream = o
      BY <1>1, <1>2, <2>2, <3>1, <3>2 DEF SessionInv
    <3>3. CASE session[m].stream # o
      BY <1>5, <3>1, <3>3, Ticks DEF SessionInv, Android!Streams
    <3> QED
      BY <3>2, <3>3
  <2> QED
    BY <2>1, <2>2
<1>9. Android!TypeOK'
  BY <1>3, <1>5, <1>6 DEF AndroidInv, Android!TypeOK
<1> QED
  BY <1>4, <1>5, <1>6, <1>7, <1>8, <1>9 DEF AndroidInv, OnlyStream

LEMMA AndroidKilledKeeps ==
  ASSUME AndroidInv, NEW S \in SUBSET Android!Streams, Android!Killed(S)
  PROVE  /\ AndroidInv' /\ stream' = stream
         /\ \A n \in Android!Launches :
              /\ session'[n].stream = session[n].stream
              /\ session'[n].daemon = "alive" =>
                   session[n].daemon = "alive" /\ \A o \in S : n \notin Android!Terminating(o)
<1>1. stream' = stream /\ forwarded' = forwarded /\ removing' = removing
  BY DEF Android!Killed
<1>2. ASSUME NEW n \in Android!Launches
      PROVE  /\ session'[n] \in Android!SessionType
             /\ session'[n].stream = session[n].stream /\ session'[n].step = session[n].step
             /\ session'[n].socket = session[n].socket
             /\ session'[n].preamble = session[n].preamble
             /\ session'[n].escalation = session[n].escalation
             /\ \/ session'[n].daemon = session[n].daemon
                \/ session[n].daemon = "alive" /\ session'[n].daemon = "dead"
             /\ session'[n].daemon = "alive" => \A o \in S : n \notin Android!Terminating(o)
  <2>1. session[n] \in Android!SessionType
    BY DEF AndroidInv, Android!TypeOK
  <2>2. CASE \E o \in S : n \in Android!Terminating(o)
    <3>1. session'[n] = [session[n] EXCEPT !.daemon = "dead"] /\ session[n].daemon = "alive"
      BY <2>2 DEF Android!Killed, Android!Terminating
    <3> QED
      BY <2>1, <3>1 DEF Android!SessionType
  <2>3. CASE ~\E o \in S : n \in Android!Terminating(o)
    <3>1. session'[n] = session[n]
      BY <2>3 DEF Android!Killed
    <3>2. \A o \in S : n \notin Android!Terminating(o)
      BY <2>3
    <3> QED
      BY <2>1, <3>1, <3>2
  <2> QED
    BY <2>2, <2>3
<1>3. Android!TypeOK'
  <2>1. session' \in [Android!Launches -> Android!SessionType]
    BY <1>2 DEF Android!Killed
  <2> QED
    BY <1>1, <2>1 DEF AndroidInv, Android!TypeOK
<1>4. ASSUME NEW o \in Android!Streams PROVE StreamInv(o)'
  <2>1. StreamInv(o) /\ stream[o].session \in 0..MaxLaunches
    BY DEF AndroidInv, Android!TypeOK, Android!StreamType
  <2>2. stream[o].session # 0 => stream[o].session \in Android!Launches
    BY <2>1, Ticks DEF Android!Launches
  <2> QED
    BY <1>1, <1>2, <2>1, <2>2 DEF StreamInv
<1>5. ASSUME NEW n \in Android!Launches PROVE SessionInv(n)'
  <2>1. SessionInv(n)
    BY DEF AndroidInv
  <2> QED
    BY <1>1, <1>2, <2>1 DEF SessionInv
<1> QED
  BY <1>1, <1>2, <1>3, <1>4, <1>5 DEF AndroidInv

-------------------------------------------------------------------------------
(* StreamManager. *)
LEMMA InitKeeps ==
  Init => StreamsInv
<1> SUFFICES ASSUME Init PROVE StreamsInv
  OBVIOUS
<1>1. Android!TypeOK /\ Ios!TypeOK
  <2>1. /\ 0 \in 0..MaxLaunches /\ 0 \in 0..MaxStreams /\ 0 \in 0..MaxAttempt
        /\ Android!Off \in {Android!Off} \union 0..RestartMax
        /\ Android!Off \in {Android!Off} \union 0..FirstOutput
        /\ Android!Off \in {Android!Off} \union 0..ConnectRetry
        /\ Android!Off \in {Android!Off} \union 0..KillEscalation
    BY Ticks
  <2>2. /\ stream \in [Android!Streams -> Android!StreamType]
        /\ session \in [Android!Launches -> Android!SessionType]
    BY <2>1 DEF Init, Android!Init, Android!StreamType, Android!SessionType, Android!NoSession
  <2>3. /\ Ios!Off \in {Ios!Off} \union 0..RestartMax
        /\ Ios!Off \in {Ios!Off} \union 0..FirstOutput
        /\ Ios!Off \in {Ios!Off} \union 0..KillEscalation
    OBVIOUS
  <2>4. /\ mirror \in [Ios!Streams -> Ios!MirrorType]
        /\ helper \in [Ios!Launches -> Ios!HelperType]
        /\ sent \in [from : 0..MaxLaunches, size : 0..MaxLaunches]
    BY <2>1, <2>3 DEF Init, Ios!Init, Ios!MirrorType, Ios!HelperType, Ios!NoHelper
  <2> QED
    BY <2>2, <2>4 DEF Init, Android!Init, Android!TypeOK, Ios!TypeOK
<1>2. TypeOK
  BY <1>1, Ticks DEF Init, TypeOK
<1>3. AndroidInv
  BY <1>1 DEF Init, Android!Init, AndroidInv, StreamInv, SessionInv, Android!NoSession
<1>4. IosInv
  BY <1>1 DEF Init, Ios!Init, IosInv, MirrorInv, HelperInv, Ios!NoHelper, FramesInOwnSize, Ios!FramesInOwnSize
<1>5. ManagerInv
  <2>1. \A o \in 1..MaxStreams : ~stream[o].isActive /\ ~mirror[o].isActive /\ o # 0
    BY DEF Init, Android!Init, Ios!Init, Android!Streams, Ios!Streams
  <2>2. \A n \in 1..MaxLaunches : session[n].stream = 0 /\ helper[n].stream = 0
    BY DEF Init, Android!Init, Ios!Init, Android!Launches, Ios!Launches, Android!NoSession, Ios!NoHelper
  <2> QED
    BY <2>1, <2>2 DEF Init, ManagerInv
<1>6. AwaitedAreGone
  BY DEF Init, AwaitedAreGone
<1> QED
  BY <1>2, <1>3, <1>4, <1>5, <1>6 DEF StreamsInv

(* The parts of the invariant that follow from the two kinds of streams. *)
LEMMA StreamTypes ==
  ASSUME StreamsInv
  PROVE  /\ Android!Streams = 1..MaxStreams /\ Ios!Streams = 1..MaxStreams
         /\ Android!Launches = 1..MaxLaunches /\ Ios!Launches = 1..MaxLaunches
         /\ \A o \in 1..MaxStreams : stream[o].isActive \in BOOLEAN /\ mirror[o].isActive \in BOOLEAN
         /\ \A n \in 1..MaxLaunches :
              session[n].stream \in 0..MaxStreams /\ helper[n].stream \in 0..MaxStreams
         /\ current \in 0..MaxStreams /\ nextStream \in 1..(MaxStreams + 1)
         /\ MaxStreams \in Nat /\ MaxLaunches \in Nat
BY Ticks DEF StreamsInv, AndroidInv, IosInv, TypeOK, Android!TypeOK, Ios!TypeOK, Android!Streams,
   Ios!Streams, Android!Launches, Ios!Launches, Android!StreamType, Android!SessionType,
   Ios!MirrorType, Ios!HelperType

LEMMA UnchangedIos ==
  ASSUME IosInv, UNCHANGED hvars
  PROVE  IosInv'
BY DEF hvars, IosInv, Ios!TypeOK, MirrorInv, HelperInv, FramesInOwnSize, Ios!FramesInOwnSize

LEMMA UnchangedAndroid ==
  ASSUME AndroidInv, UNCHANGED avars
  PROVE  AndroidInv'
BY DEF avars, AndroidInv, Android!TypeOK, StreamInv, SessionInv

LEMMA StreamStepKeeps ==
  ASSUME StreamsInv, StreamStep \/ Tick
  PROVE  StreamsInv'
<1>1. /\ phase # "exited" /\ phase' = phase
      /\ platform' = platform /\ current' = current /\ nextStream' = nextStream /\ stopped' = stopped
      /\ deadline' \in 0..Grace
      /\ OnAndroid(Android!ANext \/ Android!ATick) \/ OnIos(Ios!HNext \/ Ios!HTick)
  <2>1. CASE StreamStep
    BY <2>1 DEF StreamStep, mvars, OnAndroid, OnIos, StreamsInv, TypeOK
  <2>2. CASE Tick
    BY <2>2, Ticks DEF Tick, OnAndroid, OnIos, StreamsInv, TypeOK
  <2> QED
    BY <2>1, <2>2
<1>2. /\ AndroidInv' /\ IosInv'
      /\ AndroidFrame /\ MirrorFrame
  <2>1. CASE OnAndroid(Android!ANext \/ Android!ATick)
    <3>1. AndroidInv' /\ AndroidFrame
      BY <2>1, AndroidStepKeeps DEF StreamsInv, OnAndroid
    <3> QED
      BY <2>1, <3>1, UnchangedIos DEF StreamsInv, OnAndroid, hvars, MirrorFrame
  <2>2. CASE OnIos(Ios!HNext \/ Ios!HTick)
    <3>1. IosInv' /\ MirrorFrame
      BY <2>2, IosStepKeeps DEF StreamsInv, OnIos
    <3> QED
      BY <2>2, <3>1, UnchangedAndroid DEF StreamsInv, OnIos, avars, AndroidFrame
  <2> QED
    BY <1>1, <2>1, <2>2
<1>3. TypeOK'
  BY <1>1, <1>2 DEF StreamsInv, TypeOK, AndroidInv, IosInv
<1>4. ManagerInv'
  <2>1. /\ \A o \in 1..MaxStreams : /\ stream'[o].isActive = stream[o].isActive
                                    /\ mirror'[o].isActive = mirror[o].isActive
        /\ \A n \in 1..MaxLaunches :
             /\ \/ session'[n].stream = session[n].stream
                \/ session'[n].stream \in 1..MaxStreams /\ stream[session'[n].stream].isActive
             /\ \/ helper'[n].stream = helper[n].stream
                \/ helper'[n].stream \in 1..MaxStreams /\ mirror[helper'[n].stream].isActive
    BY <1>2, StreamTypes DEF AndroidFrame, MirrorFrame
  <2>2. \A o \in 1..MaxStreams : stream[o].isActive \/ mirror[o].isActive => o = current
    BY DEF StreamsInv, ManagerInv
  <2>3. \A n \in 1..MaxLaunches : session'[n].stream < nextStream /\ helper'[n].stream < nextStream
    BY <2>1, <2>2 DEF StreamsInv, ManagerInv
  <2> QED
    BY <1>1, <2>1, <2>3 DEF StreamsInv, ManagerInv
<1>5. AwaitedAreGone'
  BY <1>1 DEF AwaitedAreGone
<1> QED
  BY <1>2, <1>3, <1>4, <1>5 DEF StreamsInv

(* A stream is added to the map, or dropped. *)
LEMMA StartStreamKeeps ==
  ASSUME StreamsInv, StartStream
  PROVE  StreamsInv'
<1>1. PICK o \in 1..MaxStreams : o = nextStream
  BY StreamTypes DEF StartStream
<1>2. /\ phase # "exited" /\ phase' = phase /\ current = 0 /\ current' = o /\ nextStream' = o + 1
      /\ platform' = platform /\ stopped' = stopped /\ deadline' = deadline
      /\ OnAndroid(Android!Start(o)) \/ OnIos(Ios!Start(o))
  BY <1>1 DEF StartStream
<1>3. /\ \A n \in 1..MaxLaunches : session[n].stream < o /\ helper[n].stream < o
      /\ stopped \subseteq 1..MaxStreams /\ \A p \in stopped : p < o
  BY <1>1 DEF StreamsInv, ManagerInv, TypeOK
<1>4. CASE OnAndroid(Android!Start(o))
  <2>1. AndroidInv' /\ OnlyStream(o) /\ stream'[o].isActive
    BY <1>4, AndroidStartKeeps, StreamTypes DEF StreamsInv, OnAndroid
  <2>2. IosInv' /\ mirror' = mirror /\ helper' = helper
    BY <1>4, UnchangedIos DEF StreamsInv, OnAndroid, hvars
  <2>3. ManagerInv'
    <3>1. \A p \in 1..MaxStreams : /\ stream'[p].isActive <=> p = o
                                   /\ ~mirror'[p].isActive
      BY <1>2, <1>4, <2>1, <2>2, StreamTypes DEF OnlyStream, StreamsInv, ManagerInv, OnAndroid
    <3>2. \A n \in 1..MaxLaunches : session'[n].stream < o + 1 /\ helper'[n].stream < o + 1
      BY <1>3, <2>1, <2>2, StreamTypes DEF OnlyStream
    <3>3. current' < nextStream'
      BY <1>2, StreamTypes
    <3>4. \A p \in stopped' : p < nextStream' /\ p # current'
      BY <1>2, <1>3, StreamTypes
    <3>5. platform' = "android"
      BY <1>2, <1>4 DEF OnAndroid
    <3> QED
      BY <1>2, <3>1, <3>2, <3>3, <3>4, <3>5 DEF ManagerInv
  <2> QED
    BY <1>2, <2>1, <2>2, <2>3, StreamTypes
    DEF StreamsInv, TypeOK, AndroidInv, IosInv, AwaitedAreGone
<1>5. CASE OnIos(Ios!Start(o))
  <2>1. IosInv' /\ OnlyMirror(o) /\ mirror'[o].isActive
    <3>1. \A n \in Ios!Launches : helper[n].stream # o
      BY <1>3, StreamTypes
    <3> QED
      BY <1>5, <3>1, IosStartKeeps, StreamTypes DEF StreamsInv, OnIos
  <2>2. AndroidInv' /\ stream' = stream /\ session' = session
    BY <1>5, UnchangedAndroid DEF StreamsInv, OnIos, avars
  <2>3. ManagerInv'
    <3>1. \A p \in 1..MaxStreams : /\ mirror'[p].isActive <=> p = o
                                   /\ ~stream'[p].isActive
      BY <1>2, <1>5, <2>1, <2>2, StreamTypes DEF OnlyMirror, StreamsInv, ManagerInv, OnIos
    <3>2. ASSUME NEW n \in 1..MaxLaunches
          PROVE  session'[n].stream < o + 1 /\ helper'[n].stream < o + 1
      <4>1. session'[n].stream = session[n].stream /\ helper'[n].stream \in {helper[n].stream, o}
        BY <2>1, <2>2, StreamTypes DEF OnlyMirror
      <4>2. /\ session[n].stream < o /\ helper[n].stream < o
            /\ session[n].stream \in 0..MaxStreams /\ helper[n].stream \in 0..MaxStreams
        BY <1>3, StreamTypes
      <4> QED
        BY <4>1, <4>2
    <3>3. current' < nextStream'
      BY <1>2, StreamTypes
    <3>4. \A p \in stopped' : p < nextStream' /\ p # current'
      BY <1>2, <1>3, StreamTypes
    <3>5. platform' = "ios"
      BY <1>2, <1>5 DEF OnIos
    <3> QED
      BY <1>2, <3>1, <3>2, <3>3, <3>4, <3>5 DEF ManagerInv
  <2> QED
    BY <1>2, <2>1, <2>2, <2>3, StreamTypes
    DEF StreamsInv, TypeOK, AndroidInv, IosInv, AwaitedAreGone
<1> QED
  BY <1>2, <1>4, <1>5

LEMMA StopCurrentKeeps ==
  ASSUME StreamsInv, current # 0, StopCurrent
  PROVE  /\ AndroidInv' /\ IosInv'
         /\ \A o \in 1..MaxStreams : ~stream'[o].isActive /\ ~mirror'[o].isActive
         /\ \A n \in 1..MaxLaunches : session'[n].stream < nextStream /\ helper'[n].stream < nextStream
         /\ platform \in {"android", "ios"}
<1>1. PICK o \in 1..MaxStreams : o = current
  BY StreamTypes
<1>2. /\ o < nextStream
      /\ \A p \in 1..MaxStreams : /\ stream[p].isActive <=> platform = "android" /\ p = o
                                  /\ mirror[p].isActive <=> platform = "ios" /\ p = o
      /\ \A n \in 1..MaxLaunches : session[n].stream < nextStream /\ helper[n].stream < nextStream
  BY <1>1 DEF StreamsInv, ManagerInv
<1>3. CASE OnAndroid(Android!Stop(o))
  <2>1. AndroidInv' /\ OnlyStream(o) /\ ~stream'[o].isActive
    BY <1>3, AndroidStopKeeps, StreamTypes DEF StreamsInv, OnAndroid
  <2>2. IosInv' /\ mirror' = mirror /\ helper' = helper /\ platform = "android"
    BY <1>3, UnchangedIos DEF StreamsInv, OnAndroid, hvars
  <2>3. \A p \in 1..MaxStreams : ~stream'[p].isActive /\ ~mirror'[p].isActive
    BY <1>2, <2>1, <2>2, StreamTypes DEF OnlyStream
  <2>4. ASSUME NEW n \in 1..MaxLaunches
        PROVE  session'[n].stream < nextStream /\ helper'[n].stream < nextStream
    <3>1. session'[n].stream \in {session[n].stream, o} /\ helper'[n].stream = helper[n].stream
      BY <2>1, <2>2, StreamTypes DEF OnlyStream
    <3> QED
      BY <1>2, <3>1
  <2> QED
    BY <2>1, <2>2, <2>3, <2>4
<1>4. CASE OnIos(Ios!Stop(o))
  <2>1. IosInv' /\ OnlyMirror(o) /\ ~mirror'[o].isActive
    BY <1>2, <1>4, IosStopKeeps, StreamTypes DEF StreamsInv, OnIos
  <2>2. AndroidInv' /\ stream' = stream /\ session' = session /\ platform = "ios"
    BY <1>4, UnchangedAndroid DEF StreamsInv, OnIos, avars
  <2>3. \A p \in 1..MaxStreams : ~stream'[p].isActive /\ ~mirror'[p].isActive
    BY <1>2, <2>1, <2>2, StreamTypes DEF OnlyMirror
  <2>4. ASSUME NEW n \in 1..MaxLaunches
        PROVE  session'[n].stream < nextStream /\ helper'[n].stream < nextStream
    <3>1. helper'[n].stream \in {helper[n].stream, o} /\ session'[n].stream = session[n].stream
      BY <2>1, <2>2, StreamTypes DEF OnlyMirror
    <3> QED
      BY <1>2, <3>1
  <2> QED
    BY <2>1, <2>2, <2>3, <2>4
<1> QED
  BY <1>1, <1>3, <1>4 DEF StopCurrent

LEMMA StopKeeps ==
  ASSUME StreamsInv, StopStream \/ StopAll
  PROVE  StreamsInv'
<1>1. /\ phase = "running" /\ phase' \in {"running", "stopping"} /\ current' = 0
      /\ platform' = platform /\ nextStream' = nextStream /\ deadline' \in 0..Grace
      /\ stopped' \subseteq 1..MaxStreams /\ stopped' \subseteq stopped \union {current}
      /\ \/ current # 0 /\ StopCurrent
         \/ current = 0 /\ UNCHANGED <<avars, hvars>>
  <2>1. CASE StopStream
    BY <2>1 DEF StopStream, StreamsInv, TypeOK
  <2>2. CASE StopAll
    BY <2>2, StreamTypes, Ticks DEF StopAll, StreamsInv, TypeOK
  <2> QED
    BY <2>1, <2>2
<1>2. /\ AndroidInv' /\ IosInv'
      /\ \A o \in 1..MaxStreams : ~stream'[o].isActive /\ ~mirror'[o].isActive
      /\ \A n \in 1..MaxLaunches : session'[n].stream < nextStream /\ helper'[n].stream < nextStream
  <2>1. CASE current # 0
    BY <1>1, <2>1, StopCurrentKeeps
  <2>2. CASE current = 0
    <3>1. /\ stream' = stream /\ session' = session /\ mirror' = mirror /\ helper' = helper
          /\ AndroidInv' /\ IosInv'
      BY <1>1, <2>2, UnchangedAndroid, UnchangedIos DEF avars, hvars, StreamsInv
    <3> QED
      BY <2>2, <3>1 DEF StreamsInv, ManagerInv
  <2> QED
    BY <2>1, <2>2
<1>3. TypeOK'
  BY <1>1, <1>2, StreamTypes DEF StreamsInv, TypeOK, AndroidInv, IosInv
<1>4. ManagerInv'
  <2>1. 0 < nextStream
    BY StreamTypes
  <2>2. \A o \in 1..MaxStreams : o # 0
    OBVIOUS
  <2> QED
    BY <1>1, <1>2, <2>1, <2>2 DEF ManagerInv, StreamsInv
<1>5. AwaitedAreGone'
  BY <1>1 DEF AwaitedAreGone
<1> QED
  BY <1>2, <1>3, <1>4, <1>5 DEF StreamsInv

(* The agent exits: what a stopped stream still has running is what is killed. *)
LEMMA ExitKeeps ==
  ASSUME StreamsInv, Exit
  PROVE  StreamsInv'
<1>1. /\ phase = "stopping" /\ phase' = "exited"
      /\ platform' = platform /\ current' = current /\ nextStream' = nextStream
      /\ stopped' = stopped /\ deadline' = deadline /\ stopped \subseteq 1..MaxStreams
      /\ OnAndroid(Android!Killed(stopped)) \/ OnIos(Ios!Killed(stopped))
  BY DEF Exit, StreamsInv, ManagerInv, TypeOK
<1>2. \A o \in stopped : o # 0 /\ ~stream[o].isActive /\ ~mirror[o].isActive
  <2>1. \A o \in stopped : o \in 1..MaxStreams /\ o # current
    BY <1>1 DEF StreamsInv, ManagerInv
  <2> QED
    BY <2>1 DEF StreamsInv, ManagerInv
<1>3. CASE OnAndroid(Android!Killed(stopped))
  <2>1. /\ AndroidInv' /\ stream' = stream
        /\ \A n \in 1..MaxLaunches :
             /\ session'[n].stream = session[n].stream
             /\ session'[n].daemon = "alive" =>
                  session[n].daemon = "alive" /\ \A o \in stopped : n \notin Android!Terminating(o)
    BY <1>1, <1>3, AndroidKilledKeeps, StreamTypes DEF StreamsInv, OnAndroid
  <2>2. IosInv' /\ mirror' = mirror /\ helper' = helper
    BY <1>3, UnchangedIos DEF StreamsInv, OnAndroid, hvars
  <2>3. ASSUME NEW o \in stopped, NEW n \in 1..MaxLaunches,
               session'[n].stream = o, session'[n].daemon = "alive"
        PROVE  FALSE
    <3>1. /\ session[n].stream = o /\ session[n].daemon = "alive" /\ n # 0
          /\ n \notin Android!Terminating(o)
      BY <2>1, <2>3
    <3>2. stream[o].session = 0
      BY <1>1, <1>2, StreamTypes DEF StreamsInv, AndroidInv, StreamInv
    <3>3. session[n].escalation # Android!Off
      BY <1>1, <1>2, <3>1, <3>2, StreamTypes DEF StreamsInv, AndroidInv, SessionInv
    <3> QED
      BY <3>1, <3>3, StreamTypes DEF Android!Terminating
  <2>4. AwaitedAreGone'
    BY <1>1, <1>3, <2>3 DEF AwaitedAreGone, Children, OnAndroid
  <2>5. TypeOK' /\ ManagerInv'
    BY <1>1, <2>1, <2>2 DEF StreamsInv, TypeOK, AndroidInv, IosInv, ManagerInv
  <2> QED
    BY <2>1, <2>2, <2>4, <2>5 DEF StreamsInv
<1>4. CASE OnIos(Ios!Killed(stopped))
  <2>1. /\ IosInv' /\ mirror' = mirror
        /\ \A n \in 1..MaxLaunches :
             /\ helper'[n].stream = helper[n].stream
             /\ helper'[n].alive => helper[n].alive /\ n \notin Ios!Surviving(stopped)
    BY <1>1, <1>4, IosKilledKeeps, StreamTypes DEF StreamsInv, OnIos
  <2>2. AndroidInv' /\ stream' = stream /\ session' = session
    BY <1>4, UnchangedAndroid DEF StreamsInv, OnIos, avars
  <2>3. ASSUME NEW o \in stopped, NEW n \in 1..MaxLaunches,
               helper'[n].stream = o, helper'[n].alive
        PROVE  FALSE
    <3>1. /\ helper[n].stream = o /\ helper[n].alive /\ n \notin Ios!Surviving(stopped)
      BY <2>1, <2>3
    <3>2. mirror[o].terminatingChild = n
      BY <1>1, <1>2, <3>1, StreamTypes DEF StreamsInv, IosInv, HelperInv
    <3> QED
      BY <3>1, <3>2 DEF Ios!Surviving
  <2>4. AwaitedAreGone'
    BY <1>1, <1>4, <2>3 DEF AwaitedAreGone, Children, OnIos
  <2>5. TypeOK' /\ ManagerInv'
    BY <1>1, <2>1, <2>2 DEF StreamsInv, TypeOK, AndroidInv, IosInv, ManagerInv
  <2> QED
    BY <2>1, <2>2, <2>4, <2>5 DEF StreamsInv
<1> QED
  BY <1>1, <1>3, <1>4

-------------------------------------------------------------------------------
(* StreamsInv holds in every reachable state. *)
THEOREM StreamsInvariant == Spec => []StreamsInv
<1>1. Init => StreamsInv
  BY InitKeeps
<1>2. StreamsInv /\ [Next]_vars => StreamsInv'
  <2> SUFFICES ASSUME StreamsInv, [Next]_vars PROVE StreamsInv'
    OBVIOUS
  <2>1. CASE StartStream
    BY <2>1, StartStreamKeeps
  <2>2. CASE StopStream \/ StopAll
    BY <2>2, StopKeeps
  <2>3. CASE Exit
    BY <2>3, ExitKeeps
  <2>4. CASE StreamStep \/ Tick
    BY <2>4, StreamStepKeeps
  <2>5. CASE UNCHANGED vars
    <3>1. AndroidInv' /\ IosInv'
      BY <2>5, UnchangedAndroid, UnchangedIos DEF StreamsInv, vars
    <3> QED
      BY <2>5, <3>1 DEF StreamsInv, TypeOK, AndroidInv, IosInv, ManagerInv, AwaitedAreGone,
                        Children, vars, avars, hvars, mvars
  <2> QED
    BY <2>1, <2>2, <2>3, <2>4, <2>5 DEF Next
<1> QED
  BY <1>1, <1>2, PTL DEF Spec

(* Every value stays in the range of its field, the timers' included. *)
THEOREM TypeCorrect == Spec => []TypeOK
<1>1. StreamsInv => TypeOK
  BY DEF StreamsInv
<1> QED
  BY <1>1, StreamsInvariant, PTL

(* No stop, failure or late adb answer leaves a helper or a daemon behind that nobody
   ends. *)
THEOREM NoChildIsForgotten == Spec => []NoChildLeaks
<1>1. StreamsInv => NoChildLeaks
  <2> SUFFICES ASSUME StreamsInv PROVE NoChildLeaks
    OBVIOUS
  <2>1. ASSUME NEW n \in Android!Launches, session[n].daemon = "alive",
               session[n].escalation = Android!Off
        PROVE  Android!Current(n)
    BY <2>1, KnownSession DEF StreamsInv, SessionInv
  <2>2. ASSUME NEW n \in Ios!Launches, helper[n].alive, helper[n].escalation = Ios!Off
        PROVE  mirror[helper[n].stream].isActive /\ mirror[helper[n].stream].child = n
    BY <2>2, KnownHelper DEF StreamsInv, HelperInv
  <2> QED
    BY <2>1, <2>2 DEF NoChildLeaks, Android!NoDaemonLeaks, Ios!NoHelperLeaks
<1> QED
  BY <1>1, StreamsInvariant, PTL

(* A stream in the map always has a timer, a call, a child or a socket whose end it
   will hear of. *)
THEOREM NoStreamIsStuck == Spec => []StreamIsDriven
<1>1. StreamsInv => StreamIsDriven
  <2> SUFFICES ASSUME StreamsInv PROVE StreamIsDriven
    OBVIOUS
  <2>1. Android!StreamIsDriven
    BY DEF StreamsInv, AndroidInv, StreamInv, Android!StreamIsDriven
  <2>2. Ios!StreamIsDriven
    BY DEF StreamsInv, IosInv, MirrorInv, Ios!StreamIsDriven
  <2> QED
    BY <2>1, <2>2 DEF StreamIsDriven
<1> QED
  BY <1>1, StreamsInvariant, PTL

(* A frame goes out in the size that its own helper logged. *)
THEOREM FramesKeepTheirSize == Spec => []FramesInOwnSize
<1>1. StreamsInv => FramesInOwnSize
  BY DEF StreamsInv, IosInv
<1> QED
  BY <1>1, StreamsInvariant, PTL

(* The agent does not exit before the children of the streams that it stopped then,
   although they may ignore SIGTERM. *)
THEOREM ExitWaitsForChildren == Spec => []AwaitedAreGone
<1>1. StreamsInv => AwaitedAreGone
  BY DEF StreamsInv
<1> QED
  BY <1>1, StreamsInvariant, PTL
===============================================================================
