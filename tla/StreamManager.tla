----------------------------- MODULE StreamManager -----------------------------
(***************************************************************************)
(* The mirroring of an agent: StreamManager keeps one stream per           *)
(* discovered device, of the kind its platform needs, stops it when the    *)
(* device is gone, and at the shutdown of the agent waits for the children *)
(* of the streams it stopped then.                                         *)
(*                                                                         *)
(* One device that comes and goes; a device that was lost and found gets a *)
(* new stream object while the old one is still being torn down.           *)
(***************************************************************************)
EXTENDS Integers, FiniteSets

CONSTANTS
  RestartBase, RestartMax, KillEscalation, FirstOutput, ConnectRetry, Grace,  \* ticks
  MaxAttempt,
  MaxStreams, MaxLaunches  \* bounds: stream objects, and launches of all of them

ASSUME StreamManagerAssumption ==
  /\ {RestartBase, RestartMax, KillEscalation, FirstOutput, ConnectRetry, Grace,
      MaxStreams, MaxLaunches} \subseteq Nat \ {0}
  /\ MaxAttempt \in Nat /\ RestartBase * 2^MaxAttempt >= RestartMax

(* Doubling never shrinks a delay: true for every base, and stated because no
   prover at hand does the induction on the exponent. *)
ASSUME DelaysGrow == \A i \in 0..MaxAttempt : RestartBase <= RestartBase * 2^i

VARIABLES
  stream, session, forwarded, removing,     \* AndroidStream
  mirror, helper, sent,                     \* H264Stream
  platform,    \* of the device
  current,     \* the stream in the map, or 0
  nextStream,
  stopped,     \* the streams that stopAll stopped
  phase,       \* "running", "stopping" (awaitTermination), "exited"
  deadline     \* of awaitTermination, ticks left

Android == INSTANCE AndroidStream
Ios == INSTANCE H264Stream

avars == <<stream, session, forwarded, removing>>
hvars == <<mirror, helper, sent>>
mvars == <<platform, current, nextStream, stopped, phase, deadline>>
vars == <<avars, hvars, mvars>>

TypeOK ==
  /\ Android!TypeOK /\ Ios!TypeOK
  /\ platform \in {"android", "ios"}
  /\ current \in 0..MaxStreams /\ nextStream \in 1..(MaxStreams + 1)
  /\ stopped \subseteq 1..MaxStreams
  /\ phase \in {"running", "stopping", "exited"} /\ deadline \in 0..Grace

Init ==
  /\ Android!Init /\ Ios!Init
  /\ platform \in {"android", "ios"}
  /\ current = 0 /\ nextStream = 1 /\ stopped = {}
  /\ phase = "running" /\ deadline = Grace

-------------------------------------------------------------------------------
OnAndroid(A) == platform = "android" /\ A /\ UNCHANGED hvars
OnIos(A) == platform = "ios" /\ A /\ UNCHANGED avars

MayLaunch == IF platform = "android" THEN Android!MayLaunch ELSE Ios!MayLaunch

(* syncAlwaysOn with the device discovered: the factory makes a new stream.  A discovery
   that was under way at the shutdown comes here as well: main.ts does not look again. *)
StartStream ==
  /\ phase # "exited"
  /\ current = 0 /\ nextStream <= MaxStreams /\ MayLaunch
  /\ OnAndroid(Android!Start(nextStream)) \/ OnIos(Ios!Start(nextStream))
  /\ current' = nextStream /\ nextStream' = nextStream + 1
  /\ UNCHANGED <<platform, stopped, phase, deadline>>

StopCurrent == OnAndroid(Android!Stop(current)) \/ OnIos(Ios!Stop(current))

(* syncAlwaysOn without it.  Only one discovery can return after stopAll, and the stream
   it finds in the map is the one it has just started. *)
StopStream ==
  /\ phase = "running"
  /\ current # 0
  /\ StopCurrent
  /\ current' = 0
  /\ UNCHANGED <<platform, nextStream, stopped, phase, deadline>>

(* stopAll *)
StopAll ==
  /\ phase = "running"
  /\ phase' = "stopping" /\ deadline' = Grace
  /\ IF current = 0 THEN UNCHANGED <<avars, hvars>> ELSE StopCurrent
  /\ stopped' = {current} \ {0} /\ current' = 0
  /\ UNCHANGED <<platform, nextStream>>

Awaited(o) == IF platform = "android" THEN Android!Awaited(o) ELSE Ios!Awaited(o)

(* awaitTermination: all stopped streams are done, or their deadline is over and
   what is left is killed.  Then process.exit. *)
Exit ==
  /\ phase = "stopping"
  /\ (\A o \in stopped : Awaited(o)) \/ deadline = 0
  /\ phase' = "exited"
  /\ OnAndroid(Android!Killed(stopped)) \/ OnIos(Ios!Killed(stopped))
  /\ UNCHANGED <<platform, current, nextStream, stopped, deadline>>

StreamStep ==
  /\ phase # "exited"
  /\ OnAndroid(Android!ANext) \/ OnIos(Ios!HNext)
  /\ UNCHANGED mvars

Tick ==
  /\ phase # "exited"
  /\ phase = "stopping" => deadline > 0
  /\ OnAndroid(Android!ATick) \/ OnIos(Ios!HTick)
  /\ deadline' = IF phase = "stopping" THEN deadline - 1 ELSE deadline
  /\ UNCHANGED <<platform, current, nextStream, stopped, phase>>

Next == StartStream \/ StopStream \/ StopAll \/ Exit \/ StreamStep \/ Tick

Spec == Init /\ [][Next]_vars

-------------------------------------------------------------------------------
(* A helper or daemon that runs belongs to the stream in the map, or is going to be
   killed: no stop, failure or late adb answer leaves one behind that nobody ends. *)
NoChildLeaks == Android!NoDaemonLeaks /\ Ios!NoHelperLeaks

(* A stream in the map never waits for nothing: there is a timer, a call, or a child or
   socket whose end it will hear of (launch, scheduleRestart, the deadlines and the
   close and exit handlers hand over to each other). *)
StreamIsDriven == Android!StreamIsDriven /\ Ios!StreamIsDriven

(* A frame goes out in the size that its own helper logged: what an earlier helper left
   in its pipes is not shown in the size of the next, nor the other way round. *)
FramesInOwnSize == Ios!FramesInOwnSize

(* When the agent is gone, so are the children of the streams that were in the map when
   it was told to stop, although they may ignore SIGTERM. *)
Children(o) ==
  IF platform = "android"
  THEN {n \in 1..MaxLaunches : session[n].stream = o /\ session[n].daemon = "alive"}
  ELSE {n \in 1..MaxLaunches : helper[n].stream = o /\ helper[n].alive}
AwaitedAreGone == phase = "exited" => \A o \in stopped : Children(o) = {}

(* When the agent is gone, so are all children of its streams. *)
NoOrphans == phase = "exited" => \A o \in 1..MaxStreams : Children(o) = {}
===============================================================================
