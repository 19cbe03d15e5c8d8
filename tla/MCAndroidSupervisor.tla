-------------------------- MODULE MCAndroidSupervisor --------------------------
(* Instances of AndroidSupervisor for TLC. *)
EXTENDS AndroidSupervisor

(* What the last force-stop met is asked until adb has failed, and of devices that have
   a runner, up or on its way: every order comes after a force-stop. *)
Outran == {d \in outran : failures = 0 /\ (d \in runner \/ Ordered(d))}

(* How many instrumentations are on their way; nothing else tells them apart. *)
Orders == [d \in Devices |-> Cardinality({i \in starting : session[i.session].device = d})]

(* Outdated health answers, and exit events that no longer matter, only vanish;
   the age of a session counts until it is ready. *)
Essential ==
  <<[s \in Sessions |-> [session[s] EXCEPT !.age = IF session[s].isReady THEN 0 ELSE @]],
    {p \in procs : p.alive \/ Matters(p)}, {q \in polls : ~Outdated(q)},
    calls, nextPort, freePorts, cooling, forwards, runner, Orders, Outran,
    shutdown, deadline, awaited, failures, late>>

(* After the exit nothing happens, and only CleanExit reads what became of it. *)
Left ==
  <<{p \in procs : p.alive}, runner, Orders, Outran, deadline > 0, failures, late,
    [s \in Sessions |-> session[s].device]>>

EssentialOrLeft == IF shutdown = "exited" THEN Left ELSE Essential
================================================================================
