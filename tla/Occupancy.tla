------------------------------ MODULE Occupancy ------------------------------
(***************************************************************************)
(* What the farm promises about exclusive use of a device, seen from the   *)
(* occupation generations (the occupantId handed out by POST /occupy): a   *)
(* generation is issued at most once, on one device that no other live     *)
(* generation holds, and once it has ended it never becomes live again.    *)
(* Nothing here says why an occupation ends; DeviceRegistry implements it. *)
(***************************************************************************)
CONSTANTS
  Devices,       \* the devices of the farm
  Generations,   \* the identifiers an occupation can be given
  Unissued,      \* lease of a generation nobody was given yet; not a device
  Ended          \* lease of a generation that is over for good; not a device

VARIABLE lease   \* generation -> Unissued, Ended, or the device it holds

Live == {g \in Generations : lease[g] \in Devices}

Init == lease = [g \in Generations |-> Unissued]

(* A free device is given to a generation never used before. *)
Grant(g, d) ==
  /\ lease[g] = Unissued
  /\ \A h \in Generations : lease[h] # d
  /\ lease' = [lease EXCEPT ![g] = d]

(* Some live occupations end together (a sweep may end several). *)
End(G) ==
  /\ G # {}
  /\ G \subseteq Live
  /\ lease' = [g \in Generations |-> IF g \in G THEN Ended ELSE lease[g]]

Next ==
  \/ \E g \in Generations, d \in Devices : Grant(g, d)
  \/ \E G \in SUBSET Generations : End(G)

Spec == Init /\ [][Next]_lease
==============================================================================
