----------------------------- MODULE FarmDevices -----------------------------
(***************************************************************************)
(* The devices of the farm, which the server's registry and the clients of *)
(* its API talk about.                                                     *)
(***************************************************************************)
CONSTANTS
  Devices    \* device ids (rows the registry's table may come to hold)
==============================================================================
