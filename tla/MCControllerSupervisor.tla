------------------------ MODULE MCControllerSupervisor ------------------------
(* Instances of ControllerSupervisor for TLC. *)
EXTENDS ControllerSupervisor
===============================================================================
