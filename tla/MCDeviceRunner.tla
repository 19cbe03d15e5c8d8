---------------------------- MODULE MCDeviceRunner ----------------------------
(* Instances of DeviceRunner for TLC. *)
EXTENDS DeviceRunner
===============================================================================
