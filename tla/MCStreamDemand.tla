---------------------------- MODULE MCStreamDemand ----------------------------
(* Instances of StreamDemand for TLC. *)
EXTENDS StreamDemand, TLC

CONSTANTS a1, a2, d1

(* Two hosts that both discover the same device. *)
TwoHosts == (a1 :> {d1}) @@ (a2 :> {d1})
===============================================================================
