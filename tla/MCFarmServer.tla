----------------------------- MODULE MCFarmServer -----------------------------
(* Instances of FarmServer for TLC. *)
EXTENDS FarmServer, TLC

(* Requests and viewer sockets are only compared for equality. *)
Interchangeable == Permutations(Requests) \union Permutations(Viewers)
===============================================================================
