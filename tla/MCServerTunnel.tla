---------------------------- MODULE MCServerTunnel ----------------------------
(* An instance of ServerTunnel for TLC. *)
EXTENDS ServerTunnel
===============================================================================
