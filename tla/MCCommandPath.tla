---------------------------- MODULE MCCommandPath -----------------------------
(* Instances of CommandPath for TLC. *)
EXTENDS CommandPath, TLC

CONSTANTS a1, d1

(* One host with one device plugged in. *)
OneHost == (a1 :> {d1})

(* Requests are only compared for equality; so are the sockets. *)
Interchangeable == Permutations(Requests) \union Permutations(Connections)

(* No step and no property of the run looks at the wording of an answer, or at
   the socket a waiting command came on: states that differ in these alone are
   the same to it. *)
Essential ==
  <<status, agentOf, occupant, heartbeatAge, idleAge, nextGen, agentSocket, peer, open,
    capabilities, pending, {r \in Requests : answer[r] = "unused"}, crashes,
    link, wire, results, occupations, running, newest, revoked,
    [a \in Agents |-> [d \in Devices |-> [i \in DOMAIN queue[a][d] |->
       <<queue[a][d][i].req, queue[a][d][i].gen, queue[a][d][i].age>>]]]>>
===============================================================================
