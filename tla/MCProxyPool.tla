---------------------------- MODULE MCProxyPool -----------------------------
(* Instances of ProxyPool for TLC. *)
EXTENDS ProxyPool, TLC

CONSTANTS c1, c2, c3

ThreeClients == {c1, c2, c3}

(* The clients are interchangeable. *)
Symmetry == Permutations(Clients)
=============================================================================
