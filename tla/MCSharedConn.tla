---------------------------- MODULE MCSharedConn ----------------------------
(* The instance of SharedConn for TLC. *)
EXTENDS SharedConn, TLC

CONSTANTS w1, w2, r1, r2, r3

(* Two workers over two connections, the routines of the first share its *)
(* connection.                                                           *)
TwoWorkers == {w1, w2}
ThreeRoutines == {r1, r2, r3}
TwoAndOne == (r1 :> w1) @@ (r2 :> w1) @@ (r3 :> w2)
TwoAndOneClients == TwoWorkers \cup ThreeRoutines

OneChecker == {r1}
=============================================================================
