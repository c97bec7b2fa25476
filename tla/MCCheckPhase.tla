---------------------------- MODULE MCCheckPhase ----------------------------
(* Instance of CheckPhase for TLC. *)
EXTENDS CheckPhase

CONSTANTS p1, p2, p3, w1, w2, w3

(* Two providers share a group, the third is alone; a worker each. *)
ThreeProviders == {p1, p2, p3}
PairAndOne == (p1 :> "A") @@ (p2 :> "A") @@ (p3 :> "B")
OneEach == (w1 :> p1) @@ (w2 :> p2) @@ (w3 :> p3)
ThreeWorkers == {w1, w2, w3}
=============================================================================
