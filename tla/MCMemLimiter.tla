---------------------------- MODULE MCMemLimiter ----------------------------
(* The instance of MemLimiter for TLC. *)
EXTENDS MemLimiter, TLC

CONSTANTS c1, c2, c3, r1, r2, i1, i2, i3

ThreeLockers == {c1, c2, c3}
TwoReturners == {r1, r2}
ThreeItems == {i1, i2, i3}
=============================================================================
