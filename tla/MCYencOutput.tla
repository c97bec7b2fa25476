---------------------------- MODULE MCYencOutput ----------------------------
(* Instance of YencOutput for TLC.                                         *)
EXTENDS YencOutput, TLC

CONSTANTS p1, name, w1, w2

TwoWriters == {w1, w2}
OneSegment == <<p1>>
NameOf == p1 :> name
=============================================================================
