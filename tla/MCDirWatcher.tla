---------------------------- MODULE MCDirWatcher ----------------------------
(* An instance of DirWatcher for TLC.                                      *)
EXTENDS DirWatcher, TLC

CONSTANTS x, y

TwoNames == {x, y}
=============================================================================
