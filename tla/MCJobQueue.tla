----------------------------- MODULE MCJobQueue -----------------------------
(* An instance of JobQueue for TLC.                                        *)
EXTENDS JobQueue, TLC

CONSTANTS h1, h2

TwoHandlers == {h1, h2}
OneUploader == {h1}
=============================================================================
