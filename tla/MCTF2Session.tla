--------------------------- MODULE MCTF2Session ---------------------------
(* Model-checking instance of TF2Session: three calls of Connect.           *)
EXTENDS TF2Session

CONSTANTS c1, c2, c3
ThreeCalls == {c1, c2, c3}
=============================================================================
