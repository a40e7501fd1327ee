--------------------------- MODULE MCServiceJobs ---------------------------
(* Model-checking instance of ServiceJobs.                                    *)
EXTENDS ServiceJobs

CONSTANTS c1, c2, c3
ThreeCalls == {c1, c2, c3}
=============================================================================
