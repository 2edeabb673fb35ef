------------------------------- MODULE MCPolicy -------------------------------
(* Two peers, each named at most once, and two connections.  They are      *)
(* alike, but the run checks liveness and does without symmetry.           *)
EXTENDS Policy
=============================================================================
