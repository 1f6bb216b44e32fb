----------------------------- MODULE MCMeasures ------------------------------
(* Instances of Measures small enough for TLC. *)
EXTENDS Measures
=============================================================================
