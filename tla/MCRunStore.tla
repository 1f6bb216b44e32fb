----------------------------- MODULE MCRunStore ------------------------------
(* Instances of RunStore small enough for TLC. *)
EXTENDS RunStore

TwoParts == {{1, 2}}
=============================================================================
