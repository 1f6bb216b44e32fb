---------------------------- MODULE MCSharedFile -----------------------------
(* Instances of SharedFile small enough for TLC. *)
EXTENDS SharedFile

PagesAndBench == Lookups \cup {Bencher}
=============================================================================
