-------------------------- MODULE MCTrackedObjects --------------------------
(* Instances of TrackedObjects small enough for TLC. *)
EXTENDS TrackedObjects, TLC

CONSTANTS l1, k0

\* One object of the user, with a key that no PUT of ours should draw.
OneUserObject == {<<l1, k0>>}

\* Keys are drawn, not chosen, and nothing tells one thread from another.
Symmetry == Permutations(Keys \ {k0}) \cup Permutations(Runners)
=============================================================================
