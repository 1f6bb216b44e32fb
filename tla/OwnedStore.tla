----------------------------- MODULE OwnedStore -----------------------------
(***************************************************************************)
(* What mtrgraph promises to the owner of a bucket it probes, whatever     *)
(* happens inside it: it stores only objects under names it has just made  *)
(* up, each at most once, and removes only objects under such names.       *)
(***************************************************************************)
CONSTANTS
  Places,   \* <endpoint, bucket> pairs
  Names,    \* object names
  Foreign   \* the objects that were there before

VARIABLES
  store,    \* the objects in the buckets
  minted,   \* the names made up so far
  pending   \* objects named but not stored yet

vars == <<store, minted, pending>>

Init == store = Foreign /\ minted = {} /\ pending = {}

\* A new name, of no object anywhere, is meant for one object.
Mint(l, k) ==
  /\ k \notin minted
  /\ \A m \in Places : <<m, k>> \notin store
  /\ minted' = minted \cup {k}
  /\ pending' = pending \cup {<<l, k>>}
  /\ UNCHANGED store

Store(o) ==
  /\ o \in pending
  /\ store' = store \cup {o}
  /\ pending' = pending \ {o}
  /\ UNCHANGED minted

Abandon(gone) ==
  /\ gone \subseteq pending
  /\ pending' = pending \ gone
  /\ UNCHANGED <<store, minted>>

Remove(o) ==
  /\ o \in store /\ o[2] \in minted
  /\ store' = store \ {o}
  /\ UNCHANGED <<minted, pending>>

Next ==
  \/ \E l \in Places, k \in Names : Mint(l, k)
  \/ \E o \in pending : Store(o)
  \/ \E gone \in SUBSET pending : Abandon(gone)
  \/ \E o \in store : Remove(o)

Spec == Init /\ [][Next]_vars
=============================================================================
