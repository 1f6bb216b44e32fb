\* One job, one request, two buckets, one schedule: every interleaving of
\* jobs, purges, edits, retention and crashes around two PUTs.  No symmetry:
\* PurgeEnds is a liveness property.
SPECIFICATION FairSpec
CONSTANTS
  Schedules = {s1}
  l1 = l1
  k0 = k0
  Locs = {l1, l2}
  Keys = {k0, k1, k2}
  UserObjects <- OneUserObject
  Runners = {r1}
  Purgers = {p1}
  MinPool = 0
  MaxPool = 1
  None = None
INVARIANTS TypeOK UserObjectsKept LedgerExact
PROPERTIES ImplementsOwnedStore DroppedIsGone PurgeEnds
CHECK_DEADLOCK FALSE
