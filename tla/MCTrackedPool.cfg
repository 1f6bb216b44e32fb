\* The pool's limits: two concurrent jobs around max_pool_size = 1, with
\* enough keys to overrun it, and a purge request.
SPECIFICATION Spec
CONSTANTS
  Schedules = {s1}
  l1 = l1
  k0 = k0
  Locs = {l1}
  Keys = {k1, k2, k3}
  UserObjects = {}
  Runners = {r1, r2}
  Purgers = {p1}
  MinPool = 0
  MaxPool = 1
  None = None
INVARIANT PoolBounded
SYMMETRY Symmetry
CHECK_DEADLOCK FALSE
