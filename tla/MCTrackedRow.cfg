\* One job, two buckets, no request: a DELETE sent to the bucket of the
\* edited config, then retention.
SPECIFICATION Spec
CONSTANTS
  Schedules = {s1}
  l1 = l1
  k0 = k0
  Locs = {l1, l2}
  Keys = {k0, k1, k2}
  UserObjects <- OneUserObject
  Runners = {r1}
  Purgers = {}
  MinPool = 0
  MaxPool = 1
  None = None
PROPERTY RowOutlivesObject
CHECK_DEADLOCK FALSE
