\* A job, its MTR thread, a daemon, a command, retention, deletions, a page and
\* an edit of the schedule around any two measurements; one failed session.
SPECIFICATION FairSpec
CONSTANTS
  Kinds = {"mtr", "http", "s3", "tx"}
  Jobs = {j1}
  Daemons = {d1}
  Commands = {c1}
  Autos = {a1}
  Sweeper = sweeper
  Readers = {r1}
  Schedules = {s1}
  Findings <- TwoParts
  MaxRuns = 2
  MaxFaults = 1
  None = None
INVARIANTS TypeOK WholeRuns PageConsistent LastRunOwn JudgedByEarlier
PROPERTIES ImplementsRunLog OldRunsGo
CHECK_DEADLOCK FALSE
