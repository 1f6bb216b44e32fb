\* Two pages and a bench of two operations on a file of any earlier release.
SPECIFICATION Spec
CONSTANTS
  Lookups = {p1, p2}
  Bencher = bench
  Users <- PagesAndBench
  LastColumn = 2
  Ips = {ip1}
  Answers = {as1}
  MaxFails = 1
  None = None
  Ops = {o1, o2}
  Concurrency = 1
INVARIANTS TypeOK OpenIsMigrated RefusalBound AskBound TurnPasses BenchObjectsTracked
PROPERTY OnlyRacersReplace
CHECK_DEADLOCK FALSE
