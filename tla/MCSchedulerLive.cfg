\* Who keeps running: two schedules, three inputs (one can be dated, one
\* cannot, one is refused), a run-now or toggle request whose writes are stale,
\* and a failed session or a process death.
SPECIFICATION FairSpec
CONSTANTS
  Schedules = {1, 2}
  Inputs <- NearFarAndRefused
  Requests = {q1}
  Ticker = ticker
  MinInterval = 1
  DefaultInterval = 2
  DefaultMin = 1
  Horizon = 2
  MaxFaults = 1
  None = None
VIEW View
INVARIANTS TypeOK LateRunBound
PROPERTIES Paced EnabledKeepRunning
CHECK_DEADLOCK FALSE
