\* One schedule of any kind, with any webhook: every result of every
\* executor.
SPECIFICATION Spec
CONSTANTS
  Schedules = {1}
  Inputs <- AnyHookAndFar
  Requests = {}
  Ticker = ticker
  MinInterval = 1
  DefaultInterval = 2
  DefaultMin = 1
  Horizon = 2
  MaxFaults = 1
  None = None
PROPERTY AlarmsPosted
CHECK_DEADLOCK FALSE
