\* An S3 request the server refuses.
SPECIFICATION Spec
CONSTANTS
  Schedules = {1}
  Inputs <- AnyHook
  Requests = {}
  Ticker = ticker
  MinInterval = 1
  DefaultInterval = 2
  DefaultMin = 1
  Horizon = 2
  MaxFaults = 1
  None = None
PROPERTY HttpErrorsPosted
CHECK_DEADLOCK FALSE
