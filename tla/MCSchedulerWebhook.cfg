\* A webhook URL without a scheme.
SPECIFICATION Spec
CONSTANTS
  Schedules = {1}
  Inputs <- AnyHook
  Requests = {}
  Ticker = ticker
  MinInterval = 1
  DefaultInterval = 2
  DefaultMin = 1
  Horizon = 2
  MaxFaults = 1
  None = None
PROPERTY WebhookHarmless
CHECK_DEADLOCK FALSE
