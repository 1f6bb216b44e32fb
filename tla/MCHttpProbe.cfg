\* Every job, a response of every class at every redirect and every step.
SPECIFICATION Spec
CONSTANTS
  MaxRedirects = 2
  Count = 2
  MaxSteps = 3
  Cookies = {c1, c2}
  None = None
INVARIANTS TypeOK SocketsBounded AllOkMeansAll CookiesSent FinalUrlOfShortChains
CHECK_DEADLOCK FALSE
