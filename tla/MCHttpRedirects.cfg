\* Two redirects in a row.
SPECIFICATION Spec
CONSTANTS
  MaxRedirects = 2
  Count = 1
  MaxSteps = 1
  Cookies = {c1}
  None = None
INVARIANT FinalUrlIsFinal
CHECK_DEADLOCK FALSE
