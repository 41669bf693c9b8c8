CONSTANTS
  Threads = {t1, t2}
  Guards = {}
  NULL = NULL
  MaxBare = 1
  MaxAsked = 0
  BootTime = 3600
  Limits = {300, 1900}
  LastSecond = 3

SPECIFICATION TSpec
CHECK_DEADLOCK FALSE

INVARIANT TimeoutsAreDue
