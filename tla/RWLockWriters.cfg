CONSTANTS
  Threads = {t1, t2}
  Guards = {g1, g2}
  NULL = NULL
  MaxBare = 0
  MaxAsked = 0

SPECIFICATION Spec

INVARIANT WritersExclude
