CONSTANTS
  Threads = {t1, t2}
  Guards = {g1, g2, g3}
  NULL = NULL
  MaxBare = 1
  MaxAsked = 1

SPECIFICATION Spec

INVARIANTS
  TypeOK
  GuardsMatchLock
  ScopesExclude
  OutsideOwners
