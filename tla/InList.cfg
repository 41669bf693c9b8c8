CONSTANTS
  Elements = {e1, e2, e3, e4, e5}
  NULL = NULL

SPECIFICATION Spec

INVARIANTS
  TypeOK
  Represents
  AssertsHold
  AssertsDetectMisuse

PROPERTY ImplementsFifoList
