CONSTANTS
  Threads = {t1, t2, t3}
  NoThread = NoThread
  InitialOwners = {NoThread}

SPECIFICATION FairSpec
CHECK_DEADLOCK FALSE

INVARIANTS
  TypeOK
  AssertsHold
  OnlyRelockAborts
  RelockIsCaught

PROPERTIES
  ImplementsLock
  SpinnerGetsIn
