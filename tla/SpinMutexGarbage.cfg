CONSTANTS
  Threads = {t1, t2}
  NoThread = NoThread
  InitialOwners = {NoThread, t1}

SPECIFICATION Spec
CHECK_DEADLOCK FALSE

INVARIANT OnlyRelockAborts
