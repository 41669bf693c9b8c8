CONSTANTS
  Threads = {t1, t2}
  Main = Main
  NULL = NULL
  MaxStarts = 2
  MaxBuffers = 1
  Busy = {t1}
  DestroyFirst = TRUE

SPECIFICATION FairSpec
CHECK_DEADLOCK FALSE

INVARIANTS
  TypeOK
  NoLeak
  NoDangling
  LoggerServes

PROPERTIES
  ThreadsEndInOrder
  CancelledJoinReturns
