CONSTANTS
  Threads = {t1, t2}
  Main = Main
  NULL = NULL
  MaxStarts = 1
  MaxBuffers = 0
  Busy = {}
  DestroyFirst = TRUE

SPECIFICATION Spec
CHECK_DEADLOCK FALSE

INVARIANT NotEveryThreadPrints
