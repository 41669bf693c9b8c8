CONSTANTS
  p1 = p1
  p2 = p2
  c1 = c1
  c2 = c2
  Threads = {p1, p2, c1, c2}
  Elements = {e1, e2}
  NULL = NULL
  Calls <- Roles
  MaxSpin = 2
  SpuriousWakeups = {c1}
  TimeoutTakesSignal = FALSE

SPECIFICATION FairSpec

INVARIANTS
  TypeOK
  LockDiscipline
  OnePlace
  NoLostWakeup

PROPERTIES
  ImplementsAtomicQueue
  PopProgress
  CallsReturn
  TimedPopReturns
