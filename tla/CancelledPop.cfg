SPECIFICATION CSpec
CONSTANTS
  Threads = {c1, c2}
  Elements = {e1}
  NULL = NULL
  Calls <- PushAndPop
  MaxSpin = 0
  SpuriousWakeups = {}
  TimeoutTakesSignal = FALSE
PROPERTIES
  CancelledPopsEnd
CHECK_DEADLOCK FALSE
