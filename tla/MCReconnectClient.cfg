SPECIFICATION FairSpec
CONSTANTS
  f = f
  g = g
  h = h
  Fiber = {f, g, h}
INVARIANTS
  BackoffCountsFailures
  KeepsTrying
PROPERTIES
  StopWindsDown
  EventuallyConnected
  StopCompletes
CHECK_DEADLOCK FALSE
