CONSTANTS
  Backends = {b1}
  Loops = {l1, l2}
  CountBound = 4
  VisitInterval = 1
  WireDelay = 1
  Limits <- MCLimits
  BatchSize = 1
  MaxOpen = 1
SPECIFICATION SweepFairSpec
INVARIANTS ConnectedNotIdle
PROPERTIES IdleEnds ExpiredEnds
CHECK_DEADLOCK FALSE
