CONSTANTS
  Requests = {r1, r2}
  Events = {e1}
  Capacity = 1
  MaxTroubles = 3
SPECIFICATION UnixFairSpec
INVARIANTS AtMostOnce
 
CHECK_DEADLOCK FALSE
