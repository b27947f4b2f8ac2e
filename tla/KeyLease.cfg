SPECIFICATION Spec
CONSTANTS
  d1 = d1
  d2 = d2
  Keys = {k1}
  Backends = {b1, b2}
  Drones = {d1, d2}
  Connectors = {c1}
  None = None
  Offset <- MCOffset
  KEY_LEASE_RENEW_AFTER = 1
  KEY_LEASE_SOFT_TERMINATE_AFTER = 2
  KEY_LEASE_HARD_TERMINATE_AFTER = 3
  KEY_LEASE_EXPIRATION = 4
  MaxStaleness = 1
  MaxInFlight = 1
  MaxRespawns = 0
  KillLatency = 1
  MaxTime = 5
  MaxCrashes = 1
INVARIANTS
  LeaseExclusion
  RunningExclusion
PROPERTY
  KeyTakenSafely
SYMMETRY Symmetry
