CONSTANTS
  Controllers = {c1}
  Interval = 2
  Unhealthy = 4
  Delay = 1
  MaxConnections = 2
SPECIFICATION FairSpec
INVARIANTS RegistrationKept NoSpawnOnLost 
PROPERTIES GoneIsOffline
CHECK_DEADLOCK FALSE
