SPECIFICATION FairSpec
CONSTANTS
  MaxTerminates = 2
  MaxErrors = 1
INVARIANTS
  Driven
  StartedOnce
  CoherentStates
PROPERTIES
  Settles
CHECK_DEADLOCK FALSE
