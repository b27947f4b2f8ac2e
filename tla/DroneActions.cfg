SPECIFICATION FairSpec
CONSTANTS
  Backends = {b1}
  Tasks = {t1, t2}
  PendingLimit = 2
  MaxTerminates = 1
  MaxFaults = 1

  
  
PROPERTIES
  ActionsDelivered
