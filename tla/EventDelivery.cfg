SPECIFICATION FairSpec
CONSTANTS
  Backends = {b1}
  Reported = {"hard-terminating", "terminated"}
  Durable = TRUE
  MaxEvents = 2
  MaxFaults = 1
  MaxCrashes = 1
INVARIANTS
  AckSafe
PROPERTIES
  MirrorsStatus
  TerminationReported
  CrashedBackendTerminates
