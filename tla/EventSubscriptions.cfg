SPECIFICATION FairSpec
CONSTANTS
  b1 = b1
  b2 = b2
  c1 = c1
  Backends = {b1, b2}
  Clients = {c1}
  Watched <- MCWatched
  MaxStatus = 2
  MaxEvents = 3
  Limit = 1
  Capacity = 1
  MaxBreaks = 2
INVARIANTS
  SentInOrder
  NothingForgotten
  LiveIsListed
  SeenInOrder
  NoGaps
PROPERTY
  StatusSeen
CHECK_DEADLOCK FALSE
