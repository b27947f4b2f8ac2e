CONSTANTS
  b1 = b1
  Backends = {b1}
  Tokens = {t1}
  Handlers = {h1, h2}
  Target <- MCTarget
  CountBound = 4
  CacheSize = 1
  MaxQueue = 2
  MaxTroubles = 1
SPECIFICATION FairSpec
INVARIANTS ChannelKept  KeptAlive
PROPERTIES LookupReturns StopsForwarding
CHECK_DEADLOCK FALSE
