SPECIFICATION FairSpec
CONSTANTS
    Proxies = {p1, p2}
    Ids = {v1, v2, v3}
    LeaseTime = 4
    Propagation = 1
    LockSleep = 4
    FailureSleep = 2
    MaxTroubles = 3
INVARIANTS ResponsesMatch Undisturbed
PROPERTIES Certified
