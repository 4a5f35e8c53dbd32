SPECIFICATION Spec
CONSTANTS
    NumShards = 1
    Keys = {"ka"}
    Ops = {"set"}
    RingCap = 1
    ChunkLen = 1
    Seeded = {"ka"}
    MaxWrites = 3
    MaxSessions = 2
    MaxLosses = 2
    LossAt = {"flows", "sync", "load", "startstable", "stable"}
    Restarts = TRUE
    SlowFlows = TRUE
INVARIANTS
    Contiguous
    NothingLeaks
CHECK_DEADLOCK FALSE
