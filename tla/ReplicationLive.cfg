SPECIFICATION FairSpec
CONSTANTS
    NumShards = 2
    Keys = {"ka"}
    Ops = {"set"}
    RingCap = 1
    ChunkLen = 1
    Seeded = {"ka"}
    MaxWrites = 1
    MaxSessions = 3
    MaxLosses = 1
    LossAt = {"startstable", "stable"}
    Restarts = FALSE
    SlowFlows = FALSE
PROPERTY
    CatchesUp
CHECK_DEADLOCK FALSE
