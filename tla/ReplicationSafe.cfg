SPECIFICATION Spec
CONSTANTS
    NumShards = 1
    Keys = {"ka", "kb"}
    Ops = {"set", "del"}
    RingCap = 2
    ChunkLen = 1
    Seeded = {"ka", "kb"}
    MaxWrites = 3
    MaxSessions = 3
    MaxLosses = 1
    LossAt = {"startstable", "stable"}
    Restarts = FALSE
    SlowFlows = FALSE
INVARIANTS
    TypeOK
    
CHECK_DEADLOCK FALSE
