SPECIFICATION FairSpec
CONSTANTS
    ka = ka  kb = kb  kc = kc
    w1 = w1  w2 = w2  t1 = t1  t2 = t2  t3 = t3  x = x
    NoReq = NoReq
    NumShards = 2
    Keys <- MCKeys
    ShardOf <- MCShardOf
    Reqs <- LockReqs
    OpOf <- LockOps
INVARIANTS
    ShardFifo
    LockInv
PROPERTIES
    Isolation
    EveryRequestAnswered
\* clients may stop sending, and the threads then wait for ever
CHECK_DEADLOCK FALSE
