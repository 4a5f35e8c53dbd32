SPECIFICATION FairSpec
CONSTANTS
    c1 = c1  c2 = c2  ka = ka  kb = kb
    Conns <- MCConns
    Keys <- MCKeys
    NumShards = 2
    ShardOf <- MCShardOf
    NumDbs = 2
    Channels = {"x", "y"}
    Workloads <- MCWorkloads
INVARIANTS
    TypeOK
    WatchHonoured
    
    SubscribersAgree
    
PROPERTIES
    RequestsAnswered
\* clients may stop sending
CHECK_DEADLOCK FALSE
