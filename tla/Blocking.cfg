SPECIFICATION FairSpec
CONSTANTS
    c1 = c1  c2 = c2  c3 = c3
    Key = {"a", "b"}
    MaxInt = 19
    MaxDeadline = 8
    SecMs = 2
    SeqRange = 2
    MaxMs = 6
    NodeMax = 2
    Conns <- MCConns
    ShardOf <- MCShardOf
    Workloads <- MCWorkloads
INVARIANTS
    TypeOK
    AskedOnce
    HandedOutOnce
    
PROPERTIES
    TurnsKept
    WaitsEnd
\* clients may stop asking
CHECK_DEADLOCK FALSE
