SPECIFICATION FairSpec
CONSTANTS
    NumReqs = 4
    CmdOf <- OrderCmds
    PipeCap = 1
    SockCap = 2
    MaxPush = 1
    Hangups = TRUE
INVARIANTS
    InOrder
    NeverSleepsOnWork
PROPERTIES
    Answered
\* the client may stop sending, and the threads then wait for ever
CHECK_DEADLOCK FALSE
