SPECIFICATION Spec
CONSTANTS
    t1 = t1
    t2 = t2
    Own = Own
    NULL = NULL
    deviceTwins <- TwoTwins
    twinType <- Types
    MaxVersion = 3
    MaxDepth = 3
CHECK_DEADLOCK FALSE
INVARIANTS
    MemoryIsSafe
    BorrowedIsLive
    LatestWins
