CONSTANTS
    t1 = t1
    t2 = t2
    t3 = t3
    t4 = t4
    NoThread = NoThread
    Threads <- MCThreads
    Size = 2
    CloseOnUnlock = TRUE
    MaxFaults = 1
    MaxAsks = 1
SPECIFICATION FairSpec
INVARIANTS
    TypeOK
    UsersHaveHandles
PROPERTIES
    RefinesPool
    AskersAreServed
CHECK_DEADLOCK FALSE
