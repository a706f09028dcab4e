CONSTANTS
    Queries <- MCQueries
    MaxCalls = 2
    MaxFaults = 3
SPECIFICATION Spec
INVARIANTS
    TypeOK
    FailedLeavesNothing
    CleanForNextUser
    KeptTogether
PROPERTIES
    CommitsInOwnCall
    SucceededIsKept
