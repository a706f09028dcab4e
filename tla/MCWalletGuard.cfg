CONSTANTS
    n1 = n1
    n2 = n2
    w1 = w1
    w2 = w2
    w3 = w3
    Nodes <- MCNodes
    Wallets <- MCWallets
    Jobs <- MCJobs
    MaxFaults = 2
SPECIFICATION FairSpec
INVARIANTS
    TypeOK
    UnlockedIsGuarded
    QuietGuardsWork
PROPERTIES
    JobsEnd
