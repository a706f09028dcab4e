CONSTANTS
    a1 = a1
    a2 = a2
    a3 = a3
    Accounts <- MCAccounts
    Texts <- MCTexts
    Characters <- MCCharacters
    MaxCalls = 3
SYMMETRY Symmetry
SPECIFICATION Spec
INVARIANTS
    TypeOK
    ReadsBack
    NothingInvented
    GuardGetsAll
CHECK_DEADLOCK FALSE
