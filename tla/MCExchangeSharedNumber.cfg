CONSTANTS
    a1 = a1
    a2 = a2
    label = label
    label1 = label1
    data = data
    anything = anything
    noname = noname
    Requests <- OddRequests
    Text <- MCText
    Anything = anything
    NoName = noname
    Names <- MCNames
    MaxAsset = 10
    MaxOrders = 4
    MaxTime = 1
SPECIFICATION Spec
INVARIANTS
    LiveOidsUnique
CHECK_DEADLOCK FALSE
