CONSTANTS
    a1 = a1
    a2 = a2
    a3 = a3
    label = label
    data = data
    tok = tok
    usd = usd
    rmb = rmb
    anything = anything
    noname = noname
    Requests <- PlainRequests
    Text <- MCText
    Anything = anything
    NoName = noname
    Names <- Names3
    MaxAsset = 100000000
    MaxOrders = 4
    MaxTime = 1
    Accounts <- Accounts3
    Coins <- Coins3
    Funds <- Wealth
    Registered <- Accounts3
    QueryLimit = 2
SPECIFICATION FairMarketSpec
INVARIANTS
    BalancesMatchTrades
PROPERTIES
    BestAskFirst
    CrossingOrdersTrade
CHECK_DEADLOCK FALSE
