CONSTANTS
    a1 = a1
    a2 = a2
    a3 = a3
    label = label
    data = data
    tok = tok
    usd = usd
    rmb = rmb
    anything = anything
    noname = noname
    Requests <- MixedRequests
    Text <- MCText
    Anything = anything
    NoName = noname
    Names <- Names3
    MaxAsset = 100
    MaxOrders = 4
    MaxTime = 0
    Accounts <- Accounts2
    Coins <- Coins3
    Funds <- ShortFunds
    Registered <- Accounts2
    QueryLimit = 2
SPECIFICATION MarketSpec
INVARIANTS
    MarketTypeOK
    LiveOidsUnique
    DealsHonourQuantities
    LimitsHonouredInMoney
PROPERTIES
    BestBidFirst
CHECK_DEADLOCK FALSE
