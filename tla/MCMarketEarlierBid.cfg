CONSTANTS
    a1 = a1
    a2 = a2
    a3 = a3
    label = label
    data = data
    tok = tok
    usd = usd
    rmb = rmb
    anything = anything
    noname = noname
    Requests <- PlainRequests
    Text <- MCText
    Anything = anything
    NoName = noname
    Names <- Names3
    MaxAsset = 100
    MaxOrders = 4
    MaxTime = 0
    Accounts <- Accounts3
    Coins <- Coins3
    Funds <- Plenty
    Registered <- Accounts3
    QueryLimit = 100
SPECIFICATION MarketSpec
PROPERTIES
    EarlierBidFirst
CHECK_DEADLOCK FALSE
