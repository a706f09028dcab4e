------------------------------- MODULE Market -------------------------------
(***************************************************************************)
(* The exchange contract together with the matcher of data_exchange_plugin *)
(* and the balances kept by eosio.token. Every 50 ms the matcher reads the *)
(* best orders of both tables, picks one buy and one sell order, and       *)
(* pushes one transaction: pay the seller, deliver the token if a token is *)
(* traded, call mlmto. The plugin runs on the thread that applies blocks,  *)
(* so nothing comes between its queries and its transaction.               *)
(*                                                                         *)
(* mlmto needs the signature of mis.exchange, which only the matcher's     *)
(* wallets give: here it is never called but by the matcher.               *)
(***************************************************************************)
EXTENDS Exchange, SequencesExt

CONSTANTS
    Accounts,
    Coins,      \* the tokens known to eosio.token, currencies included
    Funds,      \* initial balances, a function on Accounts \X Coins
    Registered, \* accounts whose wallet passwords the matcher can read
    QueryLimit  \* rows that a table query returns at most

\* The matcher names a commodity of the two orders to mlmto; neither "*" nor ""
\* is the symbol of a token. No order here is for less than nothing: the clients
\* in assist/ send none, though lmto would take it.
ASSUME MarketAssumption ==
    /\ Funds \in [Accounts \X Coins -> Nat]
    /\ \A r \in Requests :
          /\ r.consigner \in Accounts
          /\ r.commodity \in Names
          /\ r.amount \in Nat
          /\ r.price \in [amount : Nat, symbol : Coins]
    /\ {Anything, NoName} \cap Coins = {}
    /\ QueryLimit \in Nat \ {0}

VARIABLES
    balance,    \* balances kept by eosio.token
    running     \* is the node, and with it the matcher's timer, running?

marketVars == <<vars, balance, running>>

-----------------------------------------------------------------------------
(* What the matcher reads *)

\* Index byprice of buyer read backwards: the highest price first and, at one
\* price, the order placed last. Prices are compared as bare numbers.
BidBeforeIfCheaper(j, k) ==
    LET p == buyer[j].request.price.amount
        q == buyer[k].request.price.amount
    IN  p < q \/ (p = q /\ j > k)

BidBefore(j, k) ==
    LET p == buyer[j].request.price.amount
        q == buyer[k].request.price.amount
    IN  p > q \/ (p = q /\ j > k)

\* Index byprice of seller read forwards: the lowest price first and, at one
\* price, the order placed first.
AskBeforeIfLater(j, k) ==
    LET p == seller[j].request.price.amount
        q == seller[k].request.price.amount
    IN  p < q \/ (p = q /\ j > k)

AskBefore(j, k) ==
    LET p == seller[j].request.price.amount
        q == seller[k].request.price.amount
    IN  p < q \/ (p = q /\ j < k)

FirstRows(keys, Before(_, _)) ==
    {k \in keys : Cardinality({j \in keys : Before(j, k)}) < QueryLimit}

BuyerRows  == FirstRows(DOMAIN buyer, BidBefore)
SellerRows == FirstRows(DOMAIN seller, AskBefore)

First(rows, Before(_, _)) == CHOOSE k \in rows : \A j \in rows \ {k} : Before(k, j)
Final(rows, Before(_, _)) == CHOOSE k \in rows : \A j \in rows \ {k} : Before(j, k)

Consigner(order) == order.request.consigner

\* The loop that steps over orders of one account: the best buy order meets
\* the first sell order of another account. If there is none, the sell order
\* stays at the last row read while the loop runs through the buy orders.
Picked ==
    LET best   == First(BuyerRows, BidBefore)
        others == {s \in SellerRows : Consigner(seller[s]) # Consigner(buyer[best])}
        rivals == {b \in BuyerRows :
                      \A s \in SellerRows : Consigner(buyer[b]) # Consigner(seller[s])}
    IN  CASE others # {} -> <<best, First(others, AskBefore)>>
          [] others = {} /\ rivals # {} ->
                <<First(rivals, BidBefore), Final(SellerRows, AskBefore)>>
          [] OTHER ->
                <<Final(BuyerRows, BidBefore), Final(SellerRows, AskBefore)>>

-----------------------------------------------------------------------------
(* The transaction *)

\* The matcher computes the price from the row of the seller's commodity.
PaidPriceNotCapped(bid, ask) == DealPriceNotCapped(ask.commodity, bid, ask)

PaidPrice(bid, ask) == DealPrice(ask.commodity, bid, ask)

\* The price is added up once per unit, and once if there is no unit at all.
TotalOnceMore(price, quantity) == price.amount * (quantity + 1)

Total(price, quantity) ==
    price.amount * (IF quantity > 0 THEN quantity ELSE 1)

\* The quantity delivered goes through a float, combine_asset's parameter: 24
\* significant bits, ties to the even side. Units up to 64 do below 2^30.
FloatUnit(quantity) ==
    Min({u \in {1, 2, 4, 8, 16, 32, 64} : quantity \div u < 16777216})

Delivered(quantity) ==
    LET unit == FloatUnit(quantity)
        rest == quantity % unit
        down == quantity - rest
    IN  IF 2 * rest > unit \/ (2 * rest = unit /\ (down \div unit) % 2 = 1)
        THEN down + unit ELSE down

TokenName(bid, ask) ==
    IF bid.commodity = Anything THEN ask.commodity ELSE bid.commodity

\* The name that the matcher passes to mlmto.
TradedName(bid, ask) ==
    IF TokenName(bid, ask) \in Coins THEN TokenName(bid, ask) ELSE bid.commodity

Transfer(from, to, coin, amount, funds) ==
    [funds EXCEPT ![<<from, coin>>] = @ - amount, ![<<to, coin>>] = @ + amount]

\* eosio.token refuses an empty transfer and an overdrawn balance.
CanTransfer(from, coin, amount, funds) ==
    amount > 0 /\ amount <= funds[<<from, coin>>]

Settlement(b, s) ==
    LET bid      == buyer[b].request
        ask      == seller[s].request
        quantity == Matched(buyer[b], seller[s])
        price    == PaidPrice(bid, ask)
        total    == Total(price, quantity)
        token    == TokenName(bid, ask)
        paid     == Transfer(bid.consigner, ask.consigner, price.symbol, total, balance)
    IN  /\ CanTransfer(bid.consigner, price.symbol, total, balance)
        /\ IF token \in Coins
           THEN /\ CanTransfer(ask.consigner, token, Delivered(quantity), paid)
                /\ balance' = Transfer(ask.consigner, bid.consigner, token,
                                       Delivered(quantity), paid)
           ELSE balance' = paid
        /\ MatchLimitOrder(buyer[b].oid, seller[s].oid, TradedName(bid, ask))

-----------------------------------------------------------------------------
(* The matcher's tick *)

DealConditionsStrictly(b, s) ==
    /\ seller[s].request.price.amount < buyer[b].request.price.amount
    /\ Consigner(seller[s]) # Consigner(buyer[b])

DealConditions(b, s) ==
    /\ Leq(seller[s].request.price, buyer[b].request.price)
    /\ Consigner(seller[s]) # Consigner(buyer[b])
    /\ seller[s].stat = Open
    /\ buyer[b].stat = Open

\* An exception that none of the catch clauses of the tick names: assets of
\* different symbols compared, or a signature that no open wallet can give.
Escapes(b, s) ==
    LET bid == buyer[b].request
        ask == seller[s].request
    IN  \/ ask.price.symbol # bid.price.symbol
        \/ /\ DealConditions(b, s)
           /\ \/ /\ ask.commodity \in DOMAIN matched_price
                 /\ matched_price[ask.commodity].symbol # ask.price.symbol
              \/ ~ {bid.consigner, ask.consigner} \subseteq Registered

OnPicked(Do(_, _)) ==
    /\ running
    /\ DOMAIN buyer # {} /\ DOMAIN seller # {}
    /\ \E pick \in {Picked} : Do(pick[1], pick[2])

\* A tick whose transaction is applied. One whose transaction is refused
\* leaves no trace: the matcher does not look at the result.
TickTrades ==
    OnPicked(LAMBDA b, s :
        /\ ~ Escapes(b, s)
        /\ DealConditions(b, s)
        /\ Settlement(b, s)
        /\ UNCHANGED running)

\* The exception leaves the timer's handler and ends the node.
TickEndsNode ==
    OnPicked(LAMBDA b, s :
        /\ Escapes(b, s)
        /\ running' = FALSE
        /\ UNCHANGED <<vars, balance>>)

\* The timer is the only state that the plugin loses.
RestartNode ==
    /\ ~ running
    /\ running' = TRUE
    /\ UNCHANGED <<vars, balance>>

-----------------------------------------------------------------------------
MarketInit ==
    /\ Init
    /\ balance = Funds
    /\ running = TRUE

\* Other nodes serve the users, too.
UserSteps ==
    /\ \/ \E r \in Requests : LimitOrder(r)
       \/ \E oid \in LiveOids : CancelLimitOrder(oid)
       \/ NextBlock
    /\ UNCHANGED <<balance, running>>

Tick == TickTrades \/ TickEndsNode

MarketNext == UserSteps \/ Tick \/ RestartNode

MarketSpec == MarketInit /\ [][MarketNext]_marketVars

\* The timer is armed again before anything else is done in a tick.
FairMarketSpec == MarketSpec /\ WF_marketVars(Tick)

-----------------------------------------------------------------------------
(* Properties *)

\* Nothing is out of range, balances included.
MarketTypeOK ==
    /\ TypeOK
    /\ balance \in [Accounts \X Coins -> Nat]
    /\ running \in BOOLEAN

\* What a trade moves from the buyer to the seller at a price: so many of the
\* price's currency, and the token the other way.
Worth(trade, price, coin) ==
    (IF price.symbol = coin THEN trade.amount * price.amount ELSE 0)
        - (IF trade.commodity = coin THEN trade.amount ELSE 0)

\* What an account gains in a coin by a trade in which it sells at one price
\* and buys at another.
Gain(a, coin, trade, sold, bought) ==
    (IF trade.ask.consigner = a THEN Worth(trade, sold, coin) ELSE 0)
        - (IF trade.bid.consigner = a THEN Worth(trade, bought, coin) ELSE 0)

GainAtPrice(a, coin, trade) == Gain(a, coin, trade, trade.price, trade.price)

GainAtLimits(a, coin, trade) ==
    Gain(a, coin, trade, trade.ask.price, trade.bid.price)

\* What eosio.token holds is what ctoc says was traded: each account paid and
\* received the price of every one of its trades and its token, nothing else.
BalancesMatchTrades ==
    \A a \in Accounts, coin \in Coins :
        balance[<<a, coin>>] =
            Funds[<<a, coin>>]
              + SumOf([i \in DOMAIN matched_order |-> GainAtPrice(a, coin, matched_order[i])])

\* Whichever price the matcher computes, no account ends up with less than
\* its own limit prices allow for what it traded.
LimitsHonouredInMoney ==
    \A a \in Accounts, coin \in Coins :
        balance[<<a, coin>>] >=
            Funds[<<a, coin>>]
              + SumOf([i \in DOMAIN matched_order |-> GainAtLimits(a, coin, matched_order[i])])

NewTrade == Len(matched_order') > Len(matched_order)

TradedBid == CHOOSE b \in DOMAIN buyer : buyer[b].oid = Last(matched_order').buyer_oid
TradedAsk == CHOOSE s \in DOMAIN seller : seller[s].oid = Last(matched_order').seller_oid

\* Could these two orders trade, as far as the contract is concerned?
Crossing(b, s) == Compatible(buyer[b].request, seller[s].request)

\* The buy order that trades is one with the highest price among those that
\* could have traded against the same sell order.
BestBidFirst ==
    [][NewTrade =>
          \A b \in DOMAIN buyer :
              Crossing(b, TradedAsk) =>
                  buyer[b].request.price.amount <= buyer[TradedBid].request.price.amount]_marketVars

\* "Of buyers at one price, the order placed first is matched first."
EarlierBidFirst ==
    [][NewTrade =>
          \A b \in DOMAIN buyer :
              /\ Crossing(b, TradedAsk)
              /\ buyer[b].request.price = buyer[TradedBid].request.price
              => b >= TradedBid]_marketVars

\* "The seller with the lower price is matched first; of sellers at one price,
\* the order placed first."
BestAskFirst ==
    [][NewTrade =>
          \A s \in DOMAIN seller :
              Crossing(TradedBid, s) =>
                  \/ seller[s].request.price.amount > seller[TradedAsk].request.price.amount
                  \/ /\ seller[s].request.price = seller[TradedAsk].request.price
                     /\ s >= TradedAsk]_marketVars

\* Two orders that could trade do not wait for each other forever.
CrossingOrdersTrade ==
    []<>(\A b \in DOMAIN buyer, s \in DOMAIN seller : ~ Crossing(b, s))
=============================================================================
