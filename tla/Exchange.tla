------------------------------ MODULE Exchange ------------------------------
(***************************************************************************)
(* The order tables of the smart contract mis.exchange                     *)
(* (contracts/exchange): lmto places a limit order, clmto cancels one,     *)
(* mlmto trades a buy order against a sell order. A transaction that fails *)
(* a check or an authorisation is rolled back whole, so a check that fails *)
(* is a guard that disables the action.                                    *)
(*                                                                         *)
(* A table whose rows are erased (buyer, seller) is a function from        *)
(* primary keys to rows; a table that only grows (buyerorder, sellerorder, *)
(* cancelorder, ctoc) is a sequence, since its next key is its row count.  *)
(* An order number is the text that the contract hashes: the hash is taken *)
(* to be injective on texts. What the text says of the order is not.       *)
(*                                                                         *)
(* Where a definition has a sibling with a longer name just before it, the *)
(* sibling is a deliberate fault that a property below must catch.         *)
(***************************************************************************)
EXTENDS Integers, Sequences, FiniteSets, Sums

CONSTANTS
    Requests,   \* arguments of lmto: [consigner, commodity_type, commodity,
                \*                     amount, price, oper]
    Anything,   \* the commodity "*"
    NoName,     \* the commodity ""
    Text,       \* how an account, a commodity type, a commodity or a price
                \* is written: a function to sequences of characters
    Names,      \* the third argument of mlmto
    MaxAsset,   \* asset::max_amount
    MaxOrders,  \* bound: orders placed in a behaviour
    MaxTime     \* bound: blocks in a behaviour

Buy  == 1
Sell == 0

Canceled == 0
Open     == 1
Done     == 3

Prices == {r.price : r \in Requests}

\* lmto takes any quantity and any price, below zero too.
ASSUME RequestsAssumption ==
    /\ \A r \in Requests :
          /\ r.amount \in Int
          /\ r.price.amount \in Int
          /\ r.oper \in Int
    /\ MaxOrders \in Nat
    /\ MaxTime \in Nat
    /\ MaxAsset \in Nat

VARIABLES
    buyer,          \* live buy orders, by primary key
    seller,         \* live sell orders, by primary key
    buyer_order,    \* buy orders traded in full
    seller_order,   \* sell orders traded in full
    cancel_order,   \* canceled orders
    matched_order,  \* table ctoc: the trades
    matched_price,  \* last price by commodity name
    commodity_type, \* the known commodity types
    now             \* time of the current block

vars == <<buyer, seller, buyer_order, seller_order, cancel_order,
          matched_order, matched_price, commodity_type, now>>

-----------------------------------------------------------------------------
(* Tables *)

Put(table, k, row) ==
    [j \in DOMAIN table \cup {k} |-> IF j = k THEN row ELSE table[j]]

Erase(table, k) == [j \in DOMAIN table \ {k} |-> table[j]]

\* multi_index::available_primary_key: one more than the largest key in use,
\* so that the key of the last row is given again once that row is erased.
IsAvailableKey(table, k) ==
    \/ DOMAIN table = {} /\ k = 0
    \/ k - 1 \in DOMAIN table /\ \A j \in DOMAIN table : j < k

Oids(table) == {table[k].oid : k \in DOMAIN table}

\* Index byoid: of several rows under one number, find returns the first.
Finds(table, oid, k) ==
    /\ k \in DOMAIN table
    /\ table[k].oid = oid
    /\ \A j \in DOMAIN table : table[j].oid = oid => k <= j

-----------------------------------------------------------------------------
(* Orders and prices *)

Digit == <<"0", "1", "2", "3", "4", "5", "6", "7", "8", "9">>

Digits[n \in Nat] ==
    (IF n < 10 THEN << >> ELSE Digits[n \div 10]) \o <<Digit[(n % 10) + 1]>>

Decimal(n) == IF n < 0 THEN <<"-">> \o Digits[-n] ELSE Digits[n]

\* What follows the key in the text: nothing separates one part from the next.
TermsText(time, r) ==
    Text[r.consigner] \o Decimal(r.amount) \o Decimal(time) \o Decimal(r.oper)
        \o Text[r.commodity_type] \o Text[r.commodity] \o Text[r.price]

TextOf(id, time, r) == Decimal(id) \o TermsText(time, r)

OrderIdWithoutKey(id, time, request) == TermsText(time, request)

OrderId(id, time, request) == TextOf(id, time, request)

NewOrder(id, request) ==
    [oid |-> OrderId(id, now, request), request |-> request,
     amount_done |-> 0, stat |-> Open]

Left(order) == order.request.amount - order.amount_done

FilledNeverDone(order, quantity) == [order EXCEPT !.amount_done = @ + quantity]

FilledInPart(order, quantity) ==
    [order EXCEPT !.amount_done = @ + quantity, !.stat = 2]

Filled(order, quantity) ==
    [order EXCEPT
        !.amount_done = @ + quantity,
        !.stat = IF order.amount_done + quantity = order.request.amount
                 THEN Done ELSE @]

\* Comparing assets of different symbols fails the transaction.
Leq(p, q) == p.symbol = q.symbol /\ p.amount <= q.amount

\* The checks of mlmto on the terms of the two orders.
Compatible(bid, ask) ==
    /\ bid.oper = Buy
    /\ ask.oper = Sell
    /\ bid.consigner # ask.consigner
    /\ Leq(ask.price, bid.price)
    /\ ask.commodity_type = bid.commodity_type
    /\ \/ ask.commodity = Anything
       \/ bid.commodity = Anything
       \/ ask.commodity = bid.commodity

\* The last price of the commodity, moved into the limits of the two orders.
DealPriceNotCapped(name, bid, ask) ==
    IF name \in DOMAIN matched_price /\ matched_price[name].amount > ask.price.amount
    THEN matched_price[name] ELSE ask.price

DealPrice(name, bid, ask) ==
    IF name \notin DOMAIN matched_price THEN ask.price
    ELSE LET last == matched_price[name]
         IN  IF last.amount <= ask.price.amount THEN ask.price
             ELSE IF last.amount <= bid.price.amount THEN last
             ELSE bid.price

\* What ctoc records: the row of matchedprice read back after its update.
TradePriceReadEarly(name, ask, updated) ==
    IF name \notin DOMAIN matched_price THEN ask.price ELSE matched_price[name]

TradePrice(name, ask, updated) ==
    IF name \notin DOMAIN matched_price THEN ask.price ELSE updated

-----------------------------------------------------------------------------
(* Actions *)

Init ==
    /\ buyer = << >> /\ seller = << >>
    /\ buyer_order = << >> /\ seller_order = << >> /\ cancel_order = << >>
    /\ matched_order = << >>
    /\ matched_price = << >>
    /\ commodity_type = {}
    /\ now = 0

OrdersPlaced ==
    Cardinality(DOMAIN buyer) + Cardinality(DOMAIN seller)
        + Len(buyer_order) + Len(seller_order) + Len(cancel_order)

LimitOrder(r) ==
    /\ OrdersPlaced < MaxOrders
    /\ r.price.amount * r.amount \in -MaxAsset .. MaxAsset
    /\ commodity_type' = commodity_type \cup {r.commodity_type}
    /\ \E id \in 0 .. MaxOrders :
          IF r.oper = Buy
          THEN /\ IsAvailableKey(buyer, id)
               /\ buyer' = Put(buyer, id, NewOrder(id, r))
               /\ UNCHANGED seller
          ELSE /\ IsAvailableKey(seller, id)
               /\ seller' = Put(seller, id, NewOrder(id, r))
               /\ UNCHANGED buyer
    /\ UNCHANGED <<buyer_order, seller_order, cancel_order, matched_order,
                   matched_price, now>>

CancelForgetsFills(order) ==
    Append(cancel_order, [order EXCEPT !.stat = Canceled, !.amount_done = 0])

CancelWithoutArchive(order) == cancel_order

Cancel(order) == Append(cancel_order, [order EXCEPT !.stat = Canceled])

\* The account that signs is not compared with the order's consigner.
CancelLimitOrder(oid) ==
    /\ \/ \E b \in DOMAIN buyer :
             /\ Finds(buyer, oid, b)
             /\ cancel_order' = Cancel(buyer[b])
             /\ buyer' = Erase(buyer, b)
             /\ UNCHANGED seller
       \/ /\ oid \notin Oids(buyer)
          /\ \E s \in DOMAIN seller :
                /\ Finds(seller, oid, s)
                /\ cancel_order' = Cancel(seller[s])
                /\ seller' = Erase(seller, s)
                /\ UNCHANGED buyer
    /\ UNCHANGED <<buyer_order, seller_order, matched_order, matched_price,
                   commodity_type, now>>

MatchedAsBuyerAsks(bid, ask) == Left(bid)

Matched(bid, ask) == IF Left(bid) < Left(ask) THEN Left(bid) ELSE Left(ask)

BuyerFilledStrictly(bid, ask) == Left(bid) < Left(ask)

BuyerFilled(bid, ask)  == Left(bid) <= Left(ask)
SellerFilled(bid, ask) == Left(bid) >= Left(ask)

\* Rows b and s trade: prices first, then the trade, then both orders, which
\* move out of the live table when nothing of them remains. Of the terms in
\* bid and ask, ctoc keeps the accounts and the type: the rest is history.
Settle(b, s, name) ==
    LET bid      == buyer[b]
        ask      == seller[s]
        quantity == Matched(bid, ask)
        price    == DealPrice(name, bid.request, ask.request)
        bid2     == Filled(bid, quantity)
        ask2     == Filled(ask, quantity)
    IN  /\ matched_price' = Put(matched_price, name, price)
        /\ matched_order' = Append(matched_order,
              [buyer_oid  |-> bid.oid,
               seller_oid |-> ask.oid,
               bid        |-> bid.request,
               ask        |-> ask.request,
               commodity  |-> IF name = NoName THEN bid.request.commodity ELSE name,
               amount     |-> quantity,
               price      |-> TradePrice(name, ask.request, price)])
        /\ IF BuyerFilled(bid, ask)
           THEN /\ buyer_order' = Append(buyer_order, bid2)
                /\ buyer' = Erase(buyer, b)
           ELSE /\ buyer' = Put(buyer, b, bid2)
                /\ UNCHANGED buyer_order
        /\ IF SellerFilled(bid, ask)
           THEN /\ seller_order' = Append(seller_order, ask2)
                /\ seller' = Erase(seller, s)
           ELSE /\ seller' = Put(seller, s, ask2)
                /\ UNCHANGED seller_order

\* Both consigners and mis.exchange have signed; the plugin and the tests do.
MatchLimitOrder(buyer_oid, seller_oid, name) ==
    \E b \in DOMAIN buyer, s \in DOMAIN seller :
        /\ Finds(buyer, buyer_oid, b)
        /\ Finds(seller, seller_oid, s)
        /\ Compatible(buyer[b].request, seller[s].request)
        /\ buyer[b].stat \notin {Canceled, Done}
        /\ seller[s].stat \notin {Canceled, Done}
        /\ name \in DOMAIN matched_price =>
               matched_price[name].symbol = seller[s].request.price.symbol
        /\ Settle(b, s, name)
        /\ UNCHANGED <<cancel_order, commodity_type, now>>

NextBlock ==
    /\ now < MaxTime
    /\ now' = now + 1
    /\ UNCHANGED <<buyer, seller, buyer_order, seller_order, cancel_order,
                   matched_order, matched_price, commodity_type>>

Next ==
    \/ \E r \in Requests : LimitOrder(r)
    \/ \E oid \in Oids(buyer) \cup Oids(seller) : CancelLimitOrder(oid)
    \/ \E boid \in Oids(buyer), soid \in Oids(seller), name \in Names :
          MatchLimitOrder(boid, soid, name)
    \/ NextBlock

Spec == Init /\ [][Next]_vars

-----------------------------------------------------------------------------
(* Types *)

Oid == {OrderId(id, time, r) : id \in 0 .. MaxOrders, time \in 0 .. MaxTime, r \in Requests}

Order == [oid : Oid, request : Requests, amount_done : Int,
          stat : {Canceled, Open, Done}]

Trade == [buyer_oid : Oid, seller_oid : Oid, bid : Requests, ask : Requests,
          commodity : Names \cup {r.commodity : r \in Requests},
          amount : Int, price : Prices]

IsTable(table, Row) ==
    DOMAIN table \subseteq Nat /\ table \in [DOMAIN table -> Row]

\* Every table holds rows of its type.
TypeOK ==
    /\ IsTable(buyer, Order) /\ IsTable(seller, Order)
    /\ buyer_order \in Seq(Order)
    /\ seller_order \in Seq(Order)
    /\ cancel_order \in Seq(Order)
    /\ matched_order \in Seq(Trade)
    /\ DOMAIN matched_price \subseteq Names
    /\ matched_price \in [DOMAIN matched_price -> Prices]
    /\ commodity_type \subseteq {r.commodity_type : r \in Requests}
    /\ now \in 0 .. MaxTime

-----------------------------------------------------------------------------
(* Safety *)

OnSide(order, side) == (order.request.oper = Buy) <=> (side = Buy)

\* Something is left to trade (an order for nothing waits to be matched).
IsLive(order, side) ==
    /\ order.stat = Open
    /\ OnSide(order, side)
    /\ order.amount_done < order.request.amount \/ order.amount_done = 0

IsDone(order, side) ==
    /\ order.stat = Done
    /\ OnSide(order, side)
    /\ order.amount_done = order.request.amount

\* The table an order is in, its stat and its amount_done always tell the
\* same story: live orders are open and not filled, archived ones are done
\* and exactly filled, canceled ones never were filled. mlmto decides the
\* three in three places, by three different comparisons.
StatusTellsTable ==
    /\ \A k \in DOMAIN buyer : IsLive(buyer[k], Buy)
    /\ \A k \in DOMAIN seller : IsLive(seller[k], Sell)
    /\ \A k \in DOMAIN buyer_order : IsDone(buyer_order[k], Buy)
    /\ \A k \in DOMAIN seller_order : IsDone(seller_order[k], Sell)
    /\ \A k \in DOMAIN cancel_order :
          LET o == cancel_order[k]
          IN  o.stat = Canceled /\ (o.amount_done < o.request.amount \/ o.amount_done = 0)

\* Numbers do not run into each other: no two texts of the orders that may be
\* placed are equal but those of orders with one key in one table. It fails
\* when digits may move from one part of the text to the next: oper 1 with the
\* type "1label" reads as oper 11 with the type "label".
Unambiguous ==
    \A i, j \in 0 .. MaxOrders, t, u \in 0 .. MaxTime, r, q \in Requests :
        TextOf(i, t, r) = TextOf(j, u, q) =>
            i = j /\ (r.oper = Buy <=> q.oper = Buy)

\* An order number names one live order, though keys are given again once the
\* last row of a table is erased and both tables count from zero: clmto and
\* mlmto find their orders by it. So it is if the requests are Unambiguous.
LiveOidsUnique ==
    /\ \A j, k \in DOMAIN buyer : buyer[j].oid = buyer[k].oid => j = k
    /\ \A j, k \in DOMAIN seller : seller[j].oid = seller[k].oid => j = k
    /\ Oids(buyer) \cap Oids(seller) = {}

\* Whatever was traded before under the same name, and whatever else is in
\* the book, each trade of ctoc is between compatible orders of two accounts
\* and at a price within both limits.
DealsHonourLimits ==
    \A i \in DOMAIN matched_order :
        LET t == matched_order[i]
        IN  /\ Compatible(t.bid, t.ask)
            /\ Leq(t.ask.price, t.price) /\ Leq(t.price, t.bid.price)

NaturalAmounts == \A r \in Requests : r.amount \in Nat

NotOverfilled(order) == order.amount_done \in 0 .. order.request.amount

\* No trade, and no order with all the trades that filled it, is for more than
\* was asked. So it is if the requests have NaturalAmounts: a trade with an
\* order for -2 takes -2, and leaves the other order with 2 more to trade.
DealsHonourQuantities ==
    /\ \A i \in DOMAIN matched_order :
          LET t == matched_order[i]
          IN  t.amount \in 0 .. t.bid.amount /\ t.amount \in 0 .. t.ask.amount
    /\ \A k \in DOMAIN buyer : NotOverfilled(buyer[k])
    /\ \A k \in DOMAIN seller : NotOverfilled(seller[k])
    /\ \A k \in DOMAIN cancel_order : NotOverfilled(cancel_order[k])

AllOids == Oids(buyer) \cup Oids(seller) \cup Oids(buyer_order)
               \cup Oids(seller_order) \cup Oids(cancel_order)

\* The quantity traded of an order number according to ctoc, and the quantity
\* its orders record as done, wherever they are now.
AmountOf(trade, oid) ==
    (IF trade.buyer_oid = oid THEN trade.amount ELSE 0)
        + (IF trade.seller_oid = oid THEN trade.amount ELSE 0)

DoneOf(order, oid) == IF order.oid = oid THEN order.amount_done ELSE 0

Traded(oid) == SumOf([i \in DOMAIN matched_order |-> AmountOf(matched_order[i], oid)])

Recorded(oid, table) == SumOf([k \in DOMAIN table |-> DoneOf(table[k], oid)])

\* The trades listed in ctoc add up to the amount_done of the orders they
\* name, over live and archived tables: no fill is lost when a row is copied
\* to an archive and erased, or when its key and number are given again.
FillsAddUp ==
    \A oid \in AllOids :
        Traded(oid) = Recorded(oid, buyer) + Recorded(oid, seller)
                        + Recorded(oid, buyer_order) + Recorded(oid, seller_order)
                        + Recorded(oid, cancel_order)

\* matchedprice holds what its comment says, the price of the last trade of
\* the commodity, which the next trade's price is computed from.
LastPriceIsLastTrade ==
    \A name \in {matched_order[i].commodity : i \in DOMAIN matched_order} :
        LET last == Max({i \in DOMAIN matched_order : matched_order[i].commodity = name})
        IN  name \in DOMAIN matched_price /\ matched_price[name] = matched_order[last].price

-----------------------------------------------------------------------------
(* Steps *)

LiveOids == Oids(buyer) \cup Oids(seller)

RowsOf(oid, table) == Cardinality({k \in DOMAIN table : table[k].oid = oid})

Copies(oid) ==
    RowsOf(oid, buyer) + RowsOf(oid, seller) + RowsOf(oid, buyer_order)
        + RowsOf(oid, seller_order) + RowsOf(oid, cancel_order)

\* Has a row appeared under a key that was free?
Appears(oid, before, after) ==
    \E k \in DOMAIN after \ DOMAIN before : after[k].oid = oid

\* No order is lost or doubled on its way from a live table to an archive:
\* the rows of an order number, over all tables, stay as many as they were,
\* unless an order is placed: one more, in a live table, under a free key.
OrdersOnlyMove ==
    [][\A oid \in AllOids \cup AllOids' :
          \/ Copies(oid)' = Copies(oid)
          \/ /\ Appears(oid, buyer, buyer') \/ Appears(oid, seller, seller')
             /\ Copies(oid)' = Copies(oid) + 1]_vars

-----------------------------------------------------------------------------
(* The abstract order book *)

Bids == {r \in Requests : r.oper = Buy}
Asks == {r \in Requests : r.oper = Sell}

\* An order in the books, seen from outside; a sell order whose oper is not 0
\* can rest in the table but can never trade.
Resting(table, terms) ==
    [k \in {j \in DOMAIN table : table[j].request \in terms} |->
        [terms |-> table[k].request, left |-> Left(table[k])]]

BookBids == Resting(buyer, Bids)
BookAsks == Resting(seller, Asks)

BookDeal(trade) ==
    [bid      |-> trade.bid,
     ask      |-> trade.ask,
     quantity |-> trade.amount,
     price    |-> trade.price]

BookDeals == [i \in DOMAIN matched_order |-> BookDeal(matched_order[i])]

Quantity == [r \in Requests |-> r.amount]

Matches ==
    {m \in Bids \X Asks \X Prices :
        /\ Compatible(m[1], m[2])
        /\ Leq(m[2].price, m[3])
        /\ Leq(m[3], m[1].price)}

OB == INSTANCE OrderBook WITH
    Keys <- 0 .. MaxOrders, bids <- BookBids, asks <- BookAsks, deals <- BookDeals

\* The tables of the contract behave as the order book its users are promised.
RefinesOrderBook == OB!Spec

=============================================================================
