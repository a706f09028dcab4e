--------------------------- MODULE ExchangeProofs ---------------------------
(***************************************************************************)
(* Proofs about Exchange, for every set of requests and every bound.       *)
(***************************************************************************)
EXTENDS Exchange, SumProofs, SequenceTheorems, TLAPS

-----------------------------------------------------------------------------
(* Operators *)

\* A table with one row written is a table.
LEMMA PutType ==
    ASSUME NEW Row, NEW table, NEW k \in Nat, NEW row \in Row, IsTable(table, Row)
    PROVE  IsTable(Put(table, k, row), Row)
BY DEF IsTable, Put

\* A table with one row erased is a table.
LEMMA EraseType ==
    ASSUME NEW Row, NEW table, NEW k, IsTable(table, Row)
    PROVE  IsTable(Erase(table, k), Row)
BY DEF IsTable, Erase

\* A key that available_primary_key gives is not in use.
LEMMA AvailableKeyIsNew ==
    ASSUME NEW Row, NEW table, IsTable(table, Row), NEW k, IsAvailableKey(table, k)
    PROVE  k \notin DOMAIN table
BY DEF IsAvailableKey, IsTable

\* A sequence with one more element, as a function.
LEMMA AppendIsFunction ==
    ASSUME NEW S, NEW seq \in Seq(S), NEW x \in S
    PROVE  Append(seq, x) =
               [i \in 1 .. Len(seq) + 1 |-> IF i = Len(seq) + 1 THEN x ELSE seq[i]]
<1>1. /\ Append(seq, x) \in Seq(S)
      /\ Len(Append(seq, x)) = Len(seq) + 1
      /\ \A i \in 1 .. Len(seq) : Append(seq, x)[i] = seq[i]
      /\ Append(seq, x)[Len(seq) + 1] = x
  BY AppendProperties
<1>2. Len(seq) \in Nat
  OBVIOUS
<1>3. Append(seq, x) = [i \in 1 .. Len(seq) + 1 |-> Append(seq, x)[i]]
  <2> DEFINE longer == Append(seq, x)
  <2>1. longer \in [1 .. Len(longer) -> S]
    BY <1>1, LenProperties
  <2>2. Len(longer) = Len(seq) + 1
    BY <1>1
  <2> HIDE DEF longer
  <2>3. longer = [i \in 1 .. Len(seq) + 1 |-> longer[i]]
    BY <2>1, <2>2
  <2> QED
    BY <2>3 DEF longer
<1>4. \A i \in 1 .. Len(seq) + 1 :
          Append(seq, x)[i] = IF i = Len(seq) + 1 THEN x ELSE seq[i]
  BY <1>1, <1>2
<1> QED
  BY <1>3, <1>4

\* What a request is made of.
LEMMA RequestType ==
    ASSUME NEW r \in Requests
    PROVE  /\ r.amount \in Int
           /\ r.price \in Prices
           /\ r.price.amount \in Int
           /\ r.oper \in Int
BY RequestsAssumption DEF Prices

\* An order that lmto adds is an order, open and with nothing done.
LEMMA NewOrderType ==
    ASSUME NEW r \in Requests, NEW id \in 0 .. MaxOrders, now \in 0 .. MaxTime
    PROVE  NewOrder(id, r) \in Order
BY DEF NewOrder, Order, Oid, Open

\* An order that takes a fill is an order with the same number and terms.
LEMMA FilledType ==
    ASSUME NEW order \in Order, NEW quantity \in Int
    PROVE  /\ Filled(order, quantity) \in Order
           /\ Filled(order, quantity).oid = order.oid
           /\ Filled(order, quantity).request = order.request
           /\ Filled(order, quantity).amount_done = order.amount_done + quantity
           /\ Filled(order, quantity).stat =
                 IF order.amount_done + quantity = order.request.amount
                 THEN Done ELSE order.stat
<1>1. order.amount_done + quantity \in Int
  BY DEF Order
<1> QED
  BY <1>1 DEF Filled, Order, Done

\* The price of a deal is within both limits, whatever the last price was.
LEMMA DealPriceWithinLimits ==
    ASSUME TypeOK, NEW name, NEW bid \in Requests, NEW ask \in Requests,
           Leq(ask.price, bid.price),
           name \in DOMAIN matched_price =>
               matched_price[name].symbol = ask.price.symbol
    PROVE  /\ DealPrice(name, bid, ask) \in Prices
           /\ Leq(ask.price, DealPrice(name, bid, ask))
           /\ Leq(DealPrice(name, bid, ask), bid.price)
<1>1. bid.price \in Prices /\ ask.price \in Prices
  BY RequestType
<1>2. \A p \in Prices : p.amount \in Int
  BY RequestsAssumption DEF Prices
<1>3. CASE name \notin DOMAIN matched_price
  BY <1>1, <1>2, <1>3 DEF DealPrice, Leq
<1>4. CASE name \in DOMAIN matched_price
  <2>1. matched_price[name] \in Prices
    BY <1>4 DEF TypeOK
  <2> QED
    BY <1>1, <1>2, <1>4, <2>1 DEF DealPrice, Leq
<1> QED
  BY <1>3, <1>4

\* What a fill moves from two orders.
LEMMA MatchedIsLess ==
    ASSUME NEW bid \in Order, NEW ask \in Order
    PROVE  /\ Matched(bid, ask) \in Int
           /\ Matched(bid, ask) <= Left(bid)
           /\ Matched(bid, ask) <= Left(ask)
           /\ BuyerFilled(bid, ask) <=> Matched(bid, ask) = Left(bid)
           /\ SellerFilled(bid, ask) <=> Matched(bid, ask) = Left(ask)
           /\ Left(bid) = bid.request.amount - bid.amount_done
           /\ Left(ask) = ask.request.amount - ask.amount_done
           /\ Left(bid) \in Int /\ Left(ask) \in Int
<1>1. /\ bid.amount_done \in Int /\ bid.request.amount \in Int
      /\ ask.amount_done \in Int /\ ask.request.amount \in Int
  BY RequestType DEF Order
<1> QED
  BY <1>1 DEF Matched, BuyerFilled, SellerFilled, Left

-----------------------------------------------------------------------------
(* Type correctness *)

\* The empty tables are tables of every type.
LEMMA InitTypeOK == Init => TypeOK
BY RequestsAssumption DEF Init, TypeOK, IsTable

\* lmto adds a row of the right type to one of the live tables.
LEMMA LimitOrderTypeOK ==
    ASSUME TypeOK, NEW r \in Requests, LimitOrder(r)
    PROVE  TypeOK'
<1>1. PICK id \in 0 .. MaxOrders :
          IF r.oper = Buy
          THEN buyer' = Put(buyer, id, NewOrder(id, r)) /\ UNCHANGED seller
          ELSE seller' = Put(seller, id, NewOrder(id, r)) /\ UNCHANGED buyer
  BY DEF LimitOrder
<1>2. id \in Nat
  BY RequestsAssumption
<1>3. NewOrder(id, r) \in Order
  BY NewOrderType DEF TypeOK
<1>4. IsTable(buyer, Order) /\ IsTable(seller, Order)
  BY DEF TypeOK
<1>7. IsTable(buyer', Order) /\ IsTable(seller', Order)
  <2>1. CASE r.oper = Buy
    BY <1>1, <1>2, <1>3, <1>4, <2>1, PutType
  <2>2. CASE r.oper # Buy
    BY <1>1, <1>2, <1>3, <1>4, <2>2, PutType
  <2> QED
    BY <2>1, <2>2
<1>5. UNCHANGED <<buyer_order, seller_order, cancel_order, matched_order,
                  matched_price, now>>
  BY DEF LimitOrder
<1>6. commodity_type' = commodity_type \cup {r.commodity_type}
  BY DEF LimitOrder
<1> QED
  BY <1>5, <1>6, <1>7 DEF TypeOK, IsTable

\* clmto moves a row whose type stays right.
LEMMA CancelTypeOK ==
    ASSUME TypeOK, NEW oid, CancelLimitOrder(oid)
    PROVE  TypeOK'
<1>1. \A order \in Order : Cancel(order) \in Seq(Order)
  <2>1. \A order \in Order : [order EXCEPT !.stat = Canceled] \in Order
    BY DEF Order
  <2> QED
    BY <2>1 DEF Cancel, TypeOK
<1>2. CASE \E b \in DOMAIN buyer :
              /\ cancel_order' = Cancel(buyer[b])
              /\ buyer' = Erase(buyer, b)
              /\ UNCHANGED seller
  <2>1. PICK b \in DOMAIN buyer :
              /\ cancel_order' = Cancel(buyer[b])
              /\ buyer' = Erase(buyer, b)
              /\ UNCHANGED seller
    BY <1>2
  <2>2. buyer[b] \in Order
    BY DEF TypeOK, IsTable
  <2>3. IsTable(buyer', Order)
    BY <2>1, EraseType DEF TypeOK
  <2> QED
    BY <1>1, <2>1, <2>2, <2>3 DEF TypeOK, CancelLimitOrder, IsTable
<1>3. CASE \E s \in DOMAIN seller :
              /\ cancel_order' = Cancel(seller[s])
              /\ seller' = Erase(seller, s)
              /\ UNCHANGED buyer
  <2>1. PICK s \in DOMAIN seller :
              /\ cancel_order' = Cancel(seller[s])
              /\ seller' = Erase(seller, s)
              /\ UNCHANGED buyer
    BY <1>3
  <2>2. seller[s] \in Order
    BY DEF TypeOK, IsTable
  <2>3. IsTable(seller', Order)
    BY <2>1, EraseType DEF TypeOK
  <2> QED
    BY <1>1, <2>1, <2>2, <2>3 DEF TypeOK, CancelLimitOrder, IsTable
<1> QED
  BY <1>2, <1>3 DEF CancelLimitOrder

\* Everything mlmto checks before it trades rows b and s.
MayTrade(b, s, name) ==
    /\ b \in DOMAIN buyer
    /\ s \in DOMAIN seller
    /\ Compatible(buyer[b].request, seller[s].request)
    /\ buyer[b].stat \notin {Canceled, Done}
    /\ seller[s].stat \notin {Canceled, Done}
    /\ name \in DOMAIN matched_price =>
           matched_price[name].symbol = seller[s].request.price.symbol

\* The rows that trade, and what is known of them and of their fill.
LEMMA TradeFacts ==
    ASSUME TypeOK, NEW b, NEW s, NEW name, MayTrade(b, s, name)
    PROVE  LET bid == buyer[b]
               ask == seller[s]
               quantity == Matched(bid, ask)
           IN  /\ bid \in Order /\ ask \in Order
               /\ b \in Nat /\ s \in Nat
               /\ bid.request \in Requests /\ ask.request \in Requests
               /\ bid.oid \in Oid /\ ask.oid \in Oid
               /\ bid.amount_done \in Int /\ ask.amount_done \in Int
               /\ bid.request.amount \in Int /\ ask.request.amount \in Int
               /\ quantity \in Int
               /\ DealPrice(name, bid.request, ask.request) \in Prices
<1>1. buyer[b] \in Order /\ seller[s] \in Order /\ b \in Nat /\ s \in Nat
  BY DEF MayTrade, TypeOK, IsTable
<1>2. /\ buyer[b].request \in Requests /\ seller[s].request \in Requests
      /\ buyer[b].oid \in Oid /\ seller[s].oid \in Oid
      /\ buyer[b].amount_done \in Int /\ seller[s].amount_done \in Int
  BY <1>1 DEF Order
<1>3. buyer[b].request.amount \in Int /\ seller[s].request.amount \in Int
  BY <1>2, RequestType
<1>4. Matched(buyer[b], seller[s]) \in Int
  BY <1>1, MatchedIsLess
<1>5. DealPrice(name, buyer[b].request, seller[s].request) \in Prices
  BY <1>2, DealPriceWithinLimits DEF MayTrade, Compatible
<1> QED
  BY <1>1, <1>2, <1>3, <1>4, <1>5

\* mlmto writes a price, a trade and two orders of the right types.
LEMMA SettleTypeOK ==
    ASSUME TypeOK, NEW b, NEW s, NEW name \in Names,
           MayTrade(b, s, name), Settle(b, s, name),
           UNCHANGED <<cancel_order, commodity_type, now>>
    PROVE  TypeOK'
<1> DEFINE bid      == buyer[b]
           ask      == seller[s]
           quantity == Matched(bid, ask)
           price    == DealPrice(name, bid.request, ask.request)
           bid2     == Filled(bid, quantity)
           ask2     == Filled(ask, quantity)
           trade    == [buyer_oid  |-> bid.oid,
                        seller_oid |-> ask.oid,
                        bid        |-> bid.request,
                        ask        |-> ask.request,
                        commodity  |-> IF name = NoName THEN bid.request.commodity ELSE name,
                        amount     |-> quantity,
                        price      |-> TradePrice(name, ask.request, price)]
<1>1. /\ bid \in Order /\ ask \in Order /\ b \in Nat /\ s \in Nat
      /\ bid.request \in Requests /\ ask.request \in Requests
      /\ bid.oid \in Oid /\ ask.oid \in Oid
      /\ quantity \in Int /\ price \in Prices
  BY TradeFacts
<1>2. bid2 \in Order /\ ask2 \in Order
  BY <1>1, FilledType
<1>3. trade \in Trade
  <2>1. TradePrice(name, ask.request, price) \in Prices
    BY <1>1, RequestType DEF TradePrice
  <2>2. (IF name = NoName THEN bid.request.commodity ELSE name)
            \in Names \cup {r.commodity : r \in Requests}
    BY <1>1
  <2> QED
    BY <1>1, <2>1, <2>2 DEF Trade
<1>4. /\ matched_price' = Put(matched_price, name, price)
      /\ matched_order' = Append(matched_order, trade)
      /\ IF BuyerFilled(bid, ask)
         THEN buyer_order' = Append(buyer_order, bid2) /\ buyer' = Erase(buyer, b)
         ELSE buyer' = Put(buyer, b, bid2) /\ UNCHANGED buyer_order
      /\ IF SellerFilled(bid, ask)
         THEN seller_order' = Append(seller_order, ask2) /\ seller' = Erase(seller, s)
         ELSE seller' = Put(seller, s, ask2) /\ UNCHANGED seller_order
  BY DEF Settle
<1> HIDE DEF bid, ask, quantity, price, bid2, ask2, trade
<1>5. IsTable(buyer', Order) /\ buyer_order' \in Seq(Order)
  <2>1. IsTable(buyer, Order) /\ buyer_order \in Seq(Order)
    BY DEF TypeOK
  <2>2. CASE BuyerFilled(bid, ask)
    <3>1. buyer' = Erase(buyer, b) /\ buyer_order' = Append(buyer_order, bid2)
      BY <1>4, <2>2
    <3>2. IsTable(Erase(buyer, b), Order)
      BY <2>1, EraseType
    <3> QED
      BY <1>2, <2>1, <3>1, <3>2
  <2>3. CASE ~ BuyerFilled(bid, ask)
    <3>1. buyer' = Put(buyer, b, bid2) /\ buyer_order' = buyer_order
      BY <1>4, <2>3
    <3>2. IsTable(Put(buyer, b, bid2), Order)
      BY <1>1, <1>2, <2>1, PutType
    <3> QED
      BY <2>1, <3>1, <3>2
  <2> QED
    BY <2>2, <2>3
<1>6. IsTable(seller', Order) /\ seller_order' \in Seq(Order)
  <2>1. IsTable(seller, Order) /\ seller_order \in Seq(Order)
    BY DEF TypeOK
  <2>2. CASE SellerFilled(bid, ask)
    <3>1. seller' = Erase(seller, s) /\ seller_order' = Append(seller_order, ask2)
      BY <1>4, <2>2
    <3>2. IsTable(Erase(seller, s), Order)
      BY <2>1, EraseType
    <3> QED
      BY <1>2, <2>1, <3>1, <3>2
  <2>3. CASE ~ SellerFilled(bid, ask)
    <3>1. seller' = Put(seller, s, ask2) /\ seller_order' = seller_order
      BY <1>4, <2>3
    <3>2. IsTable(Put(seller, s, ask2), Order)
      BY <1>1, <1>2, <2>1, PutType
    <3> QED
      BY <2>1, <3>1, <3>2
  <2> QED
    BY <2>2, <2>3
<1>7. /\ DOMAIN matched_price' \subseteq Names
      /\ matched_price' \in [DOMAIN matched_price' -> Prices]
  BY <1>1, <1>4 DEF Put, TypeOK
<1>8. matched_order' \in Seq(Trade)
  BY <1>3, <1>4 DEF TypeOK
<1> QED
  BY <1>5, <1>6, <1>7, <1>8 DEF TypeOK, IsTable

-----------------------------------------------------------------------------
(* The inductive invariant: besides the properties of the runs it needs to *)
(* know what text the number of a row was made of.                         *)

\* The number that lmto gives to a request under this key, at some time.
IsNumberOf(oid, k, request) ==
    k \in 0 .. MaxOrders /\ \E time \in 0 .. MaxTime : oid = OrderId(k, time, request)

\* The number of a row was made of its key and its terms.
KeysInOids(table) ==
    \A k \in DOMAIN table : IsNumberOf(table[k].oid, k, table[k].request)

\* What every action keeps.
IInv ==
    /\ TypeOK
    /\ StatusTellsTable
    /\ KeysInOids(buyer) /\ KeysInOids(seller)
    /\ DealsHonourLimits

\* The rows of a table after a write.
LEMMA PutRows ==
    ASSUME NEW table, NEW k, NEW row, NEW j \in DOMAIN Put(table, k, row)
    PROVE  \/ j = k /\ Put(table, k, row)[j] = row
           \/ j \in DOMAIN table /\ Put(table, k, row)[j] = table[j]
BY DEF Put

\* The rows of a table after an erasure.
LEMMA EraseRows ==
    ASSUME NEW table, NEW k, NEW j \in DOMAIN Erase(table, k)
    PROVE  j \in DOMAIN table /\ Erase(table, k)[j] = table[j]
BY DEF Erase

\* The rows of a table that only grows.
LEMMA AppendRows ==
    ASSUME NEW S, NEW seq \in Seq(S), NEW row \in S, NEW j \in DOMAIN Append(seq, row)
    PROVE  \/ Append(seq, row)[j] = row
           \/ j \in DOMAIN seq /\ Append(seq, row)[j] = seq[j]
OBVIOUS

\* A new order is live, and its number is made of its key and its terms.
LEMMA NewOrderLive ==
    ASSUME TypeOK, NEW r \in Requests, NEW id \in 0 .. MaxOrders,
           NEW side \in {Buy, Sell}, (r.oper = Buy) <=> (side = Buy)
    PROVE  /\ IsLive(NewOrder(id, r), side)
           /\ IsNumberOf(NewOrder(id, r).oid, id, NewOrder(id, r).request)
BY DEF NewOrder, IsNumberOf, IsLive, OnSide, Open, TypeOK

\* An order that is filled in part stays live, one filled in full is done.
LEMMA FilledLiveOrDone ==
    ASSUME NEW order \in Order, NEW side, IsLive(order, side),
           NEW quantity \in Int, quantity <= Left(order)
    PROVE  /\ quantity # Left(order) => IsLive(Filled(order, quantity), side)
           /\ quantity = Left(order) => IsDone(Filled(order, quantity), side)
<1>1. order.amount_done \in Int /\ order.request.amount \in Int
  BY RequestType DEF Order
<1> DEFINE filled == Filled(order, quantity)
<1>2. /\ filled.request = order.request
      /\ filled.amount_done = order.amount_done + quantity
      /\ filled.stat = IF order.amount_done + quantity = order.request.amount
                       THEN Done ELSE order.stat
  BY FilledType
<1>3. order.stat = Open /\ OnSide(order, side)
  BY DEF IsLive
<1> HIDE DEF filled
<1>4. OnSide(filled, side)
  BY <1>2, <1>3 DEF OnSide
<1>5. Left(order) = order.request.amount - order.amount_done
  BY DEF Left
<1>6. quantity # Left(order) => IsLive(filled, side)
  BY <1>1, <1>2, <1>3, <1>4, <1>5 DEF IsLive
<1>7. quantity = Left(order) => IsDone(filled, side)
  BY <1>1, <1>2, <1>4, <1>5 DEF IsDone
<1> QED
  BY <1>6, <1>7 DEF filled

\* A canceled order is not filled.
IsCanceled(order) ==
    /\ order.stat = Canceled
    /\ order.amount_done < order.request.amount \/ order.amount_done = 0

LEMMA CanceledOrder ==
    ASSUME NEW order \in Order, NEW side, IsLive(order, side)
    PROVE  /\ [order EXCEPT !.stat = Canceled] \in Order
           /\ IsCanceled([order EXCEPT !.stat = Canceled])
BY DEF Order, IsLive, IsCanceled, Canceled, Open

\* StatusTellsTable, with its last conjunct named.
LEMMA StatusByTable ==
    StatusTellsTable <=>
        /\ \A k \in DOMAIN buyer : IsLive(buyer[k], Buy)
        /\ \A k \in DOMAIN seller : IsLive(seller[k], Sell)
        /\ \A k \in DOMAIN buyer_order : IsDone(buyer_order[k], Buy)
        /\ \A k \in DOMAIN seller_order : IsDone(seller_order[k], Sell)
        /\ \A k \in DOMAIN cancel_order : IsCanceled(cancel_order[k])
BY DEF StatusTellsTable, IsCanceled

\* It holds of the empty tables.
LEMMA InitIInv == Init => IInv
BY InitTypeOK DEF Init, IInv, StatusTellsTable, KeysInOids, DealsHonourLimits

\* lmto keeps it: the new order is live, under a key that no row has.
LEMMA LimitOrderIInv ==
    ASSUME IInv, NEW r \in Requests, LimitOrder(r)
    PROVE  IInv'
<1>1. PICK id \in 0 .. MaxOrders :
          IF r.oper = Buy
          THEN buyer' = Put(buyer, id, NewOrder(id, r)) /\ seller' = seller
          ELSE seller' = Put(seller, id, NewOrder(id, r)) /\ buyer' = buyer
  BY DEF LimitOrder
<1>2. TypeOK'
  BY LimitOrderTypeOK DEF IInv
<1>3. /\ \A k \in DOMAIN buyer : IsLive(buyer[k], Buy)
      /\ \A k \in DOMAIN seller : IsLive(seller[k], Sell)
      /\ KeysInOids(buyer) /\ KeysInOids(seller)
  BY DEF IInv, StatusTellsTable
<1>4. /\ \A k \in DOMAIN buyer' : IsLive(buyer'[k], Buy)
      /\ \A k \in DOMAIN seller' : IsLive(seller'[k], Sell)
      /\ KeysInOids(buyer') /\ KeysInOids(seller')
  <2>1. CASE r.oper = Buy
    <3>1. buyer' = Put(buyer, id, NewOrder(id, r)) /\ seller' = seller
      BY <1>1, <2>1
    <3>2. /\ IsLive(NewOrder(id, r), Buy)
          /\ IsNumberOf(NewOrder(id, r).oid, id, NewOrder(id, r).request)
      BY <2>1, NewOrderLive DEF IInv
    <3> QED
      BY <1>3, <3>1, <3>2, PutRows DEF KeysInOids
  <2>2. CASE r.oper # Buy
    <3>1. seller' = Put(seller, id, NewOrder(id, r)) /\ buyer' = buyer
      BY <1>1, <2>2
    <3>2. /\ IsLive(NewOrder(id, r), Sell)
          /\ IsNumberOf(NewOrder(id, r).oid, id, NewOrder(id, r).request)
      BY <2>2, NewOrderLive DEF IInv, Buy, Sell
    <3> QED
      BY <1>3, <3>1, <3>2, PutRows DEF KeysInOids
  <2> QED
    BY <2>1, <2>2
<1>5. UNCHANGED <<buyer_order, seller_order, cancel_order, matched_order>>
  BY DEF LimitOrder
<1>6. StatusTellsTable'
  BY <1>4, <1>5 DEF IInv, StatusTellsTable
<1>7. DealsHonourLimits'
  BY <1>5 DEF IInv, DealsHonourLimits
<1> QED
  BY <1>2, <1>4, <1>6, <1>7 DEF IInv, KeysInOids

\* clmto keeps it: a live order is not filled when it is archived.
LEMMA CancelIInv ==
    ASSUME IInv, NEW oid, CancelLimitOrder(oid)
    PROVE  IInv'
<1> DEFINE canceled(order) == [order EXCEPT !.stat = Canceled]
<1>1. TypeOK'
  BY CancelTypeOK DEF IInv
<1>2. /\ TypeOK
      /\ \A k \in DOMAIN buyer : IsLive(buyer[k], Buy)
      /\ \A k \in DOMAIN seller : IsLive(seller[k], Sell)
      /\ \A k \in DOMAIN cancel_order : IsCanceled(cancel_order[k])
      /\ KeysInOids(buyer) /\ KeysInOids(seller)
      /\ cancel_order \in Seq(Order)
  BY StatusByTable DEF IInv, TypeOK
<1>3. UNCHANGED <<buyer_order, seller_order, matched_order>>
  BY DEF CancelLimitOrder
<1> SUFFICES /\ \A k \in DOMAIN buyer' : IsLive(buyer'[k], Buy)
             /\ \A k \in DOMAIN seller' : IsLive(seller'[k], Sell)
             /\ \A k \in DOMAIN cancel_order' : IsCanceled(cancel_order'[k])
             /\ KeysInOids(buyer') /\ KeysInOids(seller')
  <2>1. DealsHonourLimits'
    BY <1>3 DEF IInv, DealsHonourLimits
  <2> QED
    BY <1>1, <1>3, <2>1 DEF IInv, KeysInOids, StatusTellsTable, IsCanceled
<1>4. CASE \E b \in DOMAIN buyer :
              /\ cancel_order' = Cancel(buyer[b])
              /\ buyer' = Erase(buyer, b)
              /\ UNCHANGED seller
  <2>1. PICK b \in DOMAIN buyer :
              /\ cancel_order' = Cancel(buyer[b])
              /\ buyer' = Erase(buyer, b)
              /\ UNCHANGED seller
    BY <1>4
  <2>2. buyer[b] \in Order
    BY <1>2 DEF TypeOK, IsTable
  <2>3. canceled(buyer[b]) \in Order /\ IsCanceled(canceled(buyer[b]))
    BY <1>2, <2>2, CanceledOrder
  <2>4. cancel_order' = Append(cancel_order, canceled(buyer[b]))
    BY <2>1 DEF Cancel
  <2> HIDE DEF canceled
  <2>5. \A k \in DOMAIN cancel_order' : IsCanceled(cancel_order'[k])
    BY <1>2, <2>3, <2>4, AppendRows
  <2>6. /\ \A k \in DOMAIN buyer' : IsLive(buyer'[k], Buy)
        /\ KeysInOids(buyer')
    BY <1>2, <2>1, EraseRows DEF KeysInOids
  <2> QED
    BY <1>2, <2>1, <2>5, <2>6
<1>5. CASE \E s \in DOMAIN seller :
              /\ cancel_order' = Cancel(seller[s])
              /\ seller' = Erase(seller, s)
              /\ UNCHANGED buyer
  <2>1. PICK s \in DOMAIN seller :
              /\ cancel_order' = Cancel(seller[s])
              /\ seller' = Erase(seller, s)
              /\ UNCHANGED buyer
    BY <1>5
  <2>2. seller[s] \in Order
    BY <1>2 DEF TypeOK, IsTable
  <2>3. canceled(seller[s]) \in Order /\ IsCanceled(canceled(seller[s]))
    BY <1>2, <2>2, CanceledOrder
  <2>4. cancel_order' = Append(cancel_order, canceled(seller[s]))
    BY <2>1 DEF Cancel
  <2> HIDE DEF canceled
  <2>5. \A k \in DOMAIN cancel_order' : IsCanceled(cancel_order'[k])
    BY <1>2, <2>3, <2>4, AppendRows
  <2>6. /\ \A k \in DOMAIN seller' : IsLive(seller'[k], Sell)
        /\ KeysInOids(seller')
    BY <1>2, <2>1, EraseRows DEF KeysInOids
  <2> QED
    BY <1>2, <2>1, <2>5, <2>6
<1> QED
  BY <1>4, <1>5 DEF CancelLimitOrder

\* mlmto keeps it: a comparison of what is left decides the table, a sum
\* decides the status, and the two agree; the price is within the limits.
LEMMA SettleIInv ==
    ASSUME IInv, NEW b, NEW s, NEW name \in Names,
           MayTrade(b, s, name), Settle(b, s, name),
           UNCHANGED <<cancel_order, commodity_type, now>>
    PROVE  IInv'
<1> DEFINE bid      == buyer[b]
           ask      == seller[s]
           quantity == Matched(bid, ask)
           price    == DealPrice(name, bid.request, ask.request)
           bid2     == Filled(bid, quantity)
           ask2     == Filled(ask, quantity)
           trade    == [buyer_oid  |-> bid.oid,
                        seller_oid |-> ask.oid,
                        bid        |-> bid.request,
                        ask        |-> ask.request,
                        commodity  |-> IF name = NoName THEN bid.request.commodity ELSE name,
                        amount     |-> quantity,
                        price      |-> TradePrice(name, ask.request, price)]
<1>1. /\ bid \in Order /\ ask \in Order /\ b \in Nat /\ s \in Nat
      /\ bid.request \in Requests /\ ask.request \in Requests
      /\ quantity \in Int
  BY TradeFacts DEF IInv
<1>2. /\ quantity <= Left(bid) /\ quantity <= Left(ask)
      /\ BuyerFilled(bid, ask) <=> quantity = Left(bid)
      /\ SellerFilled(bid, ask) <=> quantity = Left(ask)
  BY <1>1, MatchedIsLess
<1>3. TypeOK' /\ TypeOK
  BY SettleTypeOK DEF IInv
<1>4. /\ matched_order' = Append(matched_order, trade)
      /\ IF BuyerFilled(bid, ask)
         THEN buyer_order' = Append(buyer_order, bid2) /\ buyer' = Erase(buyer, b)
         ELSE buyer' = Put(buyer, b, bid2) /\ buyer_order' = buyer_order
      /\ IF SellerFilled(bid, ask)
         THEN seller_order' = Append(seller_order, ask2) /\ seller' = Erase(seller, s)
         ELSE seller' = Put(seller, s, ask2) /\ seller_order' = seller_order
  BY DEF Settle
<1>5. /\ \A k \in DOMAIN buyer : IsLive(buyer[k], Buy)
      /\ \A k \in DOMAIN seller : IsLive(seller[k], Sell)
      /\ \A k \in DOMAIN buyer_order : IsDone(buyer_order[k], Buy)
      /\ \A k \in DOMAIN seller_order : IsDone(seller_order[k], Sell)
      /\ \A k \in DOMAIN cancel_order : IsCanceled(cancel_order[k])
      /\ KeysInOids(buyer) /\ KeysInOids(seller)
      /\ buyer_order \in Seq(Order) /\ seller_order \in Seq(Order)
  BY StatusByTable DEF IInv, TypeOK
<1>6. /\ IsLive(bid, Buy) /\ IsLive(ask, Sell)
      /\ IsNumberOf(bid.oid, b, bid.request)
      /\ IsNumberOf(ask.oid, s, ask.request)
  BY <1>5 DEF MayTrade, KeysInOids
<1>7. /\ bid2 \in Order /\ bid2.oid = bid.oid /\ bid2.request = bid.request
      /\ ask2 \in Order /\ ask2.oid = ask.oid /\ ask2.request = ask.request
  BY <1>1, FilledType
<1>8. /\ BuyerFilled(bid, ask) => IsDone(bid2, Buy)
      /\ ~ BuyerFilled(bid, ask) => IsLive(bid2, Buy)
      /\ SellerFilled(bid, ask) => IsDone(ask2, Sell)
      /\ ~ SellerFilled(bid, ask) => IsLive(ask2, Sell)
  BY <1>1, <1>2, <1>6, FilledLiveOrDone
<1>9. DealsHonourLimits'
  <2>1. LET p == TradePrice(name, ask.request, price)
        IN  Leq(ask.request.price, p) /\ Leq(p, bid.request.price)
    <3>1. /\ Leq(ask.request.price, bid.request.price)
          /\ name \in DOMAIN matched_price =>
                 matched_price[name].symbol = ask.request.price.symbol
      BY DEF MayTrade, Compatible
    <3>2. Leq(ask.request.price, price) /\ Leq(price, bid.request.price)
      BY <1>1, <1>3, <3>1, DealPriceWithinLimits
    <3>3. Leq(ask.request.price, ask.request.price)
      BY <1>1, RequestType DEF Leq
    <3> QED
      BY <3>1, <3>2, <3>3 DEF TradePrice
  <2>3. Compatible(bid.request, ask.request)
    BY DEF MayTrade
  <2>4. matched_order \in Seq(Trade) /\ DealsHonourLimits
    BY <1>3 DEF TypeOK, IInv
  <2>5. trade \in Trade
    <3>1. matched_order' \in Seq(Trade)
      BY <1>3 DEF TypeOK
    <3>2. matched_order'[Len(matched_order) + 1] = trade
      BY <1>4, <2>4
    <3>3. Len(matched_order') = Len(matched_order) + 1
      BY <1>4, <2>4
    <3> HIDE DEF trade
    <3> QED
      BY <2>4, <3>1, <3>2, <3>3
  <2>6. /\ trade.bid = bid.request /\ trade.ask = ask.request
        /\ trade.price = TradePrice(name, ask.request, price)
    OBVIOUS
  <2> HIDE DEF bid, ask, quantity, price, trade
  <2> QED
    BY <1>4, <2>1, <2>3, <2>4, <2>5, <2>6, AppendRows DEF DealsHonourLimits
<1> HIDE DEF bid, ask, quantity, price, bid2, ask2, trade
<1>10. /\ \A k \in DOMAIN buyer' : IsLive(buyer'[k], Buy)
       /\ KeysInOids(buyer')
       /\ \A k \in DOMAIN buyer_order' : IsDone(buyer_order'[k], Buy)
  <2>1. CASE BuyerFilled(bid, ask)
    <3>1. buyer' = Erase(buyer, b) /\ buyer_order' = Append(buyer_order, bid2)
      BY <1>4, <2>1
    <3> QED
      BY <1>5, <1>7, <1>8, <2>1, <3>1, EraseRows, AppendRows DEF KeysInOids
  <2>2. CASE ~ BuyerFilled(bid, ask)
    <3>1. buyer' = Put(buyer, b, bid2) /\ buyer_order' = buyer_order
      BY <1>4, <2>2
    <3> QED
      BY <1>5, <1>6, <1>7, <1>8, <2>2, <3>1, PutRows DEF KeysInOids
  <2> QED
    BY <2>1, <2>2
<1>11. /\ \A k \in DOMAIN seller' : IsLive(seller'[k], Sell)
       /\ KeysInOids(seller')
       /\ \A k \in DOMAIN seller_order' : IsDone(seller_order'[k], Sell)
  <2>1. CASE SellerFilled(bid, ask)
    <3>1. seller' = Erase(seller, s) /\ seller_order' = Append(seller_order, ask2)
      BY <1>4, <2>1
    <3> QED
      BY <1>5, <1>7, <1>8, <2>1, <3>1, EraseRows, AppendRows DEF KeysInOids
  <2>2. CASE ~ SellerFilled(bid, ask)
    <3>1. seller' = Put(seller, s, ask2) /\ seller_order' = seller_order
      BY <1>4, <2>2
    <3> QED
      BY <1>5, <1>6, <1>7, <1>8, <2>2, <3>1, PutRows DEF KeysInOids
  <2> QED
    BY <2>1, <2>2
<1>12. StatusTellsTable'
  BY <1>5, <1>10, <1>11 DEF StatusTellsTable, IsCanceled
<1> QED
  BY <1>3, <1>9, <1>10, <1>11, <1>12 DEF IInv, KeysInOids

\* Every step keeps it.
LEMMA NextIInv == IInv /\ [Next]_vars => IInv'
<1> SUFFICES ASSUME IInv, [Next]_vars
             PROVE  IInv'
  OBVIOUS
<1>1. ASSUME NEW r \in Requests, LimitOrder(r)
      PROVE  IInv'
  BY <1>1, LimitOrderIInv
<1>2. ASSUME NEW oid, CancelLimitOrder(oid)
      PROVE  IInv'
  BY <1>2, CancelIInv
<1>3. ASSUME NEW boid, NEW soid, NEW name \in Names, MatchLimitOrder(boid, soid, name)
      PROVE  IInv'
  <2>1. PICK b \in DOMAIN buyer, s \in DOMAIN seller :
            /\ MayTrade(b, s, name)
            /\ Settle(b, s, name)
            /\ UNCHANGED <<cancel_order, commodity_type, now>>
    BY <1>3 DEF MatchLimitOrder, MayTrade
  <2> QED
    BY <2>1, SettleIInv
<1>4. CASE NextBlock
  <2>1. now' \in 0 .. MaxTime
    BY <1>4, RequestsAssumption DEF NextBlock, IInv, TypeOK
  <2>2. UNCHANGED <<buyer, seller, buyer_order, seller_order, cancel_order,
                    matched_order, matched_price, commodity_type>>
    BY <1>4 DEF NextBlock
  <2> QED
    BY <2>1, <2>2 DEF IInv, TypeOK, IsTable, StatusTellsTable, KeysInOids,
                      DealsHonourLimits
<1>5. CASE UNCHANGED vars
  BY <1>5 DEF vars, IInv, TypeOK, IsTable, StatusTellsTable, KeysInOids,
              DealsHonourLimits
<1> QED
  BY <1>1, <1>2, <1>3, <1>4, <1>5 DEF Next

\* Where numbers do not run into each other, one number is made of one key, and
\* of terms of one side.
LEMMA NumbersToldApart ==
    ASSUME Unambiguous, NEW oid, NEW j, NEW k, NEW r \in Requests, NEW q \in Requests,
           IsNumberOf(oid, j, r), IsNumberOf(oid, k, q)
    PROVE  j = k /\ (r.oper = Buy <=> q.oper = Buy)
<1>1. PICK t \in 0 .. MaxTime : oid = OrderId(j, t, r)
  BY DEF IsNumberOf
<1>2. PICK u \in 0 .. MaxTime : oid = OrderId(k, u, q)
  BY DEF IsNumberOf
<1>3. j \in 0 .. MaxOrders /\ k \in 0 .. MaxOrders /\ OrderId(j, t, r) = OrderId(k, u, q)
  BY <1>1, <1>2 DEF IsNumberOf
<1>4. TextOf(j, t, r) = TextOf(k, u, q)
  BY <1>3 DEF OrderId
<1> QED
  BY <1>3, <1>4, Unambiguous DEF Unambiguous

\* Then the numbers of live orders are distinct: on one side they are made of
\* distinct keys, and their terms tell the sides apart.
LEMMA IInvLiveOidsUnique == Unambiguous /\ IInv => LiveOidsUnique
<1> SUFFICES ASSUME Unambiguous, IInv
             PROVE  LiveOidsUnique
  OBVIOUS
<1>1. /\ \A k \in DOMAIN buyer :
            /\ IsNumberOf(buyer[k].oid, k, buyer[k].request)
            /\ buyer[k].request \in Requests /\ buyer[k].request.oper = Buy
      /\ \A k \in DOMAIN seller :
            /\ IsNumberOf(seller[k].oid, k, seller[k].request)
            /\ seller[k].request \in Requests /\ seller[k].request.oper # Buy
  BY DEF IInv, KeysInOids, TypeOK, IsTable, Order, StatusTellsTable, IsLive, OnSide,
         Buy, Sell
<1>2. \A b \in DOMAIN buyer, s \in DOMAIN seller : buyer[b].oid # seller[s].oid
  BY <1>1, NumbersToldApart
<1>3. \A j, k \in DOMAIN buyer : buyer[j].oid = buyer[k].oid => j = k
  BY <1>1, NumbersToldApart
<1>4. \A j, k \in DOMAIN seller : seller[j].oid = seller[k].oid => j = k
  BY <1>1, NumbersToldApart
<1> QED
  BY <1>2, <1>3, <1>4 DEF LiveOidsUnique, Oids

-----------------------------------------------------------------------------
(* Quantities                                                              *)

\* A new order, of a natural quantity, is not overfilled.
LEMMA NewOrderFits ==
    ASSUME NaturalAmounts, NEW r \in Requests, NEW id
    PROVE  NotOverfilled(NewOrder(id, r))
<1>1. r.amount \in Nat
  BY NaturalAmounts DEF NaturalAmounts
<1> QED
  BY <1>1 DEF NotOverfilled, NewOrder

\* lmto keeps the quantities.
LEMMA LimitOrderQuantities ==
    ASSUME NaturalAmounts, DealsHonourQuantities, NEW r \in Requests, LimitOrder(r)
    PROVE  DealsHonourQuantities'
<1>1. PICK id \in 0 .. MaxOrders :
          IF r.oper = Buy
          THEN buyer' = Put(buyer, id, NewOrder(id, r)) /\ seller' = seller
          ELSE seller' = Put(seller, id, NewOrder(id, r)) /\ buyer' = buyer
  BY DEF LimitOrder
<1>2. NotOverfilled(NewOrder(id, r))
  BY NewOrderFits
<1>3. UNCHANGED <<cancel_order, matched_order>>
  BY DEF LimitOrder
<1>4. /\ \A k \in DOMAIN buyer' : NotOverfilled(buyer'[k])
      /\ \A k \in DOMAIN seller' : NotOverfilled(seller'[k])
  <2>1. CASE r.oper = Buy
    BY <1>1, <1>2, <2>1, PutRows DEF DealsHonourQuantities
  <2>2. CASE r.oper # Buy
    BY <1>1, <1>2, <2>2, PutRows DEF DealsHonourQuantities
  <2> QED
    BY <2>1, <2>2
<1> QED
  BY <1>3, <1>4 DEF DealsHonourQuantities, NotOverfilled

\* clmto keeps them: a canceled order records what it did when it was live.
LEMMA CancelQuantities ==
    ASSUME TypeOK, DealsHonourQuantities, NEW oid, CancelLimitOrder(oid)
    PROVE  DealsHonourQuantities'
<1>1. UNCHANGED matched_order
  BY DEF CancelLimitOrder
<1>2. \A order \in Order :
          /\ [order EXCEPT !.stat = Canceled] \in Order
          /\ NotOverfilled(order) => NotOverfilled([order EXCEPT !.stat = Canceled])
  BY DEF Order, NotOverfilled
<1>3. cancel_order \in Seq(Order)
  BY DEF TypeOK
<1>4. ASSUME NEW order \in Order, NotOverfilled(order), cancel_order' = Cancel(order)
      PROVE  \A k \in DOMAIN cancel_order' : NotOverfilled(cancel_order'[k])
  <2> DEFINE row == [order EXCEPT !.stat = Canceled]
  <2>1. row \in Order /\ NotOverfilled(row)
    BY <1>2, <1>4
  <2>2. cancel_order' = Append(cancel_order, row)
    BY <1>4 DEF Cancel
  <2> HIDE DEF row
  <2> QED
    BY <1>3, <2>1, <2>2, AppendRows DEF DealsHonourQuantities
<1>5. \/ \E b \in DOMAIN buyer :
            cancel_order' = Cancel(buyer[b]) /\ buyer' = Erase(buyer, b) /\ seller' = seller
      \/ \E s \in DOMAIN seller :
            cancel_order' = Cancel(seller[s]) /\ seller' = Erase(seller, s) /\ buyer' = buyer
  BY DEF CancelLimitOrder
<1>6. /\ \A k \in DOMAIN buyer : buyer[k] \in Order /\ NotOverfilled(buyer[k])
      /\ \A k \in DOMAIN seller : seller[k] \in Order /\ NotOverfilled(seller[k])
  BY DEF TypeOK, IsTable, DealsHonourQuantities
<1>7. /\ \A k \in DOMAIN buyer' : NotOverfilled(buyer'[k])
      /\ \A k \in DOMAIN seller' : NotOverfilled(seller'[k])
  BY <1>5, <1>6, EraseRows
<1>8. \A k \in DOMAIN cancel_order' : NotOverfilled(cancel_order'[k])
  BY <1>4, <1>5, <1>6
<1> QED
  BY <1>1, <1>7, <1>8 DEF DealsHonourQuantities, NotOverfilled

\* The quantity of a trade between two orders that are not overfilled.
LEMMA MatchedFits ==
    ASSUME NEW bid \in Order, NEW ask \in Order, NotOverfilled(bid), NotOverfilled(ask)
    PROVE  /\ Matched(bid, ask) \in 0 .. bid.request.amount
           /\ Matched(bid, ask) \in 0 .. ask.request.amount
           /\ NotOverfilled(Filled(bid, Matched(bid, ask)))
           /\ NotOverfilled(Filled(ask, Matched(bid, ask)))
<1> DEFINE quantity == Matched(bid, ask)
<1>1. /\ bid.amount_done \in Int /\ bid.request.amount \in Int
      /\ ask.amount_done \in Int /\ ask.request.amount \in Int
  BY RequestType DEF Order
<1>2. /\ quantity \in Int /\ quantity <= Left(bid) /\ quantity <= Left(ask)
      /\ quantity = Left(bid) \/ quantity = Left(ask)
      /\ Left(bid) = bid.request.amount - bid.amount_done
      /\ Left(ask) = ask.request.amount - ask.amount_done
  BY <1>1 DEF Matched, Left
<1> HIDE DEF quantity
<1>3. /\ quantity \in Nat
      /\ quantity + bid.amount_done <= bid.request.amount
      /\ quantity + ask.amount_done <= ask.request.amount
  BY <1>1, <1>2 DEF NotOverfilled
<1>4. /\ Filled(bid, quantity).request = bid.request
      /\ Filled(bid, quantity).amount_done = bid.amount_done + quantity
      /\ Filled(ask, quantity).request = ask.request
      /\ Filled(ask, quantity).amount_done = ask.amount_done + quantity
  BY <1>2, FilledType
<1>5. bid.amount_done \in Nat /\ ask.amount_done \in Nat
  BY DEF NotOverfilled
<1>6. NotOverfilled(Filled(bid, quantity)) /\ NotOverfilled(Filled(ask, quantity))
  BY <1>1, <1>3, <1>4, <1>5 DEF NotOverfilled
<1>7. quantity \in 0 .. bid.request.amount /\ quantity \in 0 .. ask.request.amount
  BY <1>1, <1>3, <1>5
<1> QED
  BY <1>6, <1>7 DEF quantity

\* mlmto keeps them: what is left of the smaller order is left of the other.
LEMMA SettleQuantities ==
    ASSUME TypeOK, DealsHonourQuantities, NEW b, NEW s, NEW name \in Names,
           MayTrade(b, s, name), Settle(b, s, name),
           UNCHANGED <<cancel_order, commodity_type, now>>
    PROVE  DealsHonourQuantities'
<1> DEFINE bid      == buyer[b]
           ask      == seller[s]
           quantity == Matched(bid, ask)
           price    == DealPrice(name, bid.request, ask.request)
           bid2     == Filled(bid, quantity)
           ask2     == Filled(ask, quantity)
           trade    == [buyer_oid  |-> bid.oid,
                        seller_oid |-> ask.oid,
                        bid        |-> bid.request,
                        ask        |-> ask.request,
                        commodity  |-> IF name = NoName THEN bid.request.commodity ELSE name,
                        amount     |-> quantity,
                        price      |-> TradePrice(name, ask.request, price)]
<1>1. /\ bid \in Order /\ ask \in Order /\ b \in DOMAIN buyer /\ s \in DOMAIN seller
  BY TradeFacts DEF MayTrade
<1>2. NotOverfilled(bid) /\ NotOverfilled(ask)
  BY <1>1 DEF DealsHonourQuantities
<1>3. /\ quantity \in 0 .. bid.request.amount
      /\ quantity \in 0 .. ask.request.amount
      /\ NotOverfilled(bid2) /\ NotOverfilled(ask2)
  BY <1>1, <1>2, MatchedFits
<1>4. /\ matched_order' = Append(matched_order, trade)
      /\ buyer' = Erase(buyer, b) \/ buyer' = Put(buyer, b, bid2)
      /\ seller' = Erase(seller, s) \/ seller' = Put(seller, s, ask2)
  BY DEF Settle
<1>5. matched_order \in Seq(Trade) /\ matched_order' \in Seq(Trade)
  BY SettleTypeOK DEF TypeOK
<1>6. trade.amount = quantity /\ trade.bid = bid.request /\ trade.ask = ask.request
  OBVIOUS
<1> HIDE DEF bid, ask, quantity, bid2, ask2, trade
<1>7. \A i \in DOMAIN matched_order' :
          \/ matched_order'[i] = trade
          \/ i \in DOMAIN matched_order /\ matched_order'[i] = matched_order[i]
  BY <1>4, <1>5
<1>8. /\ \A k \in DOMAIN buyer' : NotOverfilled(buyer'[k])
      /\ \A k \in DOMAIN seller' : NotOverfilled(seller'[k])
  <2>1. /\ \A k \in DOMAIN buyer : NotOverfilled(buyer[k])
        /\ \A k \in DOMAIN seller : NotOverfilled(seller[k])
    BY DEF DealsHonourQuantities
  <2> QED
    BY <1>3, <1>4, <2>1, EraseRows, PutRows
<1>9. \A i \in DOMAIN matched_order' :
          /\ matched_order'[i].amount \in 0 .. matched_order'[i].bid.amount
          /\ matched_order'[i].amount \in 0 .. matched_order'[i].ask.amount
  BY <1>3, <1>6, <1>7 DEF DealsHonourQuantities
<1> QED
  BY <1>8, <1>9 DEF DealsHonourQuantities, NotOverfilled

\* Every step keeps them.
LEMMA NextQuantities ==
    ASSUME NaturalAmounts, IInv, DealsHonourQuantities, [Next]_vars
    PROVE  DealsHonourQuantities'
<1>1. TypeOK
  BY DEF IInv
<1>2. ASSUME NEW r \in Requests, LimitOrder(r)
      PROVE  DealsHonourQuantities'
  BY <1>2, LimitOrderQuantities
<1>3. ASSUME NEW oid, CancelLimitOrder(oid)
      PROVE  DealsHonourQuantities'
  BY <1>1, <1>3, CancelQuantities
<1>4. ASSUME NEW boid, NEW soid, NEW name \in Names, MatchLimitOrder(boid, soid, name)
      PROVE  DealsHonourQuantities'
  <2>1. PICK b \in DOMAIN buyer, s \in DOMAIN seller :
            /\ MayTrade(b, s, name)
            /\ Settle(b, s, name)
            /\ UNCHANGED <<cancel_order, commodity_type, now>>
    BY <1>4 DEF MatchLimitOrder, MayTrade
  <2> QED
    BY <1>1, <2>1, SettleQuantities
<1>5. CASE NextBlock \/ UNCHANGED vars
  BY <1>5 DEF NextBlock, vars, DealsHonourQuantities, NotOverfilled
<1> QED
  BY <1>2, <1>3, <1>4, <1>5 DEF Next

-----------------------------------------------------------------------------
(* What a step on a table does to the sums and counts over its rows        *)

\* A finite table of orders.
IsFiniteTable(table) == IsTable(table, Order) /\ IsFiniteSet(DOMAIN table)

\* What an order records as done is a number.
LEMMA DoneType ==
    ASSUME NEW order \in Order, NEW oid
    PROVE  DoneOf(order, oid) \in Int
BY DEF DoneOf, Order

\* The rows of a finite table can be summed up.
LEMMA DoneSummable ==
    ASSUME NEW table, IsFiniteTable(table), NEW oid
    PROVE  Summable([k \in DOMAIN table |-> DoneOf(table[k], oid)])
<1>1. \A k \in DOMAIN table : DoneOf(table[k], oid) \in Int
  BY DoneType DEF IsFiniteTable, IsTable
<1> QED
  BY <1>1 DEF Summable, IsFiniteTable

\* A sequence is a finite table whose keys are positions.
LEMMA SequenceIsTable ==
    ASSUME NEW seq \in Seq(Order)
    PROVE  IsFiniteTable(seq)
<1>1. DOMAIN seq = 1 .. Len(seq) /\ Len(seq) \in Nat /\ \A k \in DOMAIN seq : seq[k] \in Order
  OBVIOUS
<1>2. IsFiniteSet(DOMAIN seq)
  BY <1>1, FS_Interval
<1>3. seq \in [DOMAIN seq -> Order]
  BY <1>1
<1> QED
  BY <1>1, <1>2, <1>3 DEF IsFiniteTable, IsTable

\* Appending is putting a row under a key that is not in use.
LEMMA AppendIsPut ==
    ASSUME NEW S, NEW seq \in Seq(S), NEW row \in S
    PROVE  /\ Append(seq, row) = Put(seq, Len(seq) + 1, row)
           /\ Len(seq) + 1 \in Nat /\ Len(seq) + 1 \notin DOMAIN seq
<1>1. DOMAIN seq = 1 .. Len(seq) /\ Len(seq) \in Nat
  OBVIOUS
<1>2. DOMAIN seq \cup {Len(seq) + 1} = 1 .. Len(seq) + 1
  BY <1>1
<1> QED
  BY <1>1, <1>2, AppendIsFunction DEF Put

\* A row more.
LEMMA RecordedPut ==
    ASSUME NEW table, IsFiniteTable(table), NEW k, k \notin DOMAIN table,
           NEW row \in Order, NEW oid
    PROVE  Recorded(oid, Put(table, k, row)) = Recorded(oid, table) + DoneOf(row, oid)
<1> DEFINE f == [j \in DOMAIN table |-> DoneOf(table[j], oid)]
           put == Put(table, k, row)
           e == [j \in DOMAIN put |-> DoneOf(put[j], oid)]
<1>1. Summable(f)
  BY DoneSummable
<1>2. DOMAIN f = DOMAIN table /\ \A j \in DOMAIN f : f[j] = DoneOf(table[j], oid)
  OBVIOUS
<1>3. e = [j \in DOMAIN f \cup {k} |-> IF j = k THEN DoneOf(row, oid) ELSE f[j]]
  BY DEF Put
<1>4. Recorded(oid, table) = SumOf(f) /\ Recorded(oid, put) = SumOf(e)
  BY DEF Recorded
<1> HIDE DEF f, e, put
<1>5. SumOf(e) = SumOf(f) + DoneOf(row, oid)
  BY <1>1, <1>2, <1>3, DoneType, SumAdd
<1> QED
  BY <1>4, <1>5 DEF put

\* A row changed.
LEMMA RecordedChange ==
    ASSUME NEW table, IsFiniteTable(table), NEW k \in DOMAIN table,
           NEW row \in Order, NEW oid
    PROVE  Recorded(oid, Put(table, k, row)) =
               Recorded(oid, table) - DoneOf(table[k], oid) + DoneOf(row, oid)
<1> DEFINE f == [j \in DOMAIN table |-> DoneOf(table[j], oid)]
           put == Put(table, k, row)
           e == [j \in DOMAIN put |-> DoneOf(put[j], oid)]
<1>1. Summable(f)
  BY DoneSummable
<1>2. k \in DOMAIN f /\ f[k] = DoneOf(table[k], oid)
  OBVIOUS
<1>3. e = [j \in DOMAIN f |-> IF j = k THEN DoneOf(row, oid) ELSE f[j]]
  <2>1. DOMAIN table \cup {k} = DOMAIN table
    OBVIOUS
  <2> QED
    BY <2>1 DEF Put
<1>4. Recorded(oid, table) = SumOf(f) /\ Recorded(oid, put) = SumOf(e)
  BY DEF Recorded
<1> HIDE DEF f, e, put
<1>5. SumOf(e) = SumOf(f) - f[k] + DoneOf(row, oid)
  BY <1>1, <1>2, <1>3, DoneType, SumChange
<1> QED
  BY <1>2, <1>4, <1>5 DEF put

\* A row less.
LEMMA RecordedErase ==
    ASSUME NEW table, IsFiniteTable(table), NEW k \in DOMAIN table, NEW oid
    PROVE  Recorded(oid, Erase(table, k)) = Recorded(oid, table) - DoneOf(table[k], oid)
<1> DEFINE f == [j \in DOMAIN table |-> DoneOf(table[j], oid)]
           erased == Erase(table, k)
           e == [j \in DOMAIN erased |-> DoneOf(erased[j], oid)]
<1>1. Summable(f)
  BY DoneSummable
<1>2. k \in DOMAIN f /\ f[k] = DoneOf(table[k], oid)
  OBVIOUS
<1>3. e = [j \in DOMAIN f \ {k} |-> f[j]]
  BY DEF Erase
<1>4. Recorded(oid, table) = SumOf(f) /\ Recorded(oid, erased) = SumOf(e)
  BY DEF Recorded
<1> HIDE DEF f, e, erased
<1>5. SumOf(e) = SumOf(f) - f[k]
  BY <1>1, <1>2, <1>3, SumRemove
<1> QED
  BY <1>2, <1>4, <1>5 DEF erased

\* A row appended.
LEMMA RecordedAppend ==
    ASSUME NEW seq \in Seq(Order), NEW row \in Order, NEW oid
    PROVE  Recorded(oid, Append(seq, row)) = Recorded(oid, seq) + DoneOf(row, oid)
<1>1. IsFiniteTable(seq)
  BY SequenceIsTable
<1>2. Append(seq, row) = Put(seq, Len(seq) + 1, row) /\ Len(seq) + 1 \notin DOMAIN seq
  BY AppendIsPut
<1> QED
  BY <1>1, <1>2, RecordedPut

\* What a table records is a number.
LEMMA RecordedType ==
    ASSUME NEW table, IsFiniteTable(table), NEW oid
    PROVE  Recorded(oid, table) \in Int
<1> DEFINE f == [j \in DOMAIN table |-> DoneOf(table[j], oid)]
<1>1. Summable(f)
  BY DoneSummable
<1>2. Recorded(oid, table) = SumOf(f)
  BY DEF Recorded
<1> HIDE DEF f
<1> QED
  BY <1>1, <1>2, SumType

\* The rows of an order number are finitely many.
LEMMA RowsFinite ==
    ASSUME NEW table, IsFiniteTable(table), NEW oid
    PROVE  IsFiniteSet({k \in DOMAIN table : table[k].oid = oid})
BY FS_Subset DEF IsFiniteTable

\* Their count is a number.
LEMMA RowsType ==
    ASSUME NEW table, IsFiniteTable(table), NEW oid
    PROVE  RowsOf(oid, table) \in Nat
BY RowsFinite, FS_CardinalityType DEF RowsOf

\* A row more.
LEMMA RowsPut ==
    ASSUME NEW table, IsFiniteTable(table), NEW k, k \notin DOMAIN table, NEW row, NEW oid
    PROVE  RowsOf(oid, Put(table, k, row)) =
               IF row.oid = oid THEN RowsOf(oid, table) + 1 ELSE RowsOf(oid, table)
<1> DEFINE rows == {j \in DOMAIN table : table[j].oid = oid}
           put  == Put(table, k, row)
           later == {j \in DOMAIN put : put[j].oid = oid}
<1>1. IsFiniteSet(rows) /\ k \notin rows
  BY RowsFinite
<1>2. later = IF row.oid = oid THEN rows \cup {k} ELSE rows
  BY DEF Put
<1>3. RowsOf(oid, table) = Cardinality(rows) /\ RowsOf(oid, put) = Cardinality(later)
  BY DEF RowsOf
<1> HIDE DEF rows, later, put
<1>4. Cardinality(rows \cup {k}) = Cardinality(rows) + 1
  BY <1>1, FS_AddElement
<1> QED
  BY <1>2, <1>3, <1>4 DEF put

\* A row changed that keeps its number.
LEMMA RowsChange ==
    ASSUME NEW table, NEW k \in DOMAIN table, NEW row, row.oid = table[k].oid, NEW oid
    PROVE  RowsOf(oid, Put(table, k, row)) = RowsOf(oid, table)
<1>1. {j \in DOMAIN Put(table, k, row) : Put(table, k, row)[j].oid = oid}
          = {j \in DOMAIN table : table[j].oid = oid}
  BY DEF Put
<1> QED
  BY <1>1 DEF RowsOf

\* A row less.
LEMMA RowsErase ==
    ASSUME NEW table, IsFiniteTable(table), NEW k \in DOMAIN table, NEW oid
    PROVE  RowsOf(oid, Erase(table, k)) =
               IF table[k].oid = oid THEN RowsOf(oid, table) - 1 ELSE RowsOf(oid, table)
<1> DEFINE rows   == {j \in DOMAIN table : table[j].oid = oid}
           erased == Erase(table, k)
           later   == {j \in DOMAIN erased : erased[j].oid = oid}
<1>1. IsFiniteSet(rows) /\ (k \in rows <=> table[k].oid = oid)
  BY RowsFinite
<1>2. later = rows \ {k}
  BY DEF Erase
<1>3. RowsOf(oid, table) = Cardinality(rows) /\ RowsOf(oid, erased) = Cardinality(later)
  BY DEF RowsOf
<1> HIDE DEF rows, later, erased
<1>4. Cardinality(rows \ {k}) =
          IF k \in rows THEN Cardinality(rows) - 1 ELSE Cardinality(rows)
  BY <1>1, FS_RemoveElement
<1> QED
  BY <1>1, <1>2, <1>3, <1>4 DEF erased

\* A row appended.
LEMMA RowsAppend ==
    ASSUME NEW seq \in Seq(Order), NEW row \in Order, NEW oid
    PROVE  RowsOf(oid, Append(seq, row)) =
               IF row.oid = oid THEN RowsOf(oid, seq) + 1 ELSE RowsOf(oid, seq)
<1>1. IsFiniteTable(seq)
  BY SequenceIsTable
<1>2. Append(seq, row) = Put(seq, Len(seq) + 1, row) /\ Len(seq) + 1 \notin DOMAIN seq
  BY AppendIsPut
<1> QED
  BY <1>1, <1>2, RowsPut

\* A row that moves from a live table to an archive.
LEMMA ArchiveRow ==
    ASSUME NEW table, IsFiniteTable(table), NEW archive \in Seq(Order),
           NEW k \in DOMAIN table, NEW row \in Order, row.oid = table[k].oid, NEW oid
    PROVE  /\ IsFiniteTable(Erase(table, k))
           /\ Recorded(oid, Erase(table, k)) =
                 Recorded(oid, table) - (IF row.oid = oid THEN table[k].amount_done ELSE 0)
           /\ Recorded(oid, Append(archive, row)) =
                 Recorded(oid, archive) + (IF row.oid = oid THEN row.amount_done ELSE 0)
           /\ RowsOf(oid, Erase(table, k)) =
                 RowsOf(oid, table) - (IF row.oid = oid THEN 1 ELSE 0)
           /\ RowsOf(oid, Append(archive, row)) =
                 RowsOf(oid, archive) + (IF row.oid = oid THEN 1 ELSE 0)
<1>1. /\ table[k] \in Order
      /\ table[k].amount_done \in Int /\ row.amount_done \in Int
  BY DEF IsFiniteTable, IsTable, Order
<1>2. IsFiniteTable(archive)
  BY SequenceIsTable
<1>3. /\ Recorded(oid, table) \in Int /\ Recorded(oid, archive) \in Int
      /\ RowsOf(oid, table) \in Int /\ RowsOf(oid, archive) \in Int
  <2>1. Recorded(oid, table) \in Int /\ Recorded(oid, archive) \in Int
    BY <1>2, RecordedType
  <2>2. RowsOf(oid, table) \in Nat /\ RowsOf(oid, archive) \in Nat
    BY <1>2, RowsType
  <2> QED
    BY <2>1, <2>2
<1>4. IsFiniteTable(Erase(table, k))
  <2>1. IsTable(Erase(table, k), Order)
    BY EraseType DEF IsFiniteTable
  <2>2. IsFiniteSet(DOMAIN Erase(table, k))
    BY FS_RemoveElement DEF IsFiniteTable, Erase
  <2> QED
    BY <2>1, <2>2 DEF IsFiniteTable
<1>5. /\ Recorded(oid, Erase(table, k)) = Recorded(oid, table) - DoneOf(table[k], oid)
      /\ Recorded(oid, Append(archive, row)) = Recorded(oid, archive) + DoneOf(row, oid)
  BY RecordedErase, RecordedAppend
<1>6. /\ RowsOf(oid, Erase(table, k)) =
            IF table[k].oid = oid THEN RowsOf(oid, table) - 1 ELSE RowsOf(oid, table)
      /\ RowsOf(oid, Append(archive, row)) =
            IF row.oid = oid THEN RowsOf(oid, archive) + 1 ELSE RowsOf(oid, archive)
  BY RowsErase, RowsAppend
<1> QED
  BY <1>1, <1>3, <1>4, <1>5, <1>6 DEF DoneOf

\* A row that changes where it is.
LEMMA ChangeRow ==
    ASSUME NEW table, IsFiniteTable(table), NEW k \in DOMAIN table,
           NEW row \in Order, row.oid = table[k].oid, NEW oid
    PROVE  /\ IsFiniteTable(Put(table, k, row))
           /\ Recorded(oid, Put(table, k, row)) =
                 Recorded(oid, table)
                     + (IF row.oid = oid THEN row.amount_done - table[k].amount_done ELSE 0)
           /\ RowsOf(oid, Put(table, k, row)) = RowsOf(oid, table)
<1>1. /\ table[k] \in Order /\ k \in Nat
      /\ table[k].amount_done \in Int /\ row.amount_done \in Int
  BY DEF IsFiniteTable, IsTable, Order
<1>2. IsFiniteTable(Put(table, k, row))
  <2>1. IsTable(Put(table, k, row), Order)
    BY <1>1, PutType DEF IsFiniteTable
  <2>2. IsFiniteSet(DOMAIN Put(table, k, row))
    BY FS_AddElement DEF IsFiniteTable, Put
  <2> QED
    BY <2>1, <2>2 DEF IsFiniteTable
<1>3. Recorded(oid, Put(table, k, row)) =
          Recorded(oid, table) - DoneOf(table[k], oid) + DoneOf(row, oid)
  BY RecordedChange
<1>4. Recorded(oid, table) \in Int
  BY RecordedType
<1>5. RowsOf(oid, Put(table, k, row)) = RowsOf(oid, table)
  BY RowsChange
<1> QED
  BY <1>1, <1>2, <1>3, <1>4, <1>5 DEF DoneOf

\* A row that is new in a live table.
LEMMA NewRow ==
    ASSUME NEW table, IsFiniteTable(table), NEW k \in Nat, k \notin DOMAIN table,
           NEW row \in Order, row.amount_done = 0, NEW oid
    PROVE  /\ IsFiniteTable(Put(table, k, row))
           /\ Recorded(oid, Put(table, k, row)) = Recorded(oid, table)
           /\ RowsOf(oid, Put(table, k, row)) =
                 IF row.oid = oid THEN RowsOf(oid, table) + 1 ELSE RowsOf(oid, table)
<1>1. IsFiniteTable(Put(table, k, row))
  <2>1. IsTable(Put(table, k, row), Order)
    BY PutType DEF IsFiniteTable
  <2>2. IsFiniteSet(DOMAIN Put(table, k, row))
    BY FS_AddElement DEF IsFiniteTable, Put
  <2> QED
    BY <2>1, <2>2 DEF IsFiniteTable
<1>2. Recorded(oid, Put(table, k, row)) = Recorded(oid, table) + 0
  <2>1. DoneOf(row, oid) = 0
    BY DEF DoneOf
  <2> QED
    BY <2>1, RecordedPut
<1>3. Recorded(oid, table) \in Int
  BY RecordedType
<1> QED
  BY <1>1, <1>2, <1>3, RowsPut

\* A trade more.
LEMMA TradedAppend ==
    ASSUME matched_order \in Seq(Trade), NEW trade \in Trade,
           matched_order' = Append(matched_order, trade), NEW oid
    PROVE  /\ Traded(oid)' = Traded(oid) + AmountOf(trade, oid)
           /\ Traded(oid) \in Int
<1> DEFINE f == [i \in DOMAIN matched_order |-> AmountOf(matched_order[i], oid)]
           e == [i \in DOMAIN matched_order' |-> AmountOf(matched_order'[i], oid)]
           n == Len(matched_order) + 1
<1>1. \A t \in Trade : AmountOf(t, oid) \in Int
  BY DEF AmountOf, Trade
<1>2. DOMAIN matched_order = 1 .. Len(matched_order) /\ Len(matched_order) \in Nat
  OBVIOUS
<1>3. Summable(f)
  <2>1. IsFiniteSet(DOMAIN matched_order)
    BY <1>2, FS_Interval
  <2>2. \A i \in DOMAIN matched_order : AmountOf(matched_order[i], oid) \in Int
    BY <1>1, <1>2
  <2> QED
    BY <2>1, <2>2 DEF Summable
<1>4. matched_order' = Put(matched_order, n, trade) /\ n \notin DOMAIN matched_order
  BY AppendIsPut
<1>5. e = [i \in DOMAIN f \cup {n} |-> IF i = n THEN AmountOf(trade, oid) ELSE f[i]]
  BY <1>4 DEF Put
<1>6. Traded(oid) = SumOf(f) /\ Traded(oid)' = SumOf(e)
  BY DEF Traded
<1>7. n \notin DOMAIN f
  BY <1>4
<1> HIDE DEF f, e, n
<1>8. SumOf(e) = SumOf(f) + AmountOf(trade, oid)
  <2>1. AmountOf(trade, oid) \in Int
    BY <1>1
  <2> QED
    BY ONLY <1>3, <1>5, <1>7, <2>1, SumAdd
<1> QED
  BY <1>3, <1>6, <1>8, SumType

-----------------------------------------------------------------------------
(* The ledger: what the orders record, over all tables, is what was traded *)

\* What the orders of a number record as done, wherever they are.
Books(oid) ==
    Recorded(oid, buyer) + Recorded(oid, seller)
        + Recorded(oid, buyer_order) + Recorded(oid, seller_order)
        + Recorded(oid, cancel_order)

\* IInv, and the ledger of every number, whether or not an order has it: a
\* number that is given again starts from what was traded under it before.
LedgerInv ==
    /\ IInv
    /\ IsFiniteTable(buyer) /\ IsFiniteTable(seller)
    /\ \A oid : Traded(oid) = Books(oid)

\* What a step does to the rows and to what they record, for one number.
Moves(oid, done, rows) ==
    /\ IsFiniteTable(buyer') /\ IsFiniteTable(seller')
    /\ Books(oid)' = Books(oid) + done
    /\ Copies(oid)' = Copies(oid) + rows

\* An order is placed under this number.
AppearsLive(oid) == Appears(oid, buyer, buyer') \/ Appears(oid, seller, seller')

\* Every quantity in the ledger is a number.
LEMMA LedgerTypes ==
    ASSUME LedgerInv, NEW oid
    PROVE  /\ Recorded(oid, buyer) \in Int /\ Recorded(oid, seller) \in Int
           /\ Recorded(oid, buyer_order) \in Int /\ Recorded(oid, seller_order) \in Int
           /\ Recorded(oid, cancel_order) \in Int
           /\ RowsOf(oid, buyer) \in Int /\ RowsOf(oid, seller) \in Int
           /\ RowsOf(oid, buyer_order) \in Int /\ RowsOf(oid, seller_order) \in Int
           /\ RowsOf(oid, cancel_order) \in Int
<1>1. /\ IsFiniteTable(buyer) /\ IsFiniteTable(seller)
      /\ IsFiniteTable(buyer_order) /\ IsFiniteTable(seller_order)
      /\ IsFiniteTable(cancel_order)
  BY SequenceIsTable DEF LedgerInv, IInv, TypeOK
<1>2. \A table : IsFiniteTable(table) => RowsOf(oid, table) \in Nat
  BY RowsType
<1> QED
  BY <1>1, <1>2, RecordedType

\* lmto adds a row that records nothing, under a key that is not in use.
LEMMA LimitOrderMoves ==
    ASSUME LedgerInv, NEW r \in Requests, LimitOrder(r), NEW oid
    PROVE  \E id \in Nat :
               /\ Moves(oid, 0, IF NewOrder(id, r).oid = oid THEN 1 ELSE 0)
               /\ AppearsLive(NewOrder(id, r).oid)
<1>1. PICK id \in 0 .. MaxOrders :
          IF r.oper = Buy
          THEN /\ IsAvailableKey(buyer, id)
               /\ buyer' = Put(buyer, id, NewOrder(id, r))
               /\ seller' = seller
          ELSE /\ IsAvailableKey(seller, id)
               /\ seller' = Put(seller, id, NewOrder(id, r))
               /\ buyer' = buyer
  BY DEF LimitOrder
<1> DEFINE new == NewOrder(id, r)
<1>2. id \in Nat /\ new \in Order /\ new.amount_done = 0
  <2>1. id \in Nat /\ now \in 0 .. MaxTime
    BY RequestsAssumption DEF LedgerInv, IInv, TypeOK
  <2> QED
    BY <2>1, NewOrderType DEF NewOrder
<1>3. UNCHANGED <<buyer_order, seller_order, cancel_order>>
  BY DEF LimitOrder
<1>4. IsFiniteTable(buyer) /\ IsFiniteTable(seller)
  BY DEF LedgerInv
<1> HIDE DEF new
<1>5. CASE r.oper = Buy
  <2>1. buyer' = Put(buyer, id, new) /\ seller' = seller
    BY <1>1, <1>5 DEF new
  <2>2. id \notin DOMAIN buyer
    BY <1>1, <1>4, <1>5, AvailableKeyIsNew DEF IsFiniteTable
  <2>3. /\ IsFiniteTable(buyer')
        /\ Recorded(oid, buyer') = Recorded(oid, buyer)
        /\ RowsOf(oid, buyer') =
              IF new.oid = oid THEN RowsOf(oid, buyer) + 1 ELSE RowsOf(oid, buyer)
    BY <1>2, <1>4, <2>1, <2>2, NewRow
  <2>4. Moves(oid, 0, IF new.oid = oid THEN 1 ELSE 0)
    BY <1>3, <1>4, <2>1, <2>3, LedgerTypes DEF Moves, Books, Copies
  <2>5. AppearsLive(new.oid)
    BY <2>1, <2>2 DEF AppearsLive, Appears, Put
  <2> QED
    BY <1>2, <2>4, <2>5 DEF new
<1>6. CASE r.oper # Buy
  <2>1. seller' = Put(seller, id, new) /\ buyer' = buyer
    BY <1>1, <1>6 DEF new
  <2>2. id \notin DOMAIN seller
    BY <1>1, <1>4, <1>6, AvailableKeyIsNew DEF IsFiniteTable
  <2>3. /\ IsFiniteTable(seller')
        /\ Recorded(oid, seller') = Recorded(oid, seller)
        /\ RowsOf(oid, seller') =
              IF new.oid = oid THEN RowsOf(oid, seller) + 1 ELSE RowsOf(oid, seller)
    BY <1>2, <1>4, <2>1, <2>2, NewRow
  <2>4. Moves(oid, 0, IF new.oid = oid THEN 1 ELSE 0)
    BY <1>3, <1>4, <2>1, <2>3, LedgerTypes DEF Moves, Books, Copies
  <2>5. AppearsLive(new.oid)
    BY <2>1, <2>2 DEF AppearsLive, Appears, Put
  <2> QED
    BY <1>2, <2>4, <2>5 DEF new
<1> QED
  BY <1>5, <1>6

\* clmto moves a row, with what it records, to the canceled orders.
LEMMA CancelMoves ==
    ASSUME LedgerInv, NEW coid, CancelLimitOrder(coid), NEW oid
    PROVE  Moves(oid, 0, 0)
<1>1. /\ IsFiniteTable(buyer) /\ IsFiniteTable(seller) /\ cancel_order \in Seq(Order)
  BY DEF LedgerInv, IInv, TypeOK
<1>2. UNCHANGED <<buyer_order, seller_order>>
  BY DEF CancelLimitOrder
<1>3. \A order \in Order :
          /\ [order EXCEPT !.stat = Canceled] \in Order
          /\ [order EXCEPT !.stat = Canceled].oid = order.oid
          /\ [order EXCEPT !.stat = Canceled].amount_done = order.amount_done
  BY DEF Order
<1>4. CASE \E b \in DOMAIN buyer :
              /\ cancel_order' = Cancel(buyer[b])
              /\ buyer' = Erase(buyer, b)
              /\ UNCHANGED seller
  <2>1. PICK b \in DOMAIN buyer :
              /\ cancel_order' = Cancel(buyer[b])
              /\ buyer' = Erase(buyer, b)
              /\ UNCHANGED seller
    BY <1>4
  <2> DEFINE row == [buyer[b] EXCEPT !.stat = Canceled]
  <2>2. buyer[b] \in Order
    BY <1>1 DEF IsFiniteTable, IsTable
  <2>3. row \in Order /\ row.oid = buyer[b].oid /\ row.amount_done = buyer[b].amount_done
    BY <1>3, <2>2
  <2>4. cancel_order' = Append(cancel_order, row)
    BY <2>1 DEF Cancel
  <2>5. buyer[b].amount_done \in Int
    BY <2>2 DEF Order
  <2> HIDE DEF row
  <2>6. /\ IsFiniteTable(buyer')
        /\ Recorded(oid, buyer') =
              Recorded(oid, buyer) - (IF row.oid = oid THEN buyer[b].amount_done ELSE 0)
        /\ Recorded(oid, cancel_order') =
              Recorded(oid, cancel_order) + (IF row.oid = oid THEN row.amount_done ELSE 0)
        /\ RowsOf(oid, buyer') = RowsOf(oid, buyer) - (IF row.oid = oid THEN 1 ELSE 0)
        /\ RowsOf(oid, cancel_order') =
              RowsOf(oid, cancel_order) + (IF row.oid = oid THEN 1 ELSE 0)
    BY <1>1, <2>1, <2>3, <2>4, ArchiveRow
  <2>7. Books(oid)' = Books(oid) + 0
    BY <1>2, <2>1, <2>3, <2>5, <2>6, LedgerTypes DEF Books
  <2>8. Copies(oid)' = Copies(oid) + 0
    BY <1>2, <2>1, <2>6, LedgerTypes DEF Copies
  <2> QED
    BY <1>1, <2>1, <2>6, <2>7, <2>8 DEF Moves
<1>5. CASE \E s \in DOMAIN seller :
              /\ cancel_order' = Cancel(seller[s])
              /\ seller' = Erase(seller, s)
              /\ UNCHANGED buyer
  <2>1. PICK s \in DOMAIN seller :
              /\ cancel_order' = Cancel(seller[s])
              /\ seller' = Erase(seller, s)
              /\ UNCHANGED buyer
    BY <1>5
  <2> DEFINE row == [seller[s] EXCEPT !.stat = Canceled]
  <2>2. seller[s] \in Order
    BY <1>1 DEF IsFiniteTable, IsTable
  <2>3. row \in Order /\ row.oid = seller[s].oid /\ row.amount_done = seller[s].amount_done
    BY <1>3, <2>2
  <2>4. cancel_order' = Append(cancel_order, row)
    BY <2>1 DEF Cancel
  <2>5. seller[s].amount_done \in Int
    BY <2>2 DEF Order
  <2> HIDE DEF row
  <2>6. /\ IsFiniteTable(seller')
        /\ Recorded(oid, seller') =
              Recorded(oid, seller) - (IF row.oid = oid THEN seller[s].amount_done ELSE 0)
        /\ Recorded(oid, cancel_order') =
              Recorded(oid, cancel_order) + (IF row.oid = oid THEN row.amount_done ELSE 0)
        /\ RowsOf(oid, seller') = RowsOf(oid, seller) - (IF row.oid = oid THEN 1 ELSE 0)
        /\ RowsOf(oid, cancel_order') =
              RowsOf(oid, cancel_order) + (IF row.oid = oid THEN 1 ELSE 0)
    BY <1>1, <2>1, <2>3, <2>4, ArchiveRow
  <2>7. Books(oid)' = Books(oid) + 0
    BY <1>2, <2>1, <2>3, <2>5, <2>6, LedgerTypes DEF Books
  <2>8. Copies(oid)' = Copies(oid) + 0
    BY <1>2, <2>1, <2>6, LedgerTypes DEF Copies
  <2> QED
    BY <1>1, <2>1, <2>6, <2>7, <2>8 DEF Moves
<1> QED
  BY <1>4, <1>5 DEF CancelLimitOrder

\* What happens to a live table and its archive, for one number.
SideMoves(oid, done, table, archive, table2, archive2) ==
    /\ IsFiniteTable(table2)
    /\ Recorded(oid, table2) \in Int /\ Recorded(oid, archive2) \in Int
    /\ RowsOf(oid, table2) \in Int /\ RowsOf(oid, archive2) \in Int
    /\ Recorded(oid, table2) + Recorded(oid, archive2) =
          Recorded(oid, table) + Recorded(oid, archive) + done
    /\ RowsOf(oid, table2) + RowsOf(oid, archive2) =
          RowsOf(oid, table) + RowsOf(oid, archive)

\* What leaves one sum enters another.
LEMMA Shifted ==
    ASSUME NEW x \in Int, NEW y \in Int, NEW old \in Int, NEW done \in Int
    PROVE  /\ x - old \in Int /\ y + (old + done) \in Int
           /\ (x - old) + (y + (old + done)) = x + y + done
OBVIOUS

\* One side of a trade: the row of the order takes the fill and moves to the
\* archive if the order is filled, and stays where it is if it is not.
LEMMA SideOfTrade ==
    ASSUME NEW table, IsFiniteTable(table), NEW archive \in Seq(Order), NEW k \in DOMAIN table,
           NEW quantity \in Int, NEW row \in Order, row.oid = table[k].oid,
           row.amount_done = table[k].amount_done + quantity, NEW oid
    PROVE  LET done == IF row.oid = oid THEN quantity ELSE 0
           IN  /\ SideMoves(oid, done, table, archive, Erase(table, k), Append(archive, row))
               /\ SideMoves(oid, done, table, archive, Put(table, k, row), archive)
<1>1. table[k].amount_done \in Int
  BY DEF IsFiniteTable, IsTable, Order
<1>2. IsFiniteTable(archive)
  BY SequenceIsTable
<1>3. Recorded(oid, table) \in Int /\ Recorded(oid, archive) \in Int
  BY <1>2, RecordedType
<1>4. RowsOf(oid, table) \in Nat /\ RowsOf(oid, archive) \in Nat
  BY <1>2, RowsType
<1> DEFINE done == IF row.oid = oid THEN quantity ELSE 0
           old  == IF row.oid = oid THEN table[k].amount_done ELSE 0
           one  == IF row.oid = oid THEN 1 ELSE 0
<1>5. done \in Int /\ old \in Int /\ one \in Int
  BY <1>1
<1>6. /\ IsFiniteTable(Erase(table, k))
      /\ Recorded(oid, Erase(table, k)) = Recorded(oid, table) - old
      /\ Recorded(oid, Append(archive, row)) = Recorded(oid, archive) + (old + done)
      /\ RowsOf(oid, Erase(table, k)) = RowsOf(oid, table) - one
      /\ RowsOf(oid, Append(archive, row)) = RowsOf(oid, archive) + one
  BY <1>1, ArchiveRow
<1>7. /\ IsFiniteTable(Put(table, k, row))
      /\ Recorded(oid, Put(table, k, row)) = Recorded(oid, table) + done
      /\ RowsOf(oid, Put(table, k, row)) = RowsOf(oid, table)
  BY <1>1, ChangeRow
<1> HIDE DEF done, old, one
<1>8. SideMoves(oid, done, table, archive, Erase(table, k), Append(archive, row))
  <2> DEFINE table2   == Erase(table, k)
             archive2 == Append(archive, row)
  <2> HIDE DEF table2, archive2
  <2>1. /\ IsFiniteTable(table2)
        /\ Recorded(oid, table2) = Recorded(oid, table) - old
        /\ Recorded(oid, archive2) = Recorded(oid, archive) + (old + done)
        /\ RowsOf(oid, table2) = RowsOf(oid, table) - one
        /\ RowsOf(oid, archive2) = RowsOf(oid, archive) + one
    BY <1>6 DEF table2, archive2
  <2>2. /\ Recorded(oid, table2) \in Int /\ Recorded(oid, archive2) \in Int
        /\ Recorded(oid, table2) + Recorded(oid, archive2) =
              Recorded(oid, table) + Recorded(oid, archive) + done
    BY ONLY <1>3, <1>5, <2>1, Shifted
  <2>3. /\ RowsOf(oid, table2) \in Int /\ RowsOf(oid, archive2) \in Int
        /\ RowsOf(oid, table2) + RowsOf(oid, archive2) =
              RowsOf(oid, table) + RowsOf(oid, archive)
    BY ONLY <1>4, <1>5, <2>1
  <2>4. SideMoves(oid, done, table, archive, table2, archive2)
    BY ONLY <2>1, <2>2, <2>3 DEF SideMoves
  <2> QED
    BY <2>4 DEF table2, archive2
<1>9. SideMoves(oid, done, table, archive, Put(table, k, row), archive)
  <2> DEFINE table2 == Put(table, k, row)
  <2> HIDE DEF table2
  <2>1. /\ IsFiniteTable(table2)
        /\ Recorded(oid, table2) = Recorded(oid, table) + done
        /\ RowsOf(oid, table2) = RowsOf(oid, table)
    BY <1>7 DEF table2
  <2>2. /\ Recorded(oid, table2) \in Int /\ RowsOf(oid, table2) \in Int
        /\ Recorded(oid, table2) + Recorded(oid, archive) =
              Recorded(oid, table) + Recorded(oid, archive) + done
    BY ONLY <1>3, <1>4, <1>5, <2>1
  <2>3. SideMoves(oid, done, table, archive, table2, archive)
    BY ONLY <1>3, <1>4, <2>1, <2>2 DEF SideMoves
  <2> QED
    BY <2>3 DEF table2
<1> QED
  BY <1>8, <1>9 DEF done

\* mlmto records the trade under two numbers, and each order takes it.
LEMMA SettleMoves ==
    ASSUME LedgerInv, NEW b, NEW s, NEW name \in Names,
           MayTrade(b, s, name), Settle(b, s, name),
           UNCHANGED <<cancel_order, commodity_type, now>>, NEW oid
    PROVE  \E quantity \in Int :
               /\ Moves(oid, quantity, 0)
               /\ Traded(oid)' = Traded(oid) + quantity
<1> DEFINE bid      == buyer[b]
           ask      == seller[s]
           quantity == Matched(bid, ask)
           price    == DealPrice(name, bid.request, ask.request)
           bid2     == Filled(bid, quantity)
           ask2     == Filled(ask, quantity)
           trade    == [buyer_oid  |-> bid.oid,
                        seller_oid |-> ask.oid,
                        bid        |-> bid.request,
                        ask        |-> ask.request,
                        commodity  |-> IF name = NoName THEN bid.request.commodity ELSE name,
                        amount     |-> quantity,
                        price      |-> TradePrice(name, ask.request, price)]
           amount   == (IF bid.oid = oid THEN quantity ELSE 0)
                           + (IF ask.oid = oid THEN quantity ELSE 0)
<1>1. IInv /\ TypeOK /\ StatusTellsTable
  BY DEF LedgerInv, IInv
<1>2. /\ bid \in Order /\ ask \in Order /\ quantity \in Int
      /\ b \in DOMAIN buyer /\ s \in DOMAIN seller
  BY <1>1, TradeFacts DEF MayTrade
<1>3. /\ bid2 \in Order /\ bid2.oid = bid.oid /\ bid2.amount_done = bid.amount_done + quantity
      /\ ask2 \in Order /\ ask2.oid = ask.oid /\ ask2.amount_done = ask.amount_done + quantity
  BY <1>2, FilledType
<1>4. /\ matched_order' = Append(matched_order, trade)
      /\ IF BuyerFilled(bid, ask)
         THEN buyer_order' = Append(buyer_order, bid2) /\ buyer' = Erase(buyer, b)
         ELSE buyer' = Put(buyer, b, bid2) /\ buyer_order' = buyer_order
      /\ IF SellerFilled(bid, ask)
         THEN seller_order' = Append(seller_order, ask2) /\ seller' = Erase(seller, s)
         ELSE seller' = Put(seller, s, ask2) /\ seller_order' = seller_order
  BY DEF Settle
<1>6. trade \in Trade
  <2>1. matched_order' \in Seq(Trade) /\ matched_order \in Seq(Trade)
    BY <1>1, SettleTypeOK DEF TypeOK
  <2>2. matched_order'[Len(matched_order) + 1] = trade
    BY <1>4, <2>1
  <2>3. Len(matched_order') = Len(matched_order) + 1
    BY <1>4, <2>1
  <2> HIDE DEF trade
  <2> QED
    BY <2>1, <2>2, <2>3
<1>7. AmountOf(trade, oid) = amount
  BY DEF AmountOf
<1>8. /\ IsFiniteTable(buyer) /\ IsFiniteTable(seller)
      /\ buyer_order \in Seq(Order) /\ seller_order \in Seq(Order)
      /\ matched_order \in Seq(Trade)
  BY <1>1 DEF LedgerInv, TypeOK
<1> HIDE DEF bid2, ask2, quantity, price, trade
<1>9. Traded(oid)' = Traded(oid) + amount
  BY <1>4, <1>6, <1>7, <1>8, TradedAppend
<1>10. SideMoves(oid, IF bid2.oid = oid THEN quantity ELSE 0,
                 buyer, buyer_order, buyer', buyer_order')
  <2>1. CASE BuyerFilled(bid, ask)
    <3>1. buyer_order' = Append(buyer_order, bid2) /\ buyer' = Erase(buyer, b)
      BY <1>4, <2>1
    <3> QED
      BY <1>2, <1>3, <1>8, <3>1, SideOfTrade
  <2>2. CASE ~ BuyerFilled(bid, ask)
    <3>1. buyer' = Put(buyer, b, bid2) /\ buyer_order' = buyer_order
      BY <1>4, <2>2
    <3> QED
      BY <1>2, <1>3, <1>8, <3>1, SideOfTrade
  <2> QED
    BY <2>1, <2>2
<1>11. SideMoves(oid, IF ask2.oid = oid THEN quantity ELSE 0,
                 seller, seller_order, seller', seller_order')
  <2>1. CASE SellerFilled(bid, ask)
    <3>1. seller_order' = Append(seller_order, ask2) /\ seller' = Erase(seller, s)
      BY <1>4, <2>1
    <3> QED
      BY <1>2, <1>3, <1>8, <3>1, SideOfTrade
  <2>2. CASE ~ SellerFilled(bid, ask)
    <3>1. seller' = Put(seller, s, ask2) /\ seller_order' = seller_order
      BY <1>4, <2>2
    <3> QED
      BY <1>2, <1>3, <1>8, <3>1, SideOfTrade
  <2> QED
    BY <2>1, <2>2
<1>12. Books(oid)' = Books(oid) + amount
  BY <1>2, <1>3, <1>10, <1>11, LedgerTypes DEF Books, SideMoves
<1>13. Copies(oid)' = Copies(oid) + 0
  BY <1>10, <1>11, LedgerTypes DEF Copies, SideMoves
<1>14. amount \in Int
  BY <1>2
<1> HIDE DEF amount
<1> QED
  BY <1>9, <1>10, <1>11, <1>12, <1>13, <1>14 DEF Moves, SideMoves

\* Nothing is recorded and nothing traded at first.
LEMMA InitLedgerInv == Init => LedgerInv
<1> SUFFICES ASSUME Init
             PROVE  LedgerInv
  OBVIOUS
<1>1. IInv
  BY InitIInv
<1>2. IsFiniteTable(buyer) /\ IsFiniteTable(seller)
  <2>1. DOMAIN buyer = {} /\ DOMAIN seller = {}
    BY DEF Init
  <2> QED
    BY <1>1, <2>1, FS_EmptySet DEF IsFiniteTable, IInv, TypeOK
<1>3. ASSUME NEW oid
      PROVE  Traded(oid) = Books(oid)
  <2>1. \A f : f = << >> => SumOf(f) = 0
    BY SumEmpty
  <2>2. Traded(oid) = 0
    BY <2>1 DEF Traded, Init
  <2>3. \A table : table = << >> => Recorded(oid, table) = 0
    BY <2>1 DEF Recorded
  <2> QED
    BY <2>2, <2>3 DEF Books, Init
<1> QED
  BY <1>1, <1>2, <1>3 DEF LedgerInv

\* Where nothing is traded, the trades of a number add up as before.
LEMMA TradedSame ==
    ASSUME UNCHANGED matched_order, NEW oid
    PROVE  Traded(oid)' = Traded(oid)
BY DEF Traded

\* What one step does to the ledger of a number.
LEMMA NextMoves ==
    ASSUME LedgerInv, [Next]_vars, NEW oid
    PROVE  \/ \E quantity \in Int :
                 Moves(oid, quantity, 0) /\ Traded(oid)' = Traded(oid) + quantity
           \/ /\ AppearsLive(oid)
              /\ Moves(oid, 0, 1) /\ Traded(oid)' = Traded(oid)
<1>1. Traded(oid) \in Int /\ Books(oid) \in Int /\ Copies(oid) \in Int
  BY LedgerTypes DEF LedgerInv, Books, Copies
<1>2. ASSUME NEW r \in Requests, LimitOrder(r)
      PROVE  \/ Moves(oid, 0, 0)
             \/ AppearsLive(oid) /\ Moves(oid, 0, 1)
  BY <1>2, LimitOrderMoves
<1>3. ASSUME NEW r \in Requests, LimitOrder(r)
      PROVE  UNCHANGED matched_order
  BY <1>3 DEF LimitOrder
<1>4. ASSUME NEW coid, CancelLimitOrder(coid)
      PROVE  Moves(oid, 0, 0) /\ UNCHANGED matched_order
  BY <1>4, CancelMoves DEF CancelLimitOrder
<1>5. ASSUME NEW boid, NEW soid, NEW name \in Names, MatchLimitOrder(boid, soid, name)
      PROVE  \E quantity \in Int :
                 Moves(oid, quantity, 0) /\ Traded(oid)' = Traded(oid) + quantity
  <2>1. PICK b \in DOMAIN buyer, s \in DOMAIN seller :
            /\ MayTrade(b, s, name)
            /\ Settle(b, s, name)
            /\ UNCHANGED <<cancel_order, commodity_type, now>>
    BY <1>5 DEF MatchLimitOrder, MayTrade
  <2> QED
    BY <2>1, SettleMoves
<1>6. CASE NextBlock \/ UNCHANGED vars
  <2>1. UNCHANGED <<buyer, seller, buyer_order, seller_order, cancel_order, matched_order>>
    BY <1>6 DEF NextBlock, vars
  <2>2. Books(oid)' = Books(oid) /\ Copies(oid)' = Copies(oid)
    BY <2>1 DEF Books, Copies
  <2>3. Moves(oid, 0, 0) /\ UNCHANGED matched_order
    BY <1>1, <2>1, <2>2 DEF Moves, LedgerInv
  <2> QED
    BY <1>1, <2>3, TradedSame
<1> QED
  BY <1>1, <1>2, <1>3, <1>4, <1>5, <1>6, TradedSame DEF Next

\* Every step keeps the ledger.
LEMMA NextLedgerInv == LedgerInv /\ [Next]_vars => LedgerInv'
<1> SUFFICES ASSUME LedgerInv, [Next]_vars
             PROVE  LedgerInv'
  OBVIOUS
<1>1. IInv'
  BY NextIInv DEF LedgerInv
<1>2. ASSUME NEW oid
      PROVE  IsFiniteTable(buyer') /\ IsFiniteTable(seller') /\ Traded(oid)' = Books(oid)'
  <2>1. Traded(oid) = Books(oid) /\ Books(oid) \in Int
    BY LedgerTypes DEF LedgerInv, Books
  <2> QED
    BY <2>1, NextMoves DEF Moves
<1>3. \A oid : Traded(oid)' = Books(oid)'
  BY <1>2
<1>4. IsFiniteTable(buyer') /\ IsFiniteTable(seller')
  BY <1>2
<1> QED
  BY <1>1, <1>3, <1>4 DEF LedgerInv

-----------------------------------------------------------------------------
(* The last price *)

PriceInv == IInv /\ LastPriceIsLastTrade

\* The trades of a commodity name.
TradesOf(name) == {i \in DOMAIN matched_order : matched_order[i].commodity = name}

\* mlmto writes the price that it records: the trade it appends is the last
\* one of its name, and the last one of every other name stays.
LEMMA SettlePriceInv ==
    ASSUME NoName \notin Names, PriceInv, NEW b, NEW s, NEW name \in Names,
           MayTrade(b, s, name), Settle(b, s, name),
           UNCHANGED <<cancel_order, commodity_type, now>>
    PROVE  LastPriceIsLastTrade'
<1> DEFINE bid   == buyer[b]
           ask   == seller[s]
           price == DealPrice(name, bid.request, ask.request)
           n     == Len(matched_order) + 1
           trade == matched_order'[n]
<1>1. matched_order \in Seq(Trade) /\ matched_order' \in Seq(Trade)
  BY SettleTypeOK DEF PriceInv, IInv, TypeOK
<1>2. /\ DOMAIN matched_order' = DOMAIN matched_order \cup {n}
      /\ \A i \in DOMAIN matched_order : i \in Nat /\ i < n /\ matched_order'[i] = matched_order[i]
      /\ trade.commodity = name
      /\ trade.price = TradePrice(name, ask.request, price)
  <2> DEFINE row == [buyer_oid  |-> bid.oid,
                     seller_oid |-> ask.oid,
                     bid        |-> bid.request,
                     ask        |-> ask.request,
                     commodity  |-> IF name = NoName THEN bid.request.commodity ELSE name,
                     amount     |-> Matched(bid, ask),
                     price      |-> TradePrice(name, ask.request, price)]
  <2>1. matched_order' = Append(matched_order, row)
    BY DEF Settle
  <2>2. row.commodity = name /\ row.price = TradePrice(name, ask.request, price)
    BY NoName \notin Names
  <2> HIDE DEF row
  <2>3. /\ Len(matched_order') = n /\ trade = row /\ Len(matched_order) \in Nat
        /\ \A i \in 1 .. Len(matched_order) : matched_order'[i] = matched_order[i]
    BY <1>1, <2>1
  <2>4. /\ DOMAIN matched_order = 1 .. Len(matched_order)
        /\ DOMAIN matched_order' = 1 .. Len(matched_order')
    BY <1>1
  <2> QED
    BY <2>2, <2>3, <2>4
<1>3. matched_price' = Put(matched_price, name, price)
  BY DEF Settle
<1>4. trade.price = price
  BY <1>2 DEF TradePrice, DealPrice
<1>5. n \in Nat
  BY <1>1
<1> HIDE DEF n, trade, price
<1> SUFFICES ASSUME NEW other \in {matched_order'[i].commodity : i \in DOMAIN matched_order'}
             PROVE  /\ other \in DOMAIN matched_price'
                    /\ matched_price'[other] = matched_order'[Max(TradesOf(other)')].price
  BY DEF LastPriceIsLastTrade, TradesOf
<1>6. CASE other = name
  <2>1. /\ TradesOf(name)' \in SUBSET Nat
        /\ n \in TradesOf(name)' /\ \A i \in TradesOf(name)' : i <= n
    BY <1>2, <1>5 DEF TradesOf, trade
  <2>2. Max(TradesOf(name)') = n
    BY <2>1, GreatestIs
  <2> QED
    BY <1>3, <1>4, <1>6, <2>2 DEF Put, trade
<1>7. CASE other # name
  <2>1. TradesOf(other)' = TradesOf(other)
    BY <1>2, <1>7 DEF TradesOf, trade
  <2>2. other \in {matched_order[i].commodity : i \in DOMAIN matched_order}
    BY <1>2, <1>7 DEF trade
  <2>3. /\ other \in DOMAIN matched_price
        /\ matched_price[other] = matched_order[Max(TradesOf(other))].price
    BY <2>2 DEF PriceInv, LastPriceIsLastTrade, TradesOf
  <2>4. Max(TradesOf(other)) \in DOMAIN matched_order
    <3> DEFINE S == TradesOf(other)
    <3>1. S # {} /\ S \in SUBSET Nat /\ \A i \in S : i <= n
      BY <1>2, <1>5, <2>2 DEF TradesOf
    <3> HIDE DEF S
    <3>2. Max(S) \in S
      BY <1>5, <3>1, GreatestOfNumbers
    <3> QED
      BY <3>2 DEF S, TradesOf
  <2> QED
    BY <1>2, <1>3, <1>7, <2>1, <2>3, <2>4 DEF Put
<1> QED
  BY <1>6, <1>7

-----------------------------------------------------------------------------
(* Theorems *)

\* The inductive invariant holds always.
THEOREM Invariance == Spec => []IInv
BY InitIInv, NextIInv, PTL DEF Spec

\* Every table of the contract holds rows of its type, always.
THEOREM TypeCorrect == Spec => []TypeOK
<1>1. IInv => TypeOK
  BY DEF IInv
<1> QED
  BY <1>1, Invariance, PTL

\* The table an order is in, its stat and its amount_done agree, always.
THEOREM StatusCorrect == Spec => []StatusTellsTable
<1>1. IInv => StatusTellsTable
  BY DEF IInv
<1> QED
  BY <1>1, Invariance, PTL

\* Where the requests' numbers do not run into each other, an order number
\* names at most one live order, always.
THEOREM OidsCorrect ==
    ASSUME Unambiguous
    PROVE  Spec => []LiveOidsUnique
<1>1. IInv => LiveOidsUnique
  BY Unambiguous, IInvLiveOidsUnique
<1> QED
  BY <1>1, Invariance, PTL

\* What is traded and what the orders record always add up, for every number.
THEOREM LedgerInvariance == Spec => []LedgerInv
BY InitLedgerInv, NextLedgerInv, PTL DEF Spec

\* The trades in ctoc add up to what the orders of their numbers record, over
\* live and archived tables, always.
THEOREM FillsCorrect == Spec => []FillsAddUp
<1>1. LedgerInv => FillsAddUp
  BY DEF LedgerInv, FillsAddUp, Books
<1> QED
  BY <1>1, LedgerInvariance, PTL

\* No step loses an order or doubles one.
THEOREM OrdersMove == Spec => OrdersOnlyMove
<1>1. LedgerInv /\ [Next]_vars =>
          [\A oid \in AllOids \cup AllOids' :
              \/ Copies(oid)' = Copies(oid)
              \/ /\ Appears(oid, buyer, buyer') \/ Appears(oid, seller, seller')
                 /\ Copies(oid)' = Copies(oid) + 1]_vars
  <2> SUFFICES ASSUME LedgerInv, [Next]_vars, NEW oid
               PROVE  \/ Copies(oid)' = Copies(oid)
                      \/ /\ Appears(oid, buyer, buyer') \/ Appears(oid, seller, seller')
                         /\ Copies(oid)' = Copies(oid) + 1
    OBVIOUS
  <2>1. Copies(oid) \in Int
    BY LedgerTypes DEF Copies
  <2> QED
    BY <2>1, NextMoves DEF Moves, AppearsLive
<1> QED
  BY <1>1, LedgerInvariance, PTL DEF Spec, OrdersOnlyMove

\* Provided that mlmto is never called with the name "", which it replaces in
\* ctoc but not in matchedprice, matchedprice holds the price of the last trade
\* of each name, always.
THEOREM LastPrice ==
    ASSUME NoName \notin Names
    PROVE  Spec => []LastPriceIsLastTrade
<1>1. Init => PriceInv
  BY InitIInv DEF Init, PriceInv, LastPriceIsLastTrade
<1>2. PriceInv /\ [Next]_vars => PriceInv'
  <2> SUFFICES ASSUME PriceInv, [Next]_vars
               PROVE  PriceInv'
    OBVIOUS
  <2>1. IInv'
    BY NextIInv DEF PriceInv
  <2>2. ASSUME UNCHANGED <<matched_order, matched_price>>
        PROVE  LastPriceIsLastTrade'
    BY <2>2 DEF PriceInv, LastPriceIsLastTrade
  <2>3. ASSUME NEW boid, NEW soid, NEW name \in Names, MatchLimitOrder(boid, soid, name)
        PROVE  LastPriceIsLastTrade'
    <3>1. PICK b \in DOMAIN buyer, s \in DOMAIN seller :
              /\ MayTrade(b, s, name)
              /\ Settle(b, s, name)
              /\ UNCHANGED <<cancel_order, commodity_type, now>>
      BY <2>3 DEF MatchLimitOrder, MayTrade
    <3> QED
      BY <3>1, SettlePriceInv
  <2>4. ASSUME \/ \E r \in Requests : LimitOrder(r)
               \/ \E oid \in Oids(buyer) \cup Oids(seller) : CancelLimitOrder(oid)
               \/ NextBlock
               \/ UNCHANGED vars
        PROVE  LastPriceIsLastTrade'
    BY <2>2, <2>4 DEF LimitOrder, CancelLimitOrder, NextBlock, vars
  <2>5. LastPriceIsLastTrade'
    BY <2>3, <2>4 DEF Next
  <2> QED
    BY <2>1, <2>5 DEF PriceInv
<1>3. PriceInv => LastPriceIsLastTrade
  BY DEF PriceInv
<1> QED
  BY <1>1, <1>2, <1>3, PTL DEF Spec

\* Where no order is for less than nothing, no trade and no order with all the
\* trades that filled it is for more than was asked, always.
THEOREM QuantitiesCorrect ==
    ASSUME NaturalAmounts
    PROVE  Spec => []DealsHonourQuantities
<1>1. Init => IInv /\ DealsHonourQuantities
  BY InitIInv DEF Init, DealsHonourQuantities
<1>2. IInv /\ DealsHonourQuantities /\ [Next]_vars => (IInv /\ DealsHonourQuantities)'
  BY NaturalAmounts, NextIInv, NextQuantities
<1> QED
  BY <1>1, <1>2, PTL DEF Spec

\* Every trade in ctoc honours the limits of both of its orders, always, and
\* whatever quantities and prices are asked for.
THEOREM DealsCorrect == Spec => []DealsHonourLimits
<1>1. IInv => DealsHonourLimits
  BY DEF IInv
<1> QED
  BY <1>1, Invariance, PTL
=============================================================================
