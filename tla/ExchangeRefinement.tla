------------------------ MODULE ExchangeRefinement ------------------------
(***************************************************************************)
(* The proof that the tables of the contract implement the order book of   *)
(* OrderBook: each step of Exchange is a step of the book or a stutter.    *)
(***************************************************************************)
EXTENDS ExchangeProofs

-----------------------------------------------------------------------------
(* What the steps on a table do to the book that is seen in it *)

\* A new row is an order placed, as the book sees it.
LEMMA RestingPlaced ==
    ASSUME NEW table, NEW terms \in SUBSET Requests, NEW k, k \notin DOMAIN table,
           NEW r \in terms
    PROVE  Resting(Put(table, k, NewOrder(k, r)), terms)
               = OB!Placed(Resting(table, terms), k, r)
<1> DEFINE row  == NewOrder(k, r)
           put  == Put(table, k, row)
           book == Resting(table, terms)
<1>1. row.request = r /\ Left(row) = Quantity[r]
  BY RequestType DEF NewOrder, Left, Quantity
<1>2. /\ DOMAIN put = DOMAIN table \cup {k}
      /\ put[k] = row
      /\ \A j \in DOMAIN table : put[j] = table[j]
  BY DEF Put
<1> HIDE DEF row, put
<1>3. DOMAIN Resting(put, terms) = DOMAIN book \cup {k}
  BY <1>1, <1>2 DEF Resting
<1>4. \A j \in DOMAIN Resting(put, terms) :
          Resting(put, terms)[j] =
              IF j = k THEN [terms |-> r, left |-> Quantity[r]] ELSE book[j]
  BY <1>1, <1>2 DEF Resting
<1>5. Resting(put, terms) =
          [j \in DOMAIN book \cup {k} |->
              IF j = k THEN [terms |-> r, left |-> Quantity[r]] ELSE book[j]]
  BY <1>3, <1>4 DEF Resting
<1> QED
  BY <1>5 DEF OB!Placed, OB!With, put, row

\* A row whose terms are not among those seen does not show.
LEMMA RestingPutUnseen ==
    ASSUME NEW table, NEW terms, NEW k, k \notin DOMAIN table,
           NEW row, row.request \notin terms
    PROVE  Resting(Put(table, k, row), terms) = Resting(table, terms)
<1> DEFINE put  == Put(table, k, row)
<1>1. /\ DOMAIN put = DOMAIN table \cup {k}
      /\ put[k] = row
      /\ \A j \in DOMAIN table : put[j] = table[j]
  BY DEF Put
<1> HIDE DEF put
<1>2. {j \in DOMAIN put : put[j].request \in terms}
          = {j \in DOMAIN table : table[j].request \in terms}
  BY <1>1
<1> QED
  BY <1>1, <1>2 DEF Resting, put

\* A row erased is an order taken out of the book, or one not seen in it.
LEMMA RestingErased ==
    ASSUME NEW table, NEW terms, NEW k \in DOMAIN table
    PROVE  /\ table[k].request \in terms =>
                /\ k \in DOMAIN Resting(table, terms)
                /\ Resting(Erase(table, k), terms)
                       = OB!Without(Resting(table, terms), k)
           /\ table[k].request \notin terms =>
                Resting(Erase(table, k), terms) = Resting(table, terms)
<1> DEFINE erased == Erase(table, k)
<1>1. /\ DOMAIN erased = DOMAIN table \ {k}
      /\ \A j \in DOMAIN erased : erased[j] = table[j]
  BY DEF Erase
<1> HIDE DEF erased
<1>2. {j \in DOMAIN erased : erased[j].request \in terms}
          = {j \in DOMAIN table : table[j].request \in terms} \ {k}
  BY <1>1
<1>3. Resting(erased, terms) =
          [j \in {i \in DOMAIN table : table[i].request \in terms} \ {k} |->
              [terms |-> table[j].request, left |-> Left(table[j])]]
  BY <1>1, <1>2 DEF Resting
<1>4. CASE table[k].request \in terms
  BY <1>3, <1>4 DEF Resting, OB!Without, erased
<1>5. CASE table[k].request \notin terms
  <2>1. {i \in DOMAIN table : table[i].request \in terms} \ {k}
            = {i \in DOMAIN table : table[i].request \in terms}
    BY <1>5
  <2> QED
    BY <1>3, <1>5, <2>1 DEF Resting, erased
<1> QED
  BY <1>4, <1>5

\* What is seen of a row that takes a fill and stays.
LEMMA RestingFilled ==
    ASSUME NEW table, IsTable(table, Order), NEW terms, NEW k \in DOMAIN table,
           table[k].request \in terms, NEW quantity \in Int
    PROVE  /\ k \in DOMAIN Resting(table, terms)
           /\ Resting(Put(table, k, Filled(table[k], quantity)), terms)
                  = OB!With(Resting(table, terms), k,
                        [Resting(table, terms)[k] EXCEPT !.left = @ - quantity])
<1> DEFINE row  == Filled(table[k], quantity)
           put  == Put(table, k, row)
           book == Resting(table, terms)
<1>0. table[k] \in Order
  BY DEF IsTable
<1>1. row.request = table[k].request /\ row.amount_done = table[k].amount_done + quantity
  BY <1>0, FilledType
<1>2. Left(row) = Left(table[k]) - quantity
  <2>1. table[k].amount_done \in Int /\ table[k].request.amount \in Int
    BY <1>0, RequestType DEF Order
  <2> QED
    BY <1>1, <2>1 DEF Left
<1>3. /\ DOMAIN put = DOMAIN table
      /\ put[k] = row
      /\ \A j \in DOMAIN table : j # k => put[j] = table[j]
  BY DEF Put
<1> HIDE DEF row, put
<1>4. book[k] = [terms |-> table[k].request, left |-> Left(table[k])]
  BY DEF Resting
<1>5. DOMAIN Resting(put, terms) = DOMAIN book /\ k \in DOMAIN book
  BY <1>1, <1>3 DEF Resting
<1>6. \A j \in DOMAIN Resting(put, terms) :
          Resting(put, terms)[j] =
              IF j = k THEN [terms |-> table[k].request, left |-> Left(table[k]) - quantity]
              ELSE book[j]
  BY <1>1, <1>2, <1>3 DEF Resting
<1>7. [book[k] EXCEPT !.left = @ - quantity]
          = [terms |-> table[k].request, left |-> Left(table[k]) - quantity]
  BY <1>4
<1>8. Resting(put, terms) =
          [j \in DOMAIN book \cup {k} |->
              IF j = k THEN [terms |-> table[k].request, left |-> Left(table[k]) - quantity]
              ELSE book[j]]
  BY <1>5, <1>6 DEF Resting
<1> HIDE DEF book
<1>9. Resting(put, terms) = OB!With(book, k, [book[k] EXCEPT !.left = @ - quantity])
  BY <1>7, <1>8 DEF OB!With
<1> QED
  BY <1>5, <1>9 DEF book, put, row

\* The trades seen grow with the trades listed.
LEMMA BookDealsGrow ==
    ASSUME NEW seq \in Seq(Trade), NEW trade \in Trade
    PROVE  [i \in DOMAIN Append(seq, trade) |-> BookDeal(Append(seq, trade)[i])]
               = Append([i \in DOMAIN seq |-> BookDeal(seq[i])], BookDeal(trade))
<1> DEFINE new  == Append(seq, trade)
           seen == [i \in DOMAIN seq |-> BookDeal(seq[i])]
<1>1. /\ DOMAIN seq = 1 .. Len(seq) /\ Len(seq) \in Nat
      /\ DOMAIN new = 1 .. Len(seq) + 1
      /\ \A i \in DOMAIN new : new[i] = IF i = Len(seq) + 1 THEN trade ELSE seq[i]
  OBVIOUS
<1>2. /\ seen \in Seq({BookDeal(t) : t \in Trade})
      /\ Len(seen) = Len(seq)
  <2>1. seen \in [1 .. Len(seq) -> {BookDeal(t) : t \in Trade}]
    BY <1>1
  <2> HIDE DEF seen
  <2> QED
    BY <1>1, <2>1
<1> HIDE DEF new, seen
<1>3. BookDeal(trade) \in {BookDeal(t) : t \in Trade}
  OBVIOUS
<1>4. Append(seen, BookDeal(trade)) =
          [i \in 1 .. Len(seq) + 1 |->
              IF i = Len(seq) + 1 THEN BookDeal(trade) ELSE seen[i]]
  BY <1>2, <1>3, AppendIsFunction
<1>5. [i \in DOMAIN new |-> BookDeal(new[i])] =
          [i \in 1 .. Len(seq) + 1 |->
              IF i = Len(seq) + 1 THEN BookDeal(trade) ELSE seen[i]]
  BY <1>1 DEF seen
<1> QED
  BY <1>4, <1>5 DEF new, seen

-----------------------------------------------------------------------------
(* Steps *)

\* Empty tables are an empty book.
LEMMA InitBook == Init => OB!Init
BY DEF Init, OB!Init, BookBids, BookAsks, BookDeals, Resting

\* A placed order is a bid or an ask of the book, or cannot be seen in it.
LEMMA LimitOrderBook ==
    ASSUME IInv, NEW r \in Requests, LimitOrder(r)
    PROVE  [OB!Next]_(OB!vars)
<1>1. PICK id \in 0 .. MaxOrders :
          IF r.oper = Buy
          THEN /\ IsAvailableKey(buyer, id)
               /\ buyer' = Put(buyer, id, NewOrder(id, r))
               /\ seller' = seller
          ELSE /\ IsAvailableKey(seller, id)
               /\ seller' = Put(seller, id, NewOrder(id, r))
               /\ buyer' = buyer
  BY DEF LimitOrder
<1>2. BookDeals' = BookDeals
  BY DEF LimitOrder, BookDeals
<1>3. IsTable(buyer, Order) /\ IsTable(seller, Order)
  BY DEF IInv, TypeOK
<1>4. CASE r.oper = Buy
  <2>1. id \notin DOMAIN buyer
    BY <1>1, <1>3, <1>4, AvailableKeyIsNew
  <2>2. r \in Bids /\ Bids \in SUBSET Requests
    BY <1>4 DEF Bids
  <2>3. BookBids' = OB!Placed(BookBids, id, r)
    BY <1>1, <1>4, <2>1, <2>2, RestingPlaced DEF BookBids
  <2>4. BookAsks' = BookAsks
    BY <1>1, <1>4 DEF BookAsks
  <2>5. id \notin DOMAIN BookBids
    BY <2>1 DEF BookBids, Resting
  <2> QED
    BY <1>2, <2>2, <2>3, <2>4, <2>5 DEF OB!Next, OB!PlaceBid
<1>5. CASE r.oper # Buy /\ r.oper = Sell
  <2>1. id \notin DOMAIN seller
    BY <1>1, <1>3, <1>5, AvailableKeyIsNew
  <2>2. r \in Asks /\ Asks \in SUBSET Requests
    BY <1>5 DEF Asks
  <2>3. BookAsks' = OB!Placed(BookAsks, id, r)
    BY <1>1, <1>5, <2>1, <2>2, RestingPlaced DEF BookAsks
  <2>4. BookBids' = BookBids
    BY <1>1, <1>5 DEF BookBids
  <2>5. id \notin DOMAIN BookAsks
    BY <2>1 DEF BookAsks, Resting
  <2> QED
    BY <1>2, <2>2, <2>3, <2>4, <2>5 DEF OB!Next, OB!PlaceAsk
<1>6. CASE r.oper # Buy /\ r.oper # Sell
  <2>1. id \notin DOMAIN seller
    BY <1>1, <1>3, <1>6, AvailableKeyIsNew
  <2>2. NewOrder(id, r).request \notin Asks
    BY <1>6 DEF NewOrder, Asks
  <2>3. BookAsks' = BookAsks
    BY <1>1, <1>6, <2>1, <2>2, RestingPutUnseen DEF BookAsks
  <2>4. BookBids' = BookBids
    BY <1>1, <1>6 DEF BookBids
  <2> QED
    BY <1>2, <2>3, <2>4 DEF OB!vars
<1> QED
  BY <1>4, <1>5, <1>6

\* A cancellation withdraws an order of the book, or one not seen in it.
LEMMA CancelBook ==
    ASSUME IInv, NEW oid, CancelLimitOrder(oid)
    PROVE  [OB!Next]_(OB!vars)
<1>1. BookDeals' = BookDeals
  BY DEF CancelLimitOrder, BookDeals
<1>2. CASE \E b \in DOMAIN buyer : buyer' = Erase(buyer, b) /\ UNCHANGED seller
  <2>1. PICK b \in DOMAIN buyer : buyer' = Erase(buyer, b) /\ UNCHANGED seller
    BY <1>2
  <2>2. BookAsks' = BookAsks
    BY <2>1 DEF BookAsks
  <2>3. CASE buyer[b].request \in Bids
    <3>1. b \in DOMAIN BookBids /\ BookBids' = OB!Without(BookBids, b)
      BY <2>1, <2>3, RestingErased DEF BookBids
    <3> QED
      BY <1>1, <2>2, <3>1 DEF OB!Next, OB!WithdrawBid
  <2>4. CASE buyer[b].request \notin Bids
    <3>1. BookBids' = BookBids
      BY <2>1, <2>4, RestingErased DEF BookBids
    <3> QED
      BY <1>1, <2>2, <3>1 DEF OB!vars
  <2> QED
    BY <2>3, <2>4
<1>3. CASE \E s \in DOMAIN seller : seller' = Erase(seller, s) /\ UNCHANGED buyer
  <2>1. PICK s \in DOMAIN seller : seller' = Erase(seller, s) /\ UNCHANGED buyer
    BY <1>3
  <2>2. BookBids' = BookBids
    BY <2>1 DEF BookBids
  <2>3. CASE seller[s].request \in Asks
    <3>1. s \in DOMAIN BookAsks /\ BookAsks' = OB!Without(BookAsks, s)
      BY <2>1, <2>3, RestingErased DEF BookAsks
    <3> QED
      BY <1>1, <2>2, <3>1 DEF OB!Next, OB!WithdrawAsk
  <2>4. CASE seller[s].request \notin Asks
    <3>1. BookAsks' = BookAsks
      BY <2>1, <2>4, RestingErased DEF BookAsks
    <3> QED
      BY <1>1, <2>2, <3>1 DEF OB!vars
  <2> QED
    BY <2>3, <2>4
<1> QED
  BY <1>2, <1>3 DEF CancelLimitOrder

\* One side of a trade, seen in the book: filled orders leave it, the others
\* stay with less to trade.
LEMMA DealtBook ==
    ASSUME NEW table, IsTable(table, Order), NEW terms, NEW k \in DOMAIN table,
           table[k].request \in terms, NEW quantity \in Int, NEW new,
           IF quantity = Left(table[k])
           THEN new = Erase(table, k)
           ELSE new = Put(table, k, Filled(table[k], quantity))
    PROVE  /\ k \in DOMAIN Resting(table, terms)
           /\ Resting(table, terms)[k].terms = table[k].request
           /\ Resting(table, terms)[k].left = Left(table[k])
           /\ Resting(new, terms) = OB!Dealt(Resting(table, terms), k, quantity)
<1>1. /\ k \in DOMAIN Resting(table, terms)
      /\ Resting(table, terms)[k].terms = table[k].request
      /\ Resting(table, terms)[k].left = Left(table[k])
  BY DEF Resting
<1>2. CASE quantity = Left(table[k])
  BY <1>1, <1>2, RestingErased DEF OB!Dealt
<1>3. CASE quantity # Left(table[k])
  BY <1>1, <1>3, RestingFilled DEF OB!Dealt
<1> QED
  BY <1>1, <1>2, <1>3

\* A trade of mlmto is a deal of the book.
LEMMA SettleBook ==
    ASSUME IInv, NEW b, NEW s, NEW name \in Names,
           MayTrade(b, s, name), Settle(b, s, name),
           UNCHANGED <<cancel_order, commodity_type, now>>
    PROVE  OB!MakeDeal
<1> DEFINE bid      == buyer[b]
           ask      == seller[s]
           quantity == Matched(bid, ask)
           last     == DealPrice(name, bid.request, ask.request)
           price    == TradePrice(name, ask.request, last)
           trade    == [buyer_oid  |-> bid.oid,
                        seller_oid |-> ask.oid,
                        bid        |-> bid.request,
                        ask        |-> ask.request,
                        commodity  |-> IF name = NoName THEN bid.request.commodity ELSE name,
                        amount     |-> quantity,
                        price      |-> price]
<1>1. /\ TypeOK /\ DealsHonourLimits' /\ TypeOK'
      /\ IsTable(buyer, Order) /\ IsTable(seller, Order)
      /\ matched_order \in Seq(Trade)
  BY SettleIInv DEF IInv, TypeOK
<1>2. /\ b \in DOMAIN buyer /\ s \in DOMAIN seller
      /\ Compatible(bid.request, ask.request)
  BY DEF MayTrade
<1>3. /\ bid \in Order /\ ask \in Order
      /\ bid.request \in Requests /\ ask.request \in Requests
      /\ quantity \in Int
  BY TradeFacts DEF IInv
<1>4. bid.request \in Bids /\ ask.request \in Asks
  BY <1>2, <1>3 DEF Compatible, Bids, Asks
<1>5. /\ BuyerFilled(bid, ask) <=> quantity = Left(bid)
      /\ SellerFilled(bid, ask) <=> quantity = Left(ask)
      /\ \/ quantity = Left(bid) /\ Left(bid) <= Left(ask)
         \/ quantity = Left(ask) /\ Left(ask) <= Left(bid)
  <2>1. Left(bid) \in Int /\ Left(ask) \in Int
    BY <1>3, MatchedIsLess
  <2> QED
    BY <2>1 DEF Matched, BuyerFilled, SellerFilled
<1>6. /\ IF BuyerFilled(bid, ask)
         THEN buyer' = Erase(buyer, b)
         ELSE buyer' = Put(buyer, b, Filled(bid, quantity))
      /\ IF SellerFilled(bid, ask)
         THEN seller' = Erase(seller, s)
         ELSE seller' = Put(seller, s, Filled(ask, quantity))
      /\ matched_order' = Append(matched_order, trade)
  BY DEF Settle
<1>7. /\ matched_order' \in Seq(Trade)
      /\ Len(matched_order) \in Nat
      /\ Len(matched_order') = Len(matched_order) + 1
      /\ matched_order'[Len(matched_order) + 1] = trade
  <2>1. matched_order' \in Seq(Trade)
    BY <1>1 DEF TypeOK
  <2> HIDE DEF trade
  <2> QED
    BY <1>1, <1>6, <2>1
<1>8. trade \in Trade
  <2> HIDE DEF trade
  <2> QED
    BY <1>7
<1>9. price \in Prices /\ Leq(ask.request.price, price) /\ Leq(price, bid.request.price)
  <2>1. /\ trade.price = price
        /\ trade.bid = bid.request
        /\ trade.ask = ask.request
    OBVIOUS
  <2> HIDE DEF trade
  <2>2. /\ Leq(trade.ask.price, trade.price)
        /\ Leq(trade.price, trade.bid.price)
    <3>1. Len(matched_order) + 1 \in DOMAIN matched_order'
      BY <1>7
    <3> QED
      BY <1>1, <1>7, <3>1 DEF DealsHonourLimits
  <2>3. trade.price \in Prices
    BY <1>8 DEF Trade
  <2> QED
    BY <2>1, <2>2, <2>3
<1>10. BookDeal(trade) = [bid |-> bid.request, ask |-> ask.request,
                          quantity |-> quantity, price |-> price]
  BY DEF BookDeal
<1>11. BookDeals' = Append(BookDeals, BookDeal(trade))
  <2> HIDE DEF trade
  <2> QED
    BY <1>1, <1>6, <1>8, BookDealsGrow DEF BookDeals
<1>12. <<bid.request, ask.request, price>> \in Matches
  BY <1>2, <1>4, <1>9 DEF Matches
<1> HIDE DEF quantity, price, trade
<1>13. /\ b \in DOMAIN BookBids
       /\ BookBids[b].terms = bid.request
       /\ BookBids[b].left = Left(bid)
       /\ BookBids' = OB!Dealt(BookBids, b, quantity)
  <2>1. IF quantity = Left(buyer[b])
        THEN buyer' = Erase(buyer, b)
        ELSE buyer' = Put(buyer, b, Filled(buyer[b], quantity))
    BY <1>5, <1>6
  <2> QED
    BY <1>1, <1>2, <1>3, <1>4, <2>1, DealtBook DEF BookBids
<1>14. /\ s \in DOMAIN BookAsks
       /\ BookAsks[s].terms = ask.request
       /\ BookAsks[s].left = Left(ask)
       /\ BookAsks' = OB!Dealt(BookAsks, s, quantity)
  <2>1. IF quantity = Left(seller[s])
        THEN seller' = Erase(seller, s)
        ELSE seller' = Put(seller, s, Filled(seller[s], quantity))
    BY <1>5, <1>6
  <2> QED
    BY <1>1, <1>2, <1>3, <1>4, <2>1, DealtBook DEF BookAsks
<1>15. OB!Deal(b, s, quantity, price)
  BY <1>10, <1>11, <1>12, <1>13, <1>14 DEF OB!Deal
<1> HIDE DEF bid, ask
<1> QED
  BY <1>5, <1>9, <1>13, <1>14, <1>15 DEF OB!MakeDeal

\* Every step of the contract is a step of the book or changes nothing in it.
LEMMA NextBook == IInv /\ [Next]_vars => [OB!Next]_(OB!vars)
<1> SUFFICES ASSUME IInv, [Next]_vars
             PROVE  [OB!Next]_(OB!vars)
  OBVIOUS
<1>1. ASSUME NEW r \in Requests, LimitOrder(r)
      PROVE  [OB!Next]_(OB!vars)
  BY <1>1, LimitOrderBook
<1>2. ASSUME NEW oid, CancelLimitOrder(oid)
      PROVE  [OB!Next]_(OB!vars)
  BY <1>2, CancelBook
<1>3. ASSUME NEW boid, NEW soid, NEW name \in Names, MatchLimitOrder(boid, soid, name)
      PROVE  [OB!Next]_(OB!vars)
  <2>1. PICK b \in DOMAIN buyer, s \in DOMAIN seller :
            /\ MayTrade(b, s, name)
            /\ Settle(b, s, name)
            /\ UNCHANGED <<cancel_order, commodity_type, now>>
    BY <1>3 DEF MatchLimitOrder, MayTrade
  <2>2. OB!MakeDeal
    BY <2>1, SettleBook
  <2> QED
    BY <2>2 DEF OB!Next
<1>4. CASE NextBlock
  BY <1>4 DEF NextBlock, OB!vars, BookBids, BookAsks, BookDeals
<1>5. CASE UNCHANGED vars
  BY <1>5 DEF vars, OB!vars, BookBids, BookAsks, BookDeals
<1> QED
  BY <1>1, <1>2, <1>3, <1>4, <1>5 DEF Next

-----------------------------------------------------------------------------
\* The tables of the contract, with their keys, numbers, status codes and
\* archives, implement the order book its users are promised.
THEOREM Refinement == Spec => RefinesOrderBook
<1>1. Spec => OB!Init /\ [][OB!Next]_(OB!vars)
  BY InitBook, NextBook, Invariance, PTL DEF Spec
<1> QED
  BY <1>1 DEF RefinesOrderBook, OB!Spec
=============================================================================
