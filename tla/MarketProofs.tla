---------------------------- MODULE MarketProofs ----------------------------
(***************************************************************************)
(* Proofs about Market, for every set of requests, accounts, coins and     *)
(* balances and every bound. A step of the market is a step of the         *)
(* contract or leaves its tables alone, so that everything proved of       *)
(* Exchange holds of Market, too; what is left to prove is about the rows  *)
(* that the matcher picks and about the money it moves.                    *)
(***************************************************************************)
EXTENDS Market, ExchangeProofs

-----------------------------------------------------------------------------
(* Orders of finite sets, and the rows that a limited query returns *)

\* R, the set of the elements before each, orders S strictly and totally.
IsOrder(R, S) ==
    /\ R \in [S -> SUBSET S]
    /\ \A x \in S : x \notin R[x]
    /\ \A x, y \in S : x # y => x \in R[y] \/ y \in R[x]
    /\ \A x, y, z \in S : x \in R[y] /\ y \in R[z] => x \in R[z]

\* The order read backwards.
Backwards(R, S) == [k \in S |-> {j \in S : k \in R[j]}]

\* A finite set has a first element.
LEMMA FirstExists ==
    ASSUME NEW S, IsFiniteSet(S), S # {}, NEW R, IsOrder(R, S)
    PROVE  \E x \in S : \A y \in S \ {x} : x \in R[y]
<1> DEFINE HasFirst(U) == \E x \in U : \A y \in U \ {x} : x \in R[y]
           T == {n \in Nat : \A U \in SUBSET S : Cardinality(U) = n => U = {} \/ HasFirst(U)}
<1>1. 0 \in T
  <2>1. \A U \in SUBSET S : Cardinality(U) = 0 => U = {}
    BY FS_Subset, FS_EmptySet
  <2> QED
    BY <2>1
<1>2. ASSUME NEW n \in T PROVE n + 1 \in T
  <2>1. n \in Nat /\ \A U \in SUBSET S : Cardinality(U) = n => U = {} \/ HasFirst(U)
    BY <1>2
  <2>2. SUFFICES ASSUME NEW U \in SUBSET S, Cardinality(U) = n + 1, U # {}
                 PROVE  HasFirst(U)
    BY <2>1
  <2>3. PICK z \in U : TRUE
    BY <2>2
  <2> DEFINE V == U \ {z}
  <2>4. V \in SUBSET S /\ Cardinality(V) = n
    <3>1. IsFiniteSet(U)
      BY FS_Subset
    <3>2. Cardinality(V) = Cardinality(U) - 1
      BY <2>3, <3>1, FS_RemoveElement
    <3> QED
      BY <2>1, <2>2, <3>2
  <2>5. CASE V = {}
    BY <2>3, <2>5
  <2>6. CASE V # {}
    <3>1. PICK x \in V : \A y \in V \ {x} : x \in R[y]
      BY <2>1, <2>4, <2>6
    <3>2. x \in S /\ z \in S /\ x # z
      BY <2>2, <2>3
    <3>3. CASE x \in R[z]
      BY <2>3, <3>1, <3>2, <3>3
    <3>4. CASE z \in R[x]
      <4>1. \A y \in V : z \in R[y]
        BY <2>4, <3>1, <3>2, <3>4 DEF IsOrder
      <4> QED
        BY <2>3, <4>1
    <3> QED
      BY <3>2, <3>3, <3>4 DEF IsOrder
  <2> QED
    BY <2>5, <2>6
<1>3. Cardinality(S) \in Nat
  BY FS_CardinalityType
<1>4. Cardinality(S) \in T
  <2> HIDE DEF T
  <2>1. T \in SUBSET Nat
    BY DEF T
  <2> QED
    BY <1>1, <1>2, <1>3, <2>1, NumbersFromZero
<1> QED
  BY <1>4

\* It has a last one.
LEMMA FinalExists ==
    ASSUME NEW S, IsFiniteSet(S), S # {}, NEW R, IsOrder(R, S)
    PROVE  \E x \in S : \A y \in S \ {x} : y \in R[x]
<1>1. IsOrder(Backwards(R, S), S)
  BY DEF IsOrder, Backwards
<1>2. \E x \in S : \A y \in S \ {x} : x \in Backwards(R, S)[y]
  BY <1>1, FirstExists
<1> QED
  BY <1>2 DEF Backwards

\* An order of a set orders its subsets.
LEMMA SuborderIsOrder ==
    ASSUME NEW S, NEW R, IsOrder(R, S), NEW U \in SUBSET S
    PROVE  IsOrder([k \in U |-> R[k] \cap U], U)
BY DEF IsOrder

\* The elements of S that fewer than limit others come before.
LimitedTo(S, R, limit) == {k \in S : Cardinality(R[k]) < limit}

\* The rows of a limited query: the first is among them, and each of them is
\* before each that is not.
LEMMA LimitedRows ==
    ASSUME NEW S, IsFiniteSet(S), NEW R, IsOrder(R, S), NEW limit \in Nat \ {0}
    PROVE  /\ S # {} => LimitedTo(S, R, limit) # {}
           /\ \A r \in LimitedTo(S, R, limit), k \in S \ LimitedTo(S, R, limit) : r \in R[k]
<1> DEFINE Before(k) == R[k]
           rows == LimitedTo(S, R, limit)
<1>1. rows = {k \in S : Cardinality(Before(k)) < limit}
  BY DEF LimitedTo
<1> HIDE DEF rows
<1>2. ASSUME S # {} PROVE rows # {}
  <2>1. PICK x \in S : \A y \in S \ {x} : x \in R[y]
    BY <1>2, FirstExists
  <2>2. Before(x) = {}
    BY <2>1 DEF IsOrder
  <2>3. Cardinality(Before(x)) = 0
    BY <2>2, FS_EmptySet
  <2> QED
    BY <1>1, <2>3
<1>3. ASSUME NEW r \in rows, NEW k \in S \ rows PROVE r \in R[k]
  <2>1. SUFFICES ASSUME r \notin R[k] PROVE FALSE
    OBVIOUS
  <2>2. r # k /\ k \in R[r]
    BY <1>3, <1>1, <2>1 DEF IsOrder
  <2>3. Before(k) \subseteq Before(r)
    BY <1>3, <1>1, <2>2 DEF IsOrder
  <2>4. IsFiniteSet(Before(r)) /\ IsFiniteSet(Before(k))
    BY <1>3, <1>1, FS_Subset DEF IsOrder
  <2>5. /\ Cardinality(Before(k)) <= Cardinality(Before(r))
        /\ Cardinality(Before(k)) \in Nat /\ Cardinality(Before(r)) \in Nat
    BY <2>3, <2>4, FS_Subset, FS_CardinalityType
  <2>6. Cardinality(Before(r)) < limit /\ ~ (Cardinality(Before(k)) < limit)
    BY <1>3, <1>1
  <2> HIDE DEF Before
  <2> QED
    BY <2>5, <2>6
<1> QED
  BY <1>2, <1>3 DEF rows

-----------------------------------------------------------------------------
(* The two price indexes *)

BidOrder == [k \in DOMAIN buyer |-> {j \in DOMAIN buyer : BidBefore(j, k)}]
AskOrder == [k \in DOMAIN seller |-> {j \in DOMAIN seller : AskBefore(j, k)}]

\* What is in them.
LEMMA InPriceOrders ==
    /\ \A j, k \in DOMAIN buyer : j \in BidOrder[k] <=> BidBefore(j, k)
    /\ \A j, k \in DOMAIN seller : j \in AskOrder[k] <=> AskBefore(j, k)
BY DEF BidOrder, AskOrder

\* Prices and keys order the rows of both tables.
LEMMA PriceOrders ==
    ASSUME TypeOK
    PROVE  IsOrder(BidOrder, DOMAIN buyer) /\ IsOrder(AskOrder, DOMAIN seller)
<1>1. \A k \in DOMAIN buyer : k \in Nat /\ buyer[k].request.price.amount \in Int
  BY RequestType DEF TypeOK, IsTable, Order
<1>2. \A k \in DOMAIN seller : k \in Nat /\ seller[k].request.price.amount \in Int
  BY RequestType DEF TypeOK, IsTable, Order
<1>3. IsOrder(BidOrder, DOMAIN buyer)
  <2> DEFINE S == DOMAIN buyer
  <2>1. BidOrder \in [S -> SUBSET S]
    BY DEF BidOrder
  <2>2. /\ \A x \in S : ~ BidBefore(x, x)
        /\ \A x, y \in S : x # y => BidBefore(x, y) \/ BidBefore(y, x)
    BY <1>1 DEF BidBefore
  <2>3. \A x, y, z \in S : BidBefore(x, y) /\ BidBefore(y, z) => BidBefore(x, z)
    BY <1>1 DEF BidBefore
  <2> QED
    BY <2>1, <2>2, <2>3, InPriceOrders DEF IsOrder
<1>4. IsOrder(AskOrder, DOMAIN seller)
  <2> DEFINE S == DOMAIN seller
  <2>1. AskOrder \in [S -> SUBSET S]
    BY DEF AskOrder
  <2>2. /\ \A x \in S : ~ AskBefore(x, x)
        /\ \A x, y \in S : x # y => AskBefore(x, y) \/ AskBefore(y, x)
    BY <1>2 DEF AskBefore
  <2>3. \A x, y, z \in S : AskBefore(x, y) /\ AskBefore(y, z) => AskBefore(x, z)
    BY <1>2 DEF AskBefore
  <2> QED
    BY <2>1, <2>2, <2>3, InPriceOrders DEF IsOrder
<1> QED
  BY <1>3, <1>4

\* The first and the last of some buy orders.
LEMMA FirstBid ==
    ASSUME LedgerInv, NEW S \in SUBSET DOMAIN buyer, S # {}
    PROVE  /\ First(S, BidBefore) \in S
           /\ \A j \in S \ {First(S, BidBefore)} : BidBefore(First(S, BidBefore), j)
           /\ Final(S, BidBefore) \in S
<1>1. IsFiniteSet(S)
  BY FS_Subset DEF LedgerInv, IsFiniteTable
<1> DEFINE R == [k \in S |-> BidOrder[k] \cap S]
<1>2. IsOrder(R, S)
  BY PriceOrders, SuborderIsOrder DEF LedgerInv, IInv
<1>3. \A j, k \in S : j \in R[k] <=> BidBefore(j, k)
  BY InPriceOrders
<1> HIDE DEF R
<1>4. \E k \in S : \A j \in S \ {k} : BidBefore(k, j)
  <2>1. \E k \in S : \A j \in S \ {k} : k \in R[j]
    BY <1>1, <1>2, FirstExists
  <2> QED
    BY <1>3, <2>1
<1>5. \E k \in S : \A j \in S \ {k} : BidBefore(j, k)
  <2>1. \E k \in S : \A j \in S \ {k} : j \in R[k]
    BY <1>1, <1>2, FinalExists
  <2> QED
    BY <1>3, <2>1
<1> QED
  BY <1>4, <1>5 DEF First, Final

\* The first and the last of some sell orders.
LEMMA FirstAsk ==
    ASSUME LedgerInv, NEW S \in SUBSET DOMAIN seller, S # {}
    PROVE  /\ First(S, AskBefore) \in S
           /\ \A j \in S \ {First(S, AskBefore)} : AskBefore(First(S, AskBefore), j)
           /\ Final(S, AskBefore) \in S
<1>1. IsFiniteSet(S)
  BY FS_Subset DEF LedgerInv, IsFiniteTable
<1> DEFINE R == [k \in S |-> AskOrder[k] \cap S]
<1>2. IsOrder(R, S)
  BY PriceOrders, SuborderIsOrder DEF LedgerInv, IInv
<1>3. \A j, k \in S : j \in R[k] <=> AskBefore(j, k)
  BY InPriceOrders
<1> HIDE DEF R
<1>4. \E k \in S : \A j \in S \ {k} : AskBefore(k, j)
  <2>1. \E k \in S : \A j \in S \ {k} : k \in R[j]
    BY <1>1, <1>2, FirstExists
  <2> QED
    BY <1>3, <2>1
<1>5. \E k \in S : \A j \in S \ {k} : AskBefore(j, k)
  <2>1. \E k \in S : \A j \in S \ {k} : j \in R[k]
    BY <1>1, <1>2, FinalExists
  <2> QED
    BY <1>3, <2>1
<1> QED
  BY <1>4, <1>5 DEF First, Final

\* What the query for buy orders returns.
LEMMA QueriedBids ==
    ASSUME LedgerInv, DOMAIN buyer # {}
    PROVE  /\ BuyerRows \in SUBSET DOMAIN buyer /\ BuyerRows # {}
           /\ \A r \in BuyerRows, k \in DOMAIN buyer \ BuyerRows : BidBefore(r, k)
<1> DEFINE S == DOMAIN buyer
<1>1. IsFiniteSet(S) /\ IsOrder(BidOrder, S) /\ QueryLimit \in Nat \ {0}
  BY PriceOrders, MarketAssumption DEF LedgerInv, IInv, IsFiniteTable
<1>2. BuyerRows = LimitedTo(S, BidOrder, QueryLimit)
  BY DEF BuyerRows, FirstRows, LimitedTo, BidOrder
<1> HIDE DEF S
<1>3. \A r \in BuyerRows, k \in S \ BuyerRows : r \in BidOrder[k]
  BY <1>1, <1>2, LimitedRows
<1>4. S # {} => BuyerRows # {}
  BY <1>1, <1>2, LimitedRows
<1>5. BuyerRows \in SUBSET S
  BY <1>2 DEF LimitedTo
<1> QED
  BY <1>3, <1>4, <1>5, InPriceOrders DEF S

\* What the query for sell orders returns.
LEMMA QueriedAsks ==
    ASSUME LedgerInv, DOMAIN seller # {}
    PROVE  /\ SellerRows \in SUBSET DOMAIN seller /\ SellerRows # {}
           /\ \A r \in SellerRows, k \in DOMAIN seller \ SellerRows : AskBefore(r, k)
<1> DEFINE S == DOMAIN seller
<1>1. IsFiniteSet(S) /\ IsOrder(AskOrder, S) /\ QueryLimit \in Nat \ {0}
  BY PriceOrders, MarketAssumption DEF LedgerInv, IInv, IsFiniteTable
<1>2. SellerRows = LimitedTo(S, AskOrder, QueryLimit)
  BY DEF SellerRows, FirstRows, LimitedTo, AskOrder
<1> HIDE DEF S
<1>3. \A r \in SellerRows, k \in S \ SellerRows : r \in AskOrder[k]
  BY <1>1, <1>2, LimitedRows
<1>4. S # {} => SellerRows # {}
  BY <1>1, <1>2, LimitedRows
<1>5. SellerRows \in SUBSET S
  BY <1>2 DEF LimitedTo
<1> QED
  BY <1>3, <1>4, <1>5, InPriceOrders DEF S

-----------------------------------------------------------------------------
(* The rows that the matcher picks *)

\* The parts of Picked.
Best   == First(BuyerRows, BidBefore)
Others == {s \in SellerRows : Consigner(seller[s]) # Consigner(buyer[Best])}
Rivals == {b \in BuyerRows : \A s \in SellerRows : Consigner(buyer[b]) # Consigner(seller[s])}

\* The three ways the loop over the rows can end.
LEMMA PickedCases ==
    \/ Others # {} /\ Picked = <<Best, First(Others, AskBefore)>>
    \/ /\ Others = {} /\ Rivals # {}
       /\ Picked = <<First(Rivals, BidBefore), Final(SellerRows, AskBefore)>>
    \/ /\ Others = {} /\ Rivals = {}
       /\ Picked = <<Final(BuyerRows, BidBefore), Final(SellerRows, AskBefore)>>
BY DEF Picked, Best, Others, Rivals

\* The best buy order read is the best of the table.
LEMMA BestIsBest ==
    ASSUME LedgerInv, DOMAIN buyer # {}
    PROVE  /\ Best \in BuyerRows /\ BuyerRows \in SUBSET DOMAIN buyer
           /\ \A k \in DOMAIN buyer \ {Best} : BidBefore(Best, k)
<1>1. /\ BuyerRows \in SUBSET DOMAIN buyer /\ BuyerRows # {}
      /\ \A r \in BuyerRows, k \in DOMAIN buyer \ BuyerRows : BidBefore(r, k)
  BY QueriedBids
<1>2. Best \in BuyerRows /\ \A k \in BuyerRows \ {Best} : BidBefore(Best, k)
  BY <1>1, FirstBid DEF Best
<1> QED
  BY <1>1, <1>2

\* The matcher picks one row of each table.
LEMMA PickedAreRows ==
    ASSUME LedgerInv, DOMAIN buyer # {}, DOMAIN seller # {}
    PROVE  /\ Picked = <<Picked[1], Picked[2]>>
           /\ Picked[1] \in BuyerRows /\ BuyerRows \in SUBSET DOMAIN buyer
           /\ Picked[2] \in SellerRows /\ SellerRows \in SUBSET DOMAIN seller
<1>1. /\ Best \in BuyerRows
      /\ BuyerRows \in SUBSET DOMAIN buyer /\ BuyerRows # {}
      /\ SellerRows \in SUBSET DOMAIN seller /\ SellerRows # {}
  BY BestIsBest, QueriedBids, QueriedAsks
<1>2. Others \in SUBSET SellerRows /\ Rivals \in SUBSET BuyerRows
  BY DEF Others, Rivals
<1>3. /\ Others # {} => First(Others, AskBefore) \in Others
      /\ Final(SellerRows, AskBefore) \in SellerRows
  BY <1>1, <1>2, FirstAsk
<1>4. /\ Rivals # {} => First(Rivals, BidBefore) \in Rivals
      /\ Final(BuyerRows, BidBefore) \in BuyerRows
  BY <1>1, <1>2, FirstBid
<1> QED
  BY <1>1, <1>2, <1>3, <1>4, PickedCases

\* The buy order picked, if the two rows picked are of two accounts, has the
\* highest price of all that are not of the account of the sell order picked.
LEMMA PickedBidIsBest ==
    ASSUME LedgerInv, DOMAIN buyer # {}, DOMAIN seller # {},
           NEW b, NEW s, Picked = <<b, s>>, Consigner(buyer[b]) # Consigner(seller[s]),
           NEW k \in DOMAIN buyer, Consigner(buyer[k]) # Consigner(seller[s])
    PROVE  buyer[k].request.price.amount <= buyer[b].request.price.amount
<1>1. /\ Best \in BuyerRows /\ BuyerRows \in SUBSET DOMAIN buyer
      /\ \A j \in DOMAIN buyer \ {Best} : BidBefore(Best, j)
      /\ SellerRows \in SUBSET DOMAIN seller
      /\ b \in BuyerRows /\ s \in SellerRows
  BY BestIsBest, PickedAreRows
<1>2. \A j \in DOMAIN buyer : buyer[j].request.price.amount \in Int
  BY RequestType DEF LedgerInv, IInv, TypeOK, IsTable, Order
<1>3. \A j \in DOMAIN buyer :
          k = j \/ BidBefore(j, k) =>
              buyer[k].request.price.amount <= buyer[j].request.price.amount
  BY <1>2 DEF BidBefore
<1>4. CASE Others # {}
  <2>1. b = Best
    BY <1>4, PickedCases
  <2> QED
    BY <1>1, <1>3, <2>1
<1>5. CASE Others = {} /\ Rivals # {}
  <2>1. b = First(Rivals, BidBefore)
    BY <1>5, PickedCases
  <2>2. Rivals \in SUBSET DOMAIN buyer
    BY <1>1 DEF Rivals
  <2>3. b \in Rivals /\ \A j \in Rivals \ {b} : BidBefore(b, j)
    BY <1>5, <2>1, <2>2, FirstBid
  <2>4. \A t \in SellerRows : Consigner(seller[t]) = Consigner(buyer[Best])
    BY <1>5 DEF Others
  <2>5. CASE k \in BuyerRows
    <3>1. k \in Rivals
      BY <1>1, <2>4, <2>5 DEF Rivals
    <3> QED
      BY <1>1, <1>3, <2>3, <3>1
  <2>6. CASE k \notin BuyerRows
    BY <1>1, <1>3, <2>6, QueriedBids
  <2> QED
    BY <2>5, <2>6
<1>6. CASE Others = {} /\ Rivals = {}
  BY <1>1, <1>6 DEF Others, Rivals
<1> QED
  BY <1>4, <1>5, <1>6

\* No account has both buy and sell orders.
TwoSides ==
    \A r, q \in Requests : r.oper = Buy /\ q.oper # Buy => r.consigner # q.consigner

\* If so, the sell order picked is the first of all.
LEMMA PickedAskIsFirst ==
    ASSUME LedgerInv, TwoSides, DOMAIN buyer # {}, DOMAIN seller # {},
           NEW b, NEW s, Picked = <<b, s>>,
           NEW k \in DOMAIN seller \ {s}
    PROVE  AskBefore(s, k)
<1>1. /\ Best \in DOMAIN buyer
      /\ SellerRows \in SUBSET DOMAIN seller /\ SellerRows # {}
      /\ \A r \in SellerRows, j \in DOMAIN seller \ SellerRows : AskBefore(r, j)
  BY BestIsBest, QueriedAsks
<1>2. Others = SellerRows
  <2>1. /\ buyer[Best].request \in Requests /\ buyer[Best].request.oper = Buy
        /\ \A t \in DOMAIN seller :
              seller[t].request \in Requests /\ seller[t].request.oper # Buy
    BY <1>1 DEF LedgerInv, IInv, TypeOK, IsTable, Order, StatusTellsTable, IsLive, OnSide,
                Buy, Sell
  <2> QED
    BY <1>1, <2>1 DEF Others, TwoSides, Consigner
<1>3. s = First(SellerRows, AskBefore)
  BY <1>1, <1>2, PickedCases
<1>4. s \in SellerRows /\ \A j \in SellerRows \ {s} : AskBefore(s, j)
  BY <1>1, <1>3, FirstAsk
<1> QED
  BY <1>1, <1>4

-----------------------------------------------------------------------------
(* The tick *)

\* Everything that is true of a tick that pays for rows b and s,
Pays(b, s) ==
    /\ b \in DOMAIN buyer /\ s \in DOMAIN seller
    /\ Picked = <<b, s>>
    /\ ~ Escapes(b, s) /\ DealConditions(b, s) /\ Settlement(b, s)
    /\ TradedName(buyer[b].request, seller[s].request) \in Names

\* and of one that trades them, too.
Deal(b, s) ==
    LET name == TradedName(buyer[b].request, seller[s].request)
    IN  /\ Pays(b, s)
        /\ MayTrade(b, s, name) /\ Settle(b, s, name)
        /\ UNCHANGED <<cancel_order, commodity_type, now, running>>

\* The request of a row.
LEMMA RowRequests ==
    ASSUME TypeOK
    PROVE  /\ \A k \in DOMAIN buyer : buyer[k] \in Order /\ buyer[k].request \in Requests
           /\ \A k \in DOMAIN seller : seller[k] \in Order /\ seller[k].request \in Requests
BY DEF TypeOK, IsTable, Order

\* The name that the matcher gives is the commodity of one of the orders.
LEMMA TradedNameIsName ==
    ASSUME NEW bid \in Requests, NEW ask \in Requests
    PROVE  TradedName(bid, ask) \in Names
BY MarketAssumption DEF TradedName, TokenName

\* A tick that trades pays for the rows picked.
LEMMA TickPays ==
    ASSUME LedgerInv, TickTrades
    PROVE  \E b, s : Pays(b, s)
<1> DEFINE b == Picked[1]
           s == Picked[2]
<1>1. /\ DOMAIN buyer # {} /\ DOMAIN seller # {}
      /\ ~ Escapes(b, s) /\ DealConditions(b, s) /\ Settlement(b, s)
  BY DEF TickTrades, OnPicked
<1>2. Picked = <<b, s>> /\ b \in DOMAIN buyer /\ s \in DOMAIN seller
  BY <1>1, PickedAreRows
<1> HIDE DEF b, s
<1>3. TradedName(buyer[b].request, seller[s].request) \in Names
  BY <1>2, RowRequests, TradedNameIsName DEF LedgerInv, IInv
<1> QED
  BY <1>1, <1>2, <1>3 DEF Pays

\* It is a deal: order numbers lead mlmto to the rows picked,
\* if they are told apart.
LEMMA TickIsDeal ==
    ASSUME Unambiguous, LedgerInv, TickTrades
    PROVE  \E b, s : Deal(b, s)
<1>1. PICK b, s : Pays(b, s)
  BY TickPays
<1> DEFINE name == TradedName(buyer[b].request, seller[s].request)
<1>2. b \in DOMAIN buyer /\ s \in DOMAIN seller
  BY <1>1 DEF Pays
<1>3. MatchLimitOrder(buyer[b].oid, seller[s].oid, name)
  BY <1>1 DEF Pays, Settlement
<1>4. PICK b2 \in DOMAIN buyer, s2 \in DOMAIN seller :
          /\ buyer[b2].oid = buyer[b].oid
          /\ seller[s2].oid = seller[s].oid
          /\ MayTrade(b2, s2, name)
          /\ Settle(b2, s2, name)
          /\ UNCHANGED <<cancel_order, commodity_type, now>>
  BY <1>3 DEF MatchLimitOrder, MayTrade, Finds
<1>5. b2 = b /\ s2 = s
  BY <1>2, <1>4, IInvLiveOidsUnique DEF LiveOidsUnique, LedgerInv
<1>6. UNCHANGED running
  BY DEF TickTrades, OnPicked
<1> QED
  BY <1>1, <1>4, <1>5, <1>6 DEF Deal

\* A tick that trades is a step of the contract, whichever rows the order
\* numbers lead mlmto to.
LEMMA TickIsMatch ==
    ASSUME LedgerInv, TickTrades
    PROVE  Next
<1>1. PICK b, s : Pays(b, s)
  BY TickPays
<1> DEFINE name == TradedName(buyer[b].request, seller[s].request)
<1>2. MatchLimitOrder(buyer[b].oid, seller[s].oid, name) /\ name \in Names
  BY <1>1 DEF Pays, Settlement
<1>3. buyer[b].oid \in Oids(buyer) /\ seller[s].oid \in Oids(seller)
  BY <1>1 DEF Pays, Oids
<1> QED
  BY <1>2, <1>3 DEF Next

\* A step of the market is one of the contract, or leaves its tables alone.
LEMMA MarketStep ==
    ASSUME LedgerInv, [MarketNext]_marketVars
    PROVE  [Next]_vars
<1>1. CASE UserSteps
  BY <1>1 DEF UserSteps, Next, LiveOids
<1>2. CASE TickTrades
  BY <1>2, TickIsMatch
<1>3. CASE TickEndsNode
  BY <1>3 DEF TickEndsNode, OnPicked
<1>4. CASE RestartNode
  BY <1>4 DEF RestartNode
<1>5. CASE UNCHANGED marketVars
  BY <1>5 DEF marketVars
<1> QED
  BY <1>1, <1>2, <1>3, <1>4, <1>5 DEF MarketNext, Tick

\* The ledger of the contract stays right when the matcher drives it.
LEMMA MarketLedger == MarketSpec => []LedgerInv
<1>1. MarketInit => LedgerInv
  BY InitLedgerInv DEF MarketInit
<1>2. LedgerInv /\ [MarketNext]_marketVars => LedgerInv'
  BY MarketStep, NextLedgerInv
<1> QED
  BY <1>1, <1>2, PTL DEF MarketSpec

\* The market is an exchange: whatever the contract promises for every
\* sequence of calls, it promises for those that the matcher makes.
THEOREM MarketIsExchange == MarketSpec => Spec
<1>1. MarketInit => Init
  BY DEF MarketInit
<1>2. LedgerInv /\ [MarketNext]_marketVars => [Next]_vars
  BY MarketStep
<1> QED
  BY <1>1, <1>2, MarketLedger, PTL DEF MarketSpec, Spec

\* What the money needs of the tables: no quantity is below zero.
MarketInv == LedgerInv /\ DealsHonourQuantities

\* It always holds, since the market takes no order for less than nothing.
LEMMA MarketInvariance == MarketSpec => []MarketInv
<1>1. MarketInit => MarketInv
  BY InitLedgerInv DEF MarketInit, MarketInv, Init, DealsHonourQuantities
<1>2. NaturalAmounts
  BY MarketAssumption DEF NaturalAmounts
<1>3. MarketInv /\ [MarketNext]_marketVars => MarketInv'
  BY <1>2, MarketStep, NextLedgerInv, NextQuantities DEF MarketInv, LedgerInv
<1> QED
  BY <1>1, <1>3, PTL DEF MarketSpec

-----------------------------------------------------------------------------
(* Priority *)

\* The trade that a deal appends names the rows picked.
LEMMA DealIsNewTrade ==
    ASSUME Unambiguous, LedgerInv, NEW b, NEW s, Deal(b, s)
    PROVE  TradedBid = b /\ TradedAsk = s
<1> DEFINE name  == TradedName(buyer[b].request, seller[s].request)
           last == Last(matched_order')
<1>1. matched_order' \in Seq(Trade) /\ matched_order \in Seq(Trade)
  BY SettleTypeOK DEF LedgerInv, IInv, Deal, Pays, TypeOK
<1>2. \E trade : /\ matched_order' = Append(matched_order, trade)
                 /\ trade.buyer_oid = buyer[b].oid
                 /\ trade.seller_oid = seller[s].oid
  BY DEF Deal, Settle
<1>3. last.buyer_oid = buyer[b].oid /\ last.seller_oid = seller[s].oid
  BY <1>1, <1>2 DEF Last
<1>4. b \in DOMAIN buyer /\ s \in DOMAIN seller
  BY DEF Deal, Pays
<1>5. /\ \A k \in DOMAIN buyer : buyer[k].oid = buyer[b].oid => k = b
      /\ \A k \in DOMAIN seller : seller[k].oid = seller[s].oid => k = s
  BY <1>4, IInvLiveOidsUnique DEF LedgerInv, LiveOidsUnique
<1> HIDE DEF last
<1> QED
  BY <1>3, <1>4, <1>5 DEF TradedBid, TradedAsk, last

\* Only a deal makes a trade.
LEMMA NewTradeIsDeal ==
    ASSUME Unambiguous, LedgerInv, [MarketNext]_marketVars, NewTrade
    PROVE  \E b, s : Deal(b, s)
<1>1. CASE TickTrades
  BY <1>1, TickIsDeal
<1>2. CASE ~ TickTrades
  <2>1. UNCHANGED matched_order
    BY <1>2 DEF MarketNext, UserSteps, Tick, TickEndsNode, OnPicked, RestartNode, marketVars,
                vars, LimitOrder, CancelLimitOrder, NextBlock
  <2>2. Len(matched_order) \in Nat
    BY DEF LedgerInv, IInv, TypeOK
  <2> QED
    BY <2>1, <2>2 DEF NewTrade
<1> QED
  BY <1>1, <1>2

\* Of the buy orders that could trade against the sell order that trades, one
\* with the highest price does, however the rows of one account are stepped
\* over and however many rows the query leaves out: if numbers are told apart,
\* for mlmto finds by them the rows that the matcher picked.
THEOREM BestBid ==
    ASSUME Unambiguous
    PROVE  MarketSpec => BestBidFirst
<1>1. LedgerInv /\ [MarketNext]_marketVars =>
          [NewTrade =>
              \A b \in DOMAIN buyer :
                  Crossing(b, TradedAsk) =>
                      buyer[b].request.price.amount <= buyer[TradedBid].request.price.amount]_marketVars
  <2> SUFFICES ASSUME LedgerInv, [MarketNext]_marketVars, NewTrade,
                      NEW k \in DOMAIN buyer, Crossing(k, TradedAsk)
               PROVE  buyer[k].request.price.amount <= buyer[TradedBid].request.price.amount
    OBVIOUS
  <2>1. PICK b, s : Deal(b, s)
    BY NewTradeIsDeal
  <2>2. TradedBid = b /\ TradedAsk = s
    BY <2>1, DealIsNewTrade
  <2>3. Consigner(buyer[k]) # Consigner(seller[s])
    BY <2>2 DEF Crossing, Compatible, Consigner
  <2>4. /\ DOMAIN buyer # {} /\ DOMAIN seller # {} /\ Picked = <<b, s>>
        /\ Consigner(buyer[b]) # Consigner(seller[s])
    BY <2>1 DEF Deal, Pays, DealConditions
  <2> QED
    BY <2>2, <2>3, <2>4, PickedBidIsBest
<1> QED
  BY <1>1, MarketLedger, PTL DEF MarketSpec, BestBidFirst

\* Where no account has orders of both kinds, the sell order that trades has
\* the lowest price of those that could, and is the first placed at its price.
THEOREM BestAsk ==
    ASSUME Unambiguous, TwoSides
    PROVE  MarketSpec => BestAskFirst
<1>1. LedgerInv /\ [MarketNext]_marketVars =>
          [NewTrade =>
              \A s \in DOMAIN seller :
                  Crossing(TradedBid, s) =>
                      \/ seller[s].request.price.amount > seller[TradedAsk].request.price.amount
                      \/ /\ seller[s].request.price = seller[TradedAsk].request.price
                         /\ s >= TradedAsk]_marketVars
  <2> SUFFICES ASSUME LedgerInv, [MarketNext]_marketVars, NewTrade,
                      NEW k \in DOMAIN seller, Crossing(TradedBid, k)
               PROVE  \/ seller[k].request.price.amount > seller[TradedAsk].request.price.amount
                      \/ /\ seller[k].request.price = seller[TradedAsk].request.price
                         /\ k >= TradedAsk
    OBVIOUS
  <2>1. PICK b, s : Deal(b, s)
    BY NewTradeIsDeal
  <2>2. TradedBid = b /\ TradedAsk = s
    BY <2>1, DealIsNewTrade
  <2>3. /\ DOMAIN buyer # {} /\ DOMAIN seller # {} /\ Picked = <<b, s>>
        /\ s \in DOMAIN seller
        /\ seller[s].request.price.symbol = buyer[b].request.price.symbol
    BY <2>1 DEF Deal, Pays, DealConditions, Leq
  <2>4. seller[k].request.price.symbol = buyer[b].request.price.symbol
    BY <2>2 DEF Crossing, Compatible, Leq
  <2>5. \A j \in DOMAIN seller :
            /\ j \in Nat
            /\ seller[j].request.price \in [amount : Nat, symbol : Coins]
    BY RowRequests, MarketAssumption DEF LedgerInv, IInv, TypeOK, IsTable
  <2>6. CASE k = s
    BY <2>2, <2>3, <2>5, <2>6
  <2>7. CASE k # s
    <3>1. AskBefore(s, k)
      BY <2>3, <2>7, PickedAskIsFirst
    <3> QED
      BY <2>2, <2>3, <2>4, <2>5, <3>1 DEF AskBefore
  <2> QED
    BY <2>6, <2>7
<1> QED
  BY <1>1, MarketLedger, PTL DEF MarketSpec, BestAskFirst

-----------------------------------------------------------------------------
(* What the matcher delivers and pays *)

FloatMost == 16777216
RangeMost == 1073741824

\* The quantities for which Delivered is what combine_asset computes.
InModelledRange == \A r \in Requests : r.amount < RangeMost

\* The quantities that a float holds, none of them empty.
Deliverable == \A r \in Requests : r.amount \in 1 .. FloatMost

\* Nobody asks for, or offers, whatever there is.
NoWildcards == \A r \in Requests : r.commodity # Anything

Units == {1, 2, 4, 8, 16, 32, 64}

\* A set of units has a least one.
LEMMA LeastUnit ==
    ASSUME NEW S \in SUBSET Units, S # {}
    PROVE  Min(S) \in S /\ \A u \in S : Min(S) <= u
<1>1. \E x \in S : \A u \in S : x <= u
  <2>1. \A u \in S : u \in {1, 2, 4, 8, 16, 32, 64}
    BY DEF Units
  <2>2. CASE 1 \in S
    BY <2>1, <2>2
  <2>3. CASE 1 \notin S /\ 2 \in S
    BY <2>1, <2>3
  <2>4. CASE {1, 2} \cap S = {} /\ 4 \in S
    BY <2>1, <2>4
  <2>5. CASE {1, 2, 4} \cap S = {} /\ 8 \in S
    BY <2>1, <2>5
  <2>6. CASE {1, 2, 4, 8} \cap S = {} /\ 16 \in S
    BY <2>1, <2>6
  <2>7. CASE {1, 2, 4, 8, 16} \cap S = {}
    BY <2>1, <2>7
  <2> QED
    BY <2>2, <2>3, <2>4, <2>5, <2>6, <2>7
<1> QED
  BY <1>1 DEF Min

\* A quantity of the modelled range is delivered as a quantity.
LEMMA DeliveredType ==
    ASSUME NEW quantity \in Nat, quantity < RangeMost
    PROVE  Delivered(quantity) \in Nat
<1> DEFINE S == {u \in Units : quantity \div u < 16777216}
           unit == FloatUnit(quantity)
           rest == quantity % unit
<1>1. 64 \in S
  BY SMT DEF Units, RangeMost
<1>2. unit \in Units
  <2>1. S \in SUBSET Units /\ S # {}
    BY <1>1
  <2>2. unit = Min(S)
    BY SMT DEF FloatUnit, Units
  <2> HIDE DEF S
  <2> QED
    BY <2>1, <2>2, LeastUnit
<1>3. unit \in Nat /\ rest \in Nat /\ rest <= quantity
  <2> HIDE DEF unit
  <2> QED
    BY <1>2 DEF Units
<1>4. Delivered(quantity) \in {quantity - rest, quantity - rest + unit}
  BY DEF Delivered
<1> HIDE DEF unit, rest
<1> QED
  BY <1>3, <1>4

\* A quantity that a float holds is delivered as it is.
LEMMA DeliveredExact ==
    ASSUME NEW quantity \in Nat, quantity <= FloatMost
    PROVE  Delivered(quantity) = quantity
<1> DEFINE S == {u \in Units : quantity \div u < 16777216}
           unit == FloatUnit(quantity)
           rest == quantity % unit
<1>1. unit \in S /\ \A u \in S : unit <= u
  <2>1. 2 \in S /\ S \in SUBSET Units
    BY SMT DEF Units, FloatMost
  <2>2. unit = Min(S)
    BY SMT DEF FloatUnit, Units
  <2> HIDE DEF S
  <2> QED
    BY <2>1, <2>2, LeastUnit
<1>2. quantity < FloatMost => 1 \in S
  BY SMT DEF Units, FloatMost
<1>3. quantity = FloatMost => 1 \notin S /\ 2 \in S
  BY SMT DEF Units, FloatMost
<1>4. unit \in Units
  BY <1>1
<1> HIDE DEF S, unit
<1>5. quantity < FloatMost => unit = 1
  BY <1>1, <1>2, <1>4 DEF Units
<1>6. quantity = FloatMost => unit = 2
  BY <1>1, <1>3, <1>4 DEF Units
<1>7. rest = 0 /\ unit \in {1, 2}
  BY SMT, <1>5, <1>6 DEF FloatMost
<1>8. Delivered(quantity) =
          IF 2 * rest > unit \/ (2 * rest = unit /\ ((quantity - rest) \div unit) % 2 = 1)
          THEN quantity - rest + unit ELSE quantity - rest
  BY DEF Delivered, unit
<1> HIDE DEF rest
<1> QED
  BY <1>7, <1>8

\* After a payment of an amount, all else equal.
Paying(funds, from, to, coin, amount, after) ==
    /\ after \in [Accounts \X Coins -> Nat]
    /\ \A a \in Accounts, c \in Coins :
          after[<<a, c>>] = funds[<<a, c>>]
              + (IF c = coin /\ a = to THEN amount ELSE 0)
              - (IF c = coin /\ a = from THEN amount ELSE 0)

\* A payment moves one amount between two accounts.
LEMMA TransferMoves ==
    ASSUME NEW funds \in [Accounts \X Coins -> Nat], NEW from \in Accounts, NEW to \in Accounts,
           from # to, NEW coin \in Coins, NEW amount \in Nat, amount <= funds[<<from, coin>>],
           NEW after, after = Transfer(from, to, coin, amount, funds)
    PROVE  Paying(funds, from, to, coin, amount, after)
<1>1. /\ <<from, coin>> \in Accounts \X Coins /\ <<to, coin>> \in Accounts \X Coins
      /\ <<from, coin>> # <<to, coin>>
  OBVIOUS
<1>2. /\ DOMAIN after = Accounts \X Coins
      /\ after = [x \in Accounts \X Coins |-> after[x]]
      /\ \A x \in Accounts \X Coins :
            after[x] = IF x = <<to, coin>> THEN funds[x] + amount
                       ELSE IF x = <<from, coin>> THEN funds[x] - amount ELSE funds[x]
  BY <1>1 DEF Transfer
<1>3. \A x \in Accounts \X Coins : funds[x] \in Nat
  OBVIOUS
<1>4. \A x \in Accounts \X Coins : after[x] \in Nat
  BY <1>1, <1>2, <1>3
<1>5. ASSUME NEW a \in Accounts, NEW c \in Coins
      PROVE  after[<<a, c>>] = funds[<<a, c>>]
                         + (IF c = coin /\ a = to THEN amount ELSE 0)
                         - (IF c = coin /\ a = from THEN amount ELSE 0)
  <2> DEFINE x == <<a, c>>
  <2>1. x \in Accounts \X Coins /\ funds[x] \in Nat
    BY <1>3
  <2>2. x = <<to, coin>> <=> c = coin /\ a = to
    OBVIOUS
  <2>3. x = <<from, coin>> <=> c = coin /\ a = from
    OBVIOUS
  <2> HIDE DEF x
  <2>4. after[x] = funds[x]
                         + (IF c = coin /\ a = to THEN amount ELSE 0)
                         - (IF c = coin /\ a = from THEN amount ELSE 0)
    BY <1>2, <2>1, <2>2, <2>3
  <2> QED
    BY <2>4 DEF x
<1>6. after \in [Accounts \X Coins -> Nat]
  BY <1>2, <1>4
<1> QED
  BY <1>5, <1>6 DEF Paying

\* The orders that trade, the quantity and the price paid.
LEMMA DealTerms ==
    ASSUME MarketInv, NEW b, NEW s, Pays(b, s)
    PROVE  LET bid      == buyer[b].request
               ask      == seller[s].request
               quantity == Matched(buyer[b], seller[s])
               price    == PaidPrice(bid, ask)
           IN  /\ bid \in Requests /\ ask \in Requests /\ bid.consigner # ask.consigner
               /\ quantity \in Nat /\ quantity <= bid.amount
               /\ bid.amount > 0 /\ ask.amount > 0 => quantity > 0
               /\ price \in Prices /\ Leq(ask.price, price) /\ Leq(price, bid.price)
<1> DEFINE bid == buyer[b].request
           ask == seller[s].request
<1>1. TypeOK /\ StatusTellsTable /\ b \in DOMAIN buyer /\ s \in DOMAIN seller
  BY DEF MarketInv, LedgerInv, IInv, Pays
<1>2. /\ buyer[b] \in Order /\ seller[s] \in Order
      /\ bid \in Requests /\ ask \in Requests
      /\ bid.amount \in Nat /\ ask.amount \in Nat
  BY <1>1, RowRequests, MarketAssumption
<1>3. /\ NotOverfilled(buyer[b]) /\ NotOverfilled(seller[s])
      /\ Matched(buyer[b], seller[s]) \in 0 .. bid.amount
  BY <1>1, <1>2, MatchedFits DEF MarketInv, DealsHonourQuantities
<1>4. ASSUME bid.amount > 0, ask.amount > 0 PROVE Matched(buyer[b], seller[s]) > 0
  <2>1. IsLive(buyer[b], Buy) /\ IsLive(seller[s], Sell)
    BY <1>1 DEF StatusTellsTable
  <2> QED
    BY <1>2, <1>3, <1>4, <2>1 DEF IsLive, Matched, Left, NotOverfilled
<1>5. ~ Escapes(b, s) /\ DealConditions(b, s)
  BY DEF Pays
<1>6. /\ bid.consigner # ask.consigner /\ Leq(ask.price, bid.price)
      /\ ask.commodity \in DOMAIN matched_price =>
            matched_price[ask.commodity].symbol = ask.price.symbol
  BY <1>5 DEF Escapes, DealConditions, Consigner
<1> HIDE DEF bid, ask
<1>7. /\ PaidPrice(bid, ask) \in Prices
      /\ Leq(ask.price, PaidPrice(bid, ask)) /\ Leq(PaidPrice(bid, ask), bid.price)
  BY <1>1, <1>2, <1>6, DealPriceWithinLimits DEF PaidPrice
<1> QED
  BY <1>2, <1>3, <1>4, <1>6, <1>7 DEF bid, ask

\* The trade that ctoc records of it. Its commodity is the token delivered, if
\* one is; its price is the one paid, if no order was for anything.
LEMMA DealTrade ==
    ASSUME MarketInv, NEW b, NEW s, Deal(b, s)
    PROVE  LET bid   == buyer[b].request
               ask   == seller[s].request
               token == TokenName(bid, ask)
           IN  \E trade \in Trade :
                  /\ matched_order' = Append(matched_order, trade)
                  /\ trade.bid = bid /\ trade.ask = ask
                  /\ trade.amount = Matched(buyer[b], seller[s])
                  /\ token \in Coins => trade.commodity = token
                  /\ token \notin Coins => trade.commodity \notin Coins
                  /\ NoWildcards => trade.price = PaidPrice(bid, ask)
<1> DEFINE bid   == buyer[b].request
           ask   == seller[s].request
           name  == TradedName(bid, ask)
           token == TokenName(bid, ask)
           trade == [buyer_oid  |-> buyer[b].oid,
                     seller_oid |-> seller[s].oid,
                     bid        |-> bid,
                     ask        |-> ask,
                     commodity  |-> IF name = NoName THEN bid.commodity ELSE name,
                     amount     |-> Matched(buyer[b], seller[s]),
                     price      |-> TradePrice(name, ask, DealPrice(name, bid, ask))]
<1>1. /\ TypeOK /\ StatusTellsTable
      /\ name \in Names /\ MayTrade(b, s, name) /\ Settle(b, s, name)
      /\ UNCHANGED <<cancel_order, commodity_type, now>>
      /\ b \in DOMAIN buyer /\ s \in DOMAIN seller
  BY DEF MarketInv, LedgerInv, IInv, Deal, Pays
<1>2. matched_order' = Append(matched_order, trade)
  BY <1>1 DEF Settle
<1>3. matched_order \in Seq(Trade) /\ matched_order' \in Seq(Trade)
  BY <1>1, SettleTypeOK DEF TypeOK
<1>4. trade \in Trade
  <2> HIDE DEF trade
  <2>1. /\ matched_order'[Len(matched_order) + 1] = trade
        /\ Len(matched_order') = Len(matched_order) + 1
    BY <1>2, <1>3
  <2> QED
    BY <1>3, <2>1
<1>5. trade.bid = bid /\ trade.ask = ask
  OBVIOUS
<1>6. /\ token \in Coins => trade.commodity = token
      /\ token \notin Coins => trade.commodity \notin Coins
  BY MarketAssumption DEF TradedName, TokenName
<1>7. ASSUME NoWildcards PROVE trade.price = PaidPrice(bid, ask)
  <2>1. bid \in Requests /\ ask \in Requests
    BY DealTerms DEF Deal
  <2>2. bid.commodity # Anything /\ ask.commodity # Anything
    BY <1>7, <2>1 DEF NoWildcards
  <2>3. ask.commodity = bid.commodity
    BY <1>1, <2>2 DEF MayTrade, Compatible
  <2>4. name = ask.commodity
    BY <2>2, <2>3 DEF TradedName, TokenName
  <2>5. trade.price = TradePrice(name, ask, DealPrice(name, bid, ask))
    OBVIOUS
  <2> HIDE DEF name, trade, bid, ask
  <2> QED
    BY <2>4, <2>5 DEF TradePrice, DealPrice, PaidPrice
<1> HIDE DEF trade
<1> QED
  BY <1>2, <1>4, <1>5, <1>6, <1>7 DEF trade

\* What an account gains in a coin by the payment and by the delivery of the
\* tick that trades rows b and s.
Paid(a, coin, b, s) ==
    LET bid   == buyer[b].request
        ask   == seller[s].request
        price == PaidPrice(bid, ask)
        total == Total(price, Matched(buyer[b], seller[s]))
    IN  (IF coin = price.symbol /\ a = ask.consigner THEN total ELSE 0)
            - (IF coin = price.symbol /\ a = bid.consigner THEN total ELSE 0)

Received(a, coin, b, s) ==
    LET bid   == buyer[b].request
        ask   == seller[s].request
        token == TokenName(bid, ask)
        units == Delivered(Matched(buyer[b], seller[s]))
    IN  (IF coin = token /\ a = bid.consigner THEN units ELSE 0)
            - (IF coin = token /\ a = ask.consigner THEN units ELSE 0)

\* A tick that trades pays the seller and delivers to the buyer, and leaves no
\* balance negative.
LEMMA DealMoney ==
    ASSUME MarketInv, balance \in [Accounts \X Coins -> Nat], InModelledRange,
           NEW b, NEW s, Pays(b, s)
    PROVE  /\ balance' \in [Accounts \X Coins -> Nat]
           /\ \A a \in Accounts, coin \in Coins :
                 balance'[<<a, coin>>] =
                     balance[<<a, coin>>] + Paid(a, coin, b, s) + Received(a, coin, b, s)
<1> DEFINE bid      == buyer[b].request
           ask      == seller[s].request
           quantity == Matched(buyer[b], seller[s])
           price    == PaidPrice(bid, ask)
           total    == Total(price, quantity)
           token    == TokenName(bid, ask)
           units    == Delivered(quantity)
           paid     == Transfer(bid.consigner, ask.consigner, price.symbol, total, balance)
           done     == Transfer(ask.consigner, bid.consigner, token, units, paid)
<1>1. /\ CanTransfer(bid.consigner, price.symbol, total, balance)
      /\ token \in Coins => CanTransfer(ask.consigner, token, units, paid) /\ balance' = done
      /\ token \notin Coins => balance' = paid
  BY DEF Pays, Settlement
<1>2. /\ bid \in Requests /\ ask \in Requests /\ bid.consigner # ask.consigner
      /\ quantity \in Nat /\ quantity <= bid.amount /\ price \in Prices
  BY DealTerms
<1>3. /\ bid.consigner \in Accounts /\ ask.consigner \in Accounts
      /\ price.amount \in Nat /\ price.symbol \in Coins
  <2>1. \A r \in Requests : r.consigner \in Accounts /\ r.price \in [amount : Nat, symbol : Coins]
    BY MarketAssumption
  <2>2. price \in [amount : Nat, symbol : Coins]
    BY <1>2, <2>1 DEF Prices
  <2> QED
    BY <1>2, <2>1, <2>2
<1>4. units \in Nat
  <2>1. quantity < RangeMost
    <3>1. bid.amount < RangeMost /\ bid.amount \in Nat
      BY <1>2, MarketAssumption DEF InModelledRange
    <3>2. RangeMost \in Nat
      BY SMT DEF RangeMost
    <3> QED
      BY <1>2, <3>1, <3>2
  <2> QED
    BY <1>2, <2>1, DeliveredType
<1>5. total \in Nat
  BY <1>2, <1>3 DEF Total
<1> HIDE DEF bid, ask, quantity, price, total, token, units
<1> DEFINE currency == price.symbol
           payer    == bid.consigner
           payee    == ask.consigner
<1>6. /\ paid \in [Accounts \X Coins -> Nat]
      /\ \A a \in Accounts, c \in Coins :
            paid[<<a, c>>] = balance[<<a, c>>]
                + (IF c = price.symbol /\ a = ask.consigner THEN total ELSE 0)
                - (IF c = price.symbol /\ a = bid.consigner THEN total ELSE 0)
  <2>1. /\ total <= balance[<<payer, currency>>] /\ payer # payee
        /\ payer \in Accounts /\ payee \in Accounts /\ currency \in Coins
        /\ paid = Transfer(payer, payee, currency, total, balance)
    BY <1>1, <1>2, <1>3 DEF CanTransfer
  <2> HIDE DEF payer, payee, currency, paid
  <2>2. Paying(balance, payer, payee, currency, total, paid)
    BY <1>5, <2>1, TransferMoves
  <2> QED
    BY <2>2 DEF payer, payee, currency, Paying
<1> HIDE DEF paid
<1>7. ASSUME token \in Coins
      PROVE  /\ done \in [Accounts \X Coins -> Nat]
             /\ \A a \in Accounts, c \in Coins :
                   done[<<a, c>>] = paid[<<a, c>>]
                       + (IF c = token /\ a = bid.consigner THEN units ELSE 0)
                       - (IF c = token /\ a = ask.consigner THEN units ELSE 0)
  <2>1. /\ units <= paid[<<payee, token>>] /\ payer # payee
        /\ payer \in Accounts /\ payee \in Accounts
        /\ done = Transfer(payee, payer, token, units, paid)
    BY <1>1, <1>2, <1>3, <1>7 DEF CanTransfer
  <2> HIDE DEF payer, payee, done
  <2>2. Paying(paid, payee, payer, token, units, done)
    BY <1>4, <1>6, <1>7, <2>1, TransferMoves
  <2> QED
    BY <2>2 DEF payer, payee, Paying
<1> HIDE DEF done
<1>8. balance' \in [Accounts \X Coins -> Nat]
  BY <1>1, <1>6, <1>7
<1>9. ASSUME NEW a \in Accounts, NEW c \in Coins
      PROVE  balance'[<<a, c>>] =
                 balance[<<a, c>>] + Paid(a, c, b, s) + Received(a, c, b, s)
  <2>1. balance[<<a, c>>] \in Nat /\ paid[<<a, c>>] \in Nat
    BY <1>6
  <2>2. /\ Paid(a, c, b, s) = (IF c = price.symbol /\ a = ask.consigner THEN total ELSE 0)
                                  - (IF c = price.symbol /\ a = bid.consigner THEN total ELSE 0)
        /\ Received(a, c, b, s) = (IF c = token /\ a = bid.consigner THEN units ELSE 0)
                                      - (IF c = token /\ a = ask.consigner THEN units ELSE 0)
    BY DEF Paid, Received, bid, ask, quantity, price, total, token, units
  <2>3. Paid(a, c, b, s) \in Int /\ paid[<<a, c>>] = balance[<<a, c>>] + Paid(a, c, b, s)
    BY <1>5, <1>6, <2>1, <2>2
  <2>4. CASE token \in Coins
    <3>1. balance'[<<a, c>>] = paid[<<a, c>>]
                       + (IF c = token /\ a = bid.consigner THEN units ELSE 0)
                       - (IF c = token /\ a = ask.consigner THEN units ELSE 0)
      BY <1>1, <1>7, <2>4
    <3> QED
      BY <1>4, <2>1, <2>2, <2>3, <3>1
  <2>5. CASE token \notin Coins
    <3>1. balance'[<<a, c>>] = paid[<<a, c>>] /\ Received(a, c, b, s) = 0
      BY <1>1, <2>2, <2>5
    <3> QED
      BY <2>1, <2>3, <3>1
  <2> QED
    BY <2>4, <2>5
<1> QED
  BY <1>8, <1>9

-----------------------------------------------------------------------------
(* Balances *)

\* What a trade is worth is a number, and the more the higher the price.
LEMMA WorthGrows ==
    ASSUME NEW trade, trade.amount \in Nat, NEW coin, NEW p, NEW q,
           p.amount \in Nat, q.amount \in Nat, Leq(p, q)
    PROVE  /\ Worth(trade, p, coin) \in Int /\ Worth(trade, q, coin) \in Int
           /\ Worth(trade, p, coin) <= Worth(trade, q, coin)
<1> DEFINE n == trade.amount
           x == p.amount
           y == q.amount
<1>1. n * x \in Nat /\ n * y \in Nat /\ n * x <= n * y
  <2>1. n \in Nat /\ x \in Nat /\ y \in Nat /\ x <= y
    BY DEF Leq
  <2> HIDE DEF n, x, y
  <2> QED
    BY <2>1
<1> DEFINE nx == n * x
           ny == n * y
<1>2. p.symbol = q.symbol
  BY DEF Leq
<1>3. /\ Worth(trade, p, coin) = (IF p.symbol = coin THEN nx ELSE 0)
                                    - (IF trade.commodity = coin THEN n ELSE 0)
      /\ Worth(trade, q, coin) = (IF q.symbol = coin THEN ny ELSE 0)
                                    - (IF trade.commodity = coin THEN n ELSE 0)
  BY DEF Worth
<1> HIDE DEF nx, ny
<1>4. nx \in Nat /\ ny \in Nat /\ nx <= ny
  BY <1>1 DEF nx, ny
<1> QED
  BY <1>2, <1>3, <1>4

\* What an account gains by a trade is a number; the better the prices, the more.
LEMMA GainGrows ==
    ASSUME NEW a, NEW coin, NEW trade, trade.amount \in Nat,
           NEW sold \in Prices, NEW bought \in Prices, NEW price \in Prices,
           Leq(sold, price), Leq(price, bought)
    PROVE  /\ Gain(a, coin, trade, sold, bought) \in Int
           /\ Gain(a, coin, trade, price, price) \in Int
           /\ Gain(a, coin, trade, sold, bought) <= Gain(a, coin, trade, price, price)
<1>1. \A p \in Prices : p.amount \in Nat
  BY MarketAssumption DEF Prices
<1>2. trade.amount \in Nat
  OBVIOUS
<1>3. /\ Worth(trade, sold, coin) \in Int /\ Worth(trade, price, coin) \in Int
      /\ Worth(trade, sold, coin) <= Worth(trade, price, coin)
  BY <1>1, <1>2, WorthGrows
<1>4. /\ Worth(trade, bought, coin) \in Int
      /\ Worth(trade, price, coin) <= Worth(trade, bought, coin)
  BY <1>1, <1>2, WorthGrows
<1> QED
  BY <1>3, <1>4 DEF Gain

\* A trade of ctoc has prices within which it is, so that its gains are numbers.
LEMMA TradeGainType ==
    ASSUME NEW a, NEW coin, NEW trade \in Trade
    PROVE  /\ GainAtPrice(a, coin, trade) \in Int
           /\ GainAtLimits(a, coin, trade) \in Int
<1>1. trade.amount \in Int /\ trade.price \in Prices
  BY DEF Trade
<1>2. trade.ask.price \in Prices /\ trade.bid.price \in Prices
  BY RequestType DEF Trade
<1>3. \A p \in Prices : p.amount \in Int
  BY RequestsAssumption DEF Prices
<1>4. ASSUME NEW p \in Prices PROVE Worth(trade, p, coin) \in Int
  <2> DEFINE n == trade.amount
             x == p.amount
             product == n * x
  <2>1. product \in Int
    <3>1. n \in Int /\ x \in Int
      BY <1>1, <1>3
    <3> HIDE DEF n, x
    <3> QED
      BY <3>1
  <2>2. Worth(trade, p, coin) = (IF p.symbol = coin THEN product ELSE 0)
                                    - (IF trade.commodity = coin THEN n ELSE 0)
    BY DEF Worth
  <2> HIDE DEF product
  <2> QED
    BY <1>1, <2>1, <2>2
<1> QED
  BY <1>1, <1>2, <1>4 DEF GainAtPrice, GainAtLimits, Gain

\* A sum over the trades, with one trade more.
LEMMA SumOverTrades ==
    ASSUME NEW V \in [Trade -> Int], matched_order \in Seq(Trade), NEW trade \in Trade
    PROVE  /\ SumOf([i \in DOMAIN matched_order |-> V[matched_order[i]]]) \in Int
           /\ matched_order' = Append(matched_order, trade) =>
                 SumOf([i \in DOMAIN matched_order' |-> V[matched_order'[i]]]) =
                     SumOf([i \in DOMAIN matched_order |-> V[matched_order[i]]]) + V[trade]
<1> DEFINE f == [i \in DOMAIN matched_order |-> V[matched_order[i]]]
           n == Len(matched_order) + 1
<1>1. DOMAIN matched_order = 1 .. Len(matched_order) /\ Len(matched_order) \in Nat
  OBVIOUS
<1>2. Summable(f)
  <2>1. IsFiniteSet(DOMAIN matched_order)
    BY <1>1, FS_Interval
  <2>2. \A i \in DOMAIN matched_order : V[matched_order[i]] \in Int
    BY <1>1
  <2> QED
    BY <2>1, <2>2 DEF Summable
<1>3. SumOf(f) \in Int
  BY <1>2, SumType
<1>4. ASSUME matched_order' = Append(matched_order, trade)
      PROVE  SumOf([i \in DOMAIN matched_order' |-> V[matched_order'[i]]]) = SumOf(f) + V[trade]
  <2> DEFINE e == [i \in DOMAIN matched_order' |-> V[matched_order'[i]]]
  <2>1. matched_order' = Put(matched_order, n, trade) /\ n \notin DOMAIN matched_order
    BY <1>4, AppendIsPut
  <2>2. e = [i \in DOMAIN f \cup {n} |-> IF i = n THEN V[trade] ELSE f[i]]
    BY <2>1 DEF Put
  <2>3. n \notin DOMAIN f /\ V[trade] \in Int
    BY <2>1
  <2> HIDE DEF f, e, n
  <2>4. SumOf(e) = SumOf(f) + V[trade]
    BY ONLY <1>2, <2>2, <2>3, SumAdd
  <2> QED
    BY <2>4 DEF e
<1> QED
  BY <1>3, <1>4

\* By a tick that trades every account gains what its trade is worth at the
\* price paid, which is no less than at its own limits.
LEMMA DealGains ==
    ASSUME MarketInv, Deliverable, NEW b, NEW s, Deal(b, s), NEW trade \in Trade,
           trade.bid = buyer[b].request, trade.ask = seller[s].request,
           trade.amount = Matched(buyer[b], seller[s]),
           LET token == TokenName(buyer[b].request, seller[s].request)
           IN  /\ token \in Coins => trade.commodity = token
               /\ token \notin Coins => trade.commodity \notin Coins,
           NEW a, NEW coin \in Coins
    PROVE  LET price == PaidPrice(buyer[b].request, seller[s].request)
           IN  /\ Paid(a, coin, b, s) + Received(a, coin, b, s)
                      = Gain(a, coin, trade, price, price)
               /\ Gain(a, coin, trade, price, price) \in Int
               /\ GainAtLimits(a, coin, trade) <= Gain(a, coin, trade, price, price)
<1> DEFINE bid      == buyer[b].request
           ask      == seller[s].request
           quantity == Matched(buyer[b], seller[s])
           price    == PaidPrice(bid, ask)
           token    == TokenName(bid, ask)
<1>1. /\ bid \in Requests /\ ask \in Requests /\ bid.consigner # ask.consigner
      /\ quantity \in Nat /\ quantity <= bid.amount
      /\ bid.amount > 0 /\ ask.amount > 0 => quantity > 0
      /\ price \in Prices /\ Leq(ask.price, price) /\ Leq(price, bid.price)
  BY DealTerms DEF Deal
<1>2. quantity \in Nat /\ quantity > 0 /\ quantity <= FloatMost
  <2>1. FloatMost \in Nat
    BY SMT DEF FloatMost
  <2>2. bid.amount \in 1 .. FloatMost /\ ask.amount \in 1 .. FloatMost
    BY <1>1 DEF Deliverable
  <2> QED
    BY <1>1, <2>1, <2>2
<1>3. Delivered(quantity) = quantity
  BY <1>2, DeliveredExact
<1>4. price.amount \in Nat
  BY <1>1, MarketAssumption DEF Prices
<1>5. bid.price \in Prices /\ ask.price \in Prices
  BY <1>1, RequestType
<1>6. /\ Gain(a, coin, trade, price, price) \in Int
      /\ Gain(a, coin, trade, ask.price, bid.price) <= Gain(a, coin, trade, price, price)
  <2> HIDE DEF price, bid, ask
  <2>1. trade.amount \in Nat
    BY <1>1
  <2> QED
    BY <1>1, <1>5, <2>1, GainGrows
<1>7. GainAtLimits(a, coin, trade) = Gain(a, coin, trade, ask.price, bid.price)
  BY DEF GainAtLimits
<1>8. Paid(a, coin, b, s) + Received(a, coin, b, s) = Gain(a, coin, trade, price, price)
  <2> DEFINE total   == Total(price, quantity)
             product == trade.amount * price.amount
             payer   == bid.consigner
             payee   == ask.consigner
  <2>1. total = product /\ product \in Nat
    <3> HIDE DEF price, quantity
    <3> QED
      BY <1>2, <1>4 DEF Total, quantity
  <2>2. trade.commodity = coin <=> coin = token
    OBVIOUS
  <2>3. /\ Paid(a, coin, b, s) = (IF coin = price.symbol /\ a = payee THEN total ELSE 0)
                                     - (IF coin = price.symbol /\ a = payer THEN total ELSE 0)
        /\ Received(a, coin, b, s) = (IF coin = token /\ a = payer THEN Delivered(quantity) ELSE 0)
                                     - (IF coin = token /\ a = payee THEN Delivered(quantity) ELSE 0)
    BY DEF Paid, Received
  <2>4. Worth(trade, price, coin) = (IF price.symbol = coin THEN product ELSE 0)
                                        - (IF trade.commodity = coin THEN quantity ELSE 0)
    BY DEF Worth
  <2>5. Gain(a, coin, trade, price, price) =
            (IF payee = a THEN Worth(trade, price, coin) ELSE 0)
                - (IF payer = a THEN Worth(trade, price, coin) ELSE 0)
    BY DEF Gain
  <2>6. payer # payee
    BY <1>1
  <2> HIDE DEF total, product, payer, payee, token, price, quantity
  <2> QED
    BY <1>2, <1>3, <2>1, <2>2, <2>3, <2>4, <2>5, <2>6
<1> QED
  BY <1>6, <1>7, <1>8

\* What the trades of ctoc are worth to an account, at their prices and at the
\* limits of its orders.
AtPrices(a, coin) ==
    SumOf([i \in DOMAIN matched_order |-> GainAtPrice(a, coin, matched_order[i])])

AtLimits(a, coin) ==
    SumOf([i \in DOMAIN matched_order |-> GainAtLimits(a, coin, matched_order[i])])

\* One trade more.
LEMMA TradeGained ==
    ASSUME matched_order \in Seq(Trade), NEW trade \in Trade,
           matched_order' = Append(matched_order, trade), NEW a, NEW coin
    PROVE  /\ AtPrices(a, coin) \in Int /\ AtLimits(a, coin) \in Int
           /\ AtPrices(a, coin)' = AtPrices(a, coin) + GainAtPrice(a, coin, trade)
           /\ AtLimits(a, coin)' = AtLimits(a, coin) + GainAtLimits(a, coin, trade)
<1> DEFINE V == [t \in Trade |-> GainAtPrice(a, coin, t)]
           W == [t \in Trade |-> GainAtLimits(a, coin, t)]
<1>1. V \in [Trade -> Int] /\ W \in [Trade -> Int]
  BY TradeGainType
<1>2. /\ \A i \in DOMAIN matched_order : matched_order[i] \in Trade
      /\ \A i \in DOMAIN matched_order' : matched_order'[i] \in Trade
  <2>1. matched_order' \in Seq(Trade)
    OBVIOUS
  <2> QED
    BY <2>1
<1>3. /\ AtPrices(a, coin) = SumOf([i \in DOMAIN matched_order |-> V[matched_order[i]]])
      /\ AtPrices(a, coin)' = SumOf([i \in DOMAIN matched_order' |-> V[matched_order'[i]]])
  <2>1. [i \in DOMAIN matched_order |-> V[matched_order[i]]] =
            [i \in DOMAIN matched_order |-> GainAtPrice(a, coin, matched_order[i])]
    BY <1>2
  <2>2. [i \in DOMAIN matched_order' |-> V[matched_order'[i]]] =
            [i \in DOMAIN matched_order' |-> GainAtPrice(a, coin, matched_order'[i])]
    BY <1>2
  <2> QED
    BY <2>1, <2>2 DEF AtPrices
<1>4. /\ AtLimits(a, coin) = SumOf([i \in DOMAIN matched_order |-> W[matched_order[i]]])
      /\ AtLimits(a, coin)' = SumOf([i \in DOMAIN matched_order' |-> W[matched_order'[i]]])
  <2>1. [i \in DOMAIN matched_order |-> W[matched_order[i]]] =
            [i \in DOMAIN matched_order |-> GainAtLimits(a, coin, matched_order[i])]
    BY <1>2
  <2>2. [i \in DOMAIN matched_order' |-> W[matched_order'[i]]] =
            [i \in DOMAIN matched_order' |-> GainAtLimits(a, coin, matched_order'[i])]
    BY <1>2
  <2> QED
    BY <2>1, <2>2 DEF AtLimits
<1>5. V[trade] = GainAtPrice(a, coin, trade) /\ W[trade] = GainAtLimits(a, coin, trade)
  OBVIOUS
<1> HIDE DEF V, W
<1> QED
  BY <1>1, <1>3, <1>4, <1>5, SumOverTrades

\* At the start nothing was traded.
LEMMA NothingGained ==
    ASSUME matched_order = <<>>, NEW a, NEW coin
    PROVE  AtPrices(a, coin) = 0 /\ AtLimits(a, coin) = 0
<1>1. /\ [i \in DOMAIN matched_order |-> GainAtPrice(a, coin, matched_order[i])] = <<>>
      /\ [i \in DOMAIN matched_order |-> GainAtLimits(a, coin, matched_order[i])] = <<>>
  OBVIOUS
<1> QED
  BY <1>1, SumEmpty DEF AtPrices, AtLimits

\* Money moves by ticks that trade,
LEMMA QuietStep ==
    ASSUME [MarketNext]_marketVars, ~ TickTrades
    PROVE  UNCHANGED <<balance, matched_order>>
<1>1. CASE UserSteps
  BY <1>1 DEF UserSteps, LimitOrder, CancelLimitOrder, NextBlock
<1>2. CASE TickEndsNode \/ RestartNode \/ UNCHANGED marketVars
  BY <1>2 DEF TickEndsNode, OnPicked, RestartNode, marketVars, vars
<1> QED
  BY <1>1, <1>2 DEF MarketNext, Tick

\* that is, by deals alone.
LEMMA MoneyStep ==
    ASSUME Unambiguous, MarketInv, [MarketNext]_marketVars
    PROVE  UNCHANGED <<balance, matched_order>> \/ \E b, s : Deal(b, s)
BY QuietStep, TickIsDeal DEF MarketInv

\* What a float holds is within the modelled range.
LEMMA DeliverableInRange ==
    ASSUME Deliverable
    PROVE  InModelledRange
<1>1. FloatMost \in Nat /\ RangeMost \in Nat /\ FloatMost < RangeMost
  BY SMT DEF FloatMost, RangeMost
<1> QED
  BY <1>1 DEF Deliverable, InModelledRange

\* Nothing leaves its type while the market runs: no balance is ever negative.
THEOREM MarketTypeCorrect ==
    ASSUME InModelledRange
    PROVE  MarketSpec => []MarketTypeOK
<1>1. MarketInit => MarketTypeOK
  BY InitTypeOK, MarketAssumption DEF MarketInit, MarketTypeOK
<1>2. ASSUME MarketInv, MarketInv', MarketTypeOK, [MarketNext]_marketVars PROVE MarketTypeOK'
  <2>1. TypeOK'
    BY <1>2 DEF MarketInv, LedgerInv, IInv
  <2>2. running' \in BOOLEAN
    BY <1>2 DEF MarketTypeOK, MarketNext, UserSteps, Tick, TickTrades, TickEndsNode, OnPicked,
                RestartNode, marketVars
  <2>3. balance' \in [Accounts \X Coins -> Nat]
    <3>1. CASE TickTrades
      <4>1. PICK b, s : Pays(b, s)
        BY <1>2, <3>1, TickPays DEF MarketInv
      <4> QED
        BY <1>2, <4>1, DealMoney DEF MarketTypeOK
    <3>2. CASE ~ TickTrades
      BY <1>2, <3>2, QuietStep DEF MarketTypeOK
    <3> QED
      BY <3>1, <3>2
  <2> QED
    BY <2>1, <2>2, <2>3 DEF MarketTypeOK
<1> QED
  BY <1>1, <1>2, MarketInvariance, PTL DEF MarketSpec

\* By a deal an account gains at least what the limits of its orders allow
\* and, if no order is for anything, what ctoc says.
LEMMA DealBalances ==
    ASSUME MarketInv, balance \in [Accounts \X Coins -> Nat], Deliverable,
           NEW b, NEW s, Deal(b, s), NEW a \in Accounts, NEW coin \in Coins
    PROVE  /\ balance'[<<a, coin>>] - balance[<<a, coin>>] >=
                  AtLimits(a, coin)' - AtLimits(a, coin)
           /\ NoWildcards => balance'[<<a, coin>>] - balance[<<a, coin>>] =
                                 AtPrices(a, coin)' - AtPrices(a, coin)
           /\ balance[<<a, coin>>] \in Int /\ balance'[<<a, coin>>] \in Int
           /\ AtLimits(a, coin) \in Int /\ AtLimits(a, coin)' \in Int
           /\ AtPrices(a, coin) \in Int /\ AtPrices(a, coin)' \in Int
<1> DEFINE bid   == buyer[b].request
           ask   == seller[s].request
           price == PaidPrice(bid, ask)
           old   == balance[<<a, coin>>]
           new   == balance'[<<a, coin>>]
<1>1. PICK trade \in Trade :
          /\ matched_order' = Append(matched_order, trade)
          /\ trade.bid = bid /\ trade.ask = ask
          /\ trade.amount = Matched(buyer[b], seller[s])
          /\ TokenName(bid, ask) \in Coins => trade.commodity = TokenName(bid, ask)
          /\ TokenName(bid, ask) \notin Coins => trade.commodity \notin Coins
          /\ NoWildcards => trade.price = price
  BY DealTrade
<1> DEFINE gain == Gain(a, coin, trade, price, price)
<1>2. /\ Paid(a, coin, b, s) + Received(a, coin, b, s) = gain
      /\ gain \in Int /\ GainAtLimits(a, coin, trade) <= gain
  BY <1>1, DealGains
<1>3. balance' \in [Accounts \X Coins -> Nat]
  BY DealMoney, DeliverableInRange DEF Deal
<1>4. new = old + Paid(a, coin, b, s) + Received(a, coin, b, s)
  BY DealMoney, DeliverableInRange DEF Deal
<1>5. old \in Nat /\ new \in Nat
  BY <1>3
<1>6. Paid(a, coin, b, s) \in Int /\ Received(a, coin, b, s) \in Int
  <2>1. /\ price \in Prices /\ Matched(buyer[b], seller[s]) \in Nat
        /\ Matched(buyer[b], seller[s]) <= bid.amount /\ bid \in Requests
    BY DealTerms DEF Deal
  <2>2. price.amount \in Nat
    BY <2>1, MarketAssumption DEF Prices
  <2>3. Total(price, Matched(buyer[b], seller[s])) \in Nat
    BY <2>1, <2>2 DEF Total
  <2>4. Delivered(Matched(buyer[b], seller[s])) \in Nat
    <3>1. FloatMost \in Nat
      BY SMT DEF FloatMost
    <3>2. Matched(buyer[b], seller[s]) <= FloatMost
      BY <2>1, <3>1 DEF Deliverable
    <3> QED
      BY <2>1, <3>2, DeliveredExact
  <2> QED
    BY <2>3, <2>4 DEF Paid, Received
<1>7. new = old + gain
  <2> HIDE DEF new, old, gain
  <2> QED
    BY <1>2, <1>4, <1>5, <1>6
<1>8. /\ AtPrices(a, coin) \in Int /\ AtLimits(a, coin) \in Int
      /\ AtPrices(a, coin)' = AtPrices(a, coin) + GainAtPrice(a, coin, trade)
      /\ AtLimits(a, coin)' = AtLimits(a, coin) + GainAtLimits(a, coin, trade)
  <2>1. matched_order \in Seq(Trade)
    BY DEF MarketInv, LedgerInv, IInv, TypeOK
  <2> QED
    BY <1>1, <2>1, TradeGained
<1>9. GainAtPrice(a, coin, trade) \in Int /\ GainAtLimits(a, coin, trade) \in Int
  BY TradeGainType
<1>10. NoWildcards => GainAtPrice(a, coin, trade) = gain
  BY <1>1 DEF GainAtPrice
<1> DEFINE atp == AtPrices(a, coin)
           atl == AtLimits(a, coin)
           atp2 == AtPrices(a, coin)'
           atl2 == AtLimits(a, coin)'
<1> HIDE DEF new, old, gain, atp, atl, atp2, atl2
<1>11. /\ new - old >= atl2 - atl
       /\ NoWildcards => new - old = atp2 - atp
       /\ old \in Int /\ new \in Int
       /\ atl \in Int /\ atl2 \in Int /\ atp \in Int /\ atp2 \in Int
  BY <1>2, <1>5, <1>7, <1>8, <1>9, <1>10 DEF atp, atl, atp2, atl2
<1> QED
  BY <1>11 DEF new, old, atp, atl, atp2, atl2

\* Where nothing is traded, no sum over the trades changes.
LEMMA GainedSame ==
    ASSUME UNCHANGED matched_order, NEW a, NEW coin
    PROVE  AtPrices(a, coin)' = AtPrices(a, coin) /\ AtLimits(a, coin)' = AtLimits(a, coin)
BY DEF AtPrices, AtLimits

\* Whichever price the matcher computes and whatever it trades as what, no
\* account ends up with less than its own limit prices allow for: no order is
\* for nothing, and no quantity is rounded.
THEOREM LimitsInMoney ==
    ASSUME Unambiguous, Deliverable
    PROVE  MarketSpec => []LimitsHonouredInMoney
<1>1. MarketInit => LimitsHonouredInMoney
  <2> SUFFICES ASSUME MarketInit, NEW a \in Accounts, NEW coin \in Coins
               PROVE  balance[<<a, coin>>] >= Funds[<<a, coin>>] + AtLimits(a, coin)
    BY DEF LimitsHonouredInMoney, AtLimits
  <2>1. AtLimits(a, coin) = 0
    BY NothingGained DEF MarketInit, Init
  <2>2. Funds[<<a, coin>>] \in Nat /\ balance = Funds
    BY MarketAssumption DEF MarketInit
  <2> QED
    BY <2>1, <2>2
<1>2. MarketInv /\ MarketTypeOK /\ LimitsHonouredInMoney /\ [MarketNext]_marketVars
          => LimitsHonouredInMoney'
  <2> SUFFICES ASSUME MarketInv, MarketTypeOK, LimitsHonouredInMoney, [MarketNext]_marketVars,
                      NEW a \in Accounts, NEW coin \in Coins
               PROVE  balance'[<<a, coin>>] >= Funds[<<a, coin>>] + AtLimits(a, coin)'
    BY DEF LimitsHonouredInMoney, AtLimits
  <2>1. /\ balance \in [Accounts \X Coins -> Nat]
        /\ balance[<<a, coin>>] >= Funds[<<a, coin>>] + AtLimits(a, coin)
    BY DEF MarketTypeOK, LimitsHonouredInMoney, AtLimits
  <2>2. Funds[<<a, coin>>] \in Nat
    BY MarketAssumption
  <2>3. CASE UNCHANGED <<balance, matched_order>>
    BY <2>1, <2>3, GainedSame
  <2>4. CASE \E b, s : Deal(b, s)
    <3>1. PICK b, s : Deal(b, s)
      BY <2>4
    <3>2. /\ balance'[<<a, coin>>] - balance[<<a, coin>>] >=
                 AtLimits(a, coin)' - AtLimits(a, coin)
          /\ balance[<<a, coin>>] \in Int /\ balance'[<<a, coin>>] \in Int
          /\ AtLimits(a, coin) \in Int /\ AtLimits(a, coin)' \in Int
      BY <2>1, <3>1, DealBalances
    <3> QED
      BY <2>1, <2>2, <3>2
  <2> QED
    BY <2>3, <2>4, MoneyStep
<1> QED
  BY <1>1, <1>2, MarketInvariance, MarketTypeCorrect, DeliverableInRange, PTL DEF MarketSpec

\* Where no order is for anything, what eosio.token holds is what ctoc says was
\* traded, over any number of ticks, refusals, restarts and cancellations.
THEOREM BalancesCorrect ==
    ASSUME Unambiguous, Deliverable, NoWildcards
    PROVE  MarketSpec => []BalancesMatchTrades
<1>1. MarketInit => BalancesMatchTrades
  <2> SUFFICES ASSUME MarketInit, NEW a \in Accounts, NEW coin \in Coins
               PROVE  balance[<<a, coin>>] = Funds[<<a, coin>>] + AtPrices(a, coin)
    BY DEF BalancesMatchTrades, AtPrices
  <2>1. AtPrices(a, coin) = 0
    BY NothingGained DEF MarketInit, Init
  <2>2. Funds[<<a, coin>>] \in Nat /\ balance = Funds
    BY MarketAssumption DEF MarketInit
  <2> QED
    BY <2>1, <2>2
<1>2. MarketInv /\ MarketTypeOK /\ BalancesMatchTrades /\ [MarketNext]_marketVars
          => BalancesMatchTrades'
  <2> SUFFICES ASSUME MarketInv, MarketTypeOK, BalancesMatchTrades, [MarketNext]_marketVars,
                      NEW a \in Accounts, NEW coin \in Coins
               PROVE  balance'[<<a, coin>>] = Funds[<<a, coin>>] + AtPrices(a, coin)'
    BY DEF BalancesMatchTrades, AtPrices
  <2>1. /\ balance \in [Accounts \X Coins -> Nat]
        /\ balance[<<a, coin>>] = Funds[<<a, coin>>] + AtPrices(a, coin)
    BY DEF MarketTypeOK, BalancesMatchTrades, AtPrices
  <2>2. Funds[<<a, coin>>] \in Nat
    BY MarketAssumption
  <2>3. CASE UNCHANGED <<balance, matched_order>>
    BY <2>1, <2>3, GainedSame
  <2>4. CASE \E b, s : Deal(b, s)
    <3>1. PICK b, s : Deal(b, s)
      BY <2>4
    <3>2. /\ balance'[<<a, coin>>] - balance[<<a, coin>>] =
                 AtPrices(a, coin)' - AtPrices(a, coin)
          /\ balance[<<a, coin>>] \in Int /\ balance'[<<a, coin>>] \in Int
          /\ AtPrices(a, coin) \in Int /\ AtPrices(a, coin)' \in Int
      BY <2>1, <3>1, DealBalances
    <3> QED
      BY <2>1, <2>2, <3>2
  <2> QED
    BY <2>3, <2>4, MoneyStep
<1> QED
  BY <1>1, <1>2, MarketInvariance, MarketTypeCorrect, DeliverableInRange, PTL DEF MarketSpec
=============================================================================
