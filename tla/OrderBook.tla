----------------------------- MODULE OrderBook -----------------------------
(***************************************************************************)
(* What the exchange contract promises its users, without tables, status   *)
(* codes or order numbers: two books of resting orders, each with its      *)
(* terms and the quantity still to be traded, and the list of deals made.  *)
(* A deal takes the same quantity from one bid and one ask, as much as     *)
(* both can still trade, at a price their terms allow; and an order leaves *)
(* its book exactly when it is filled or withdrawn.                        *)
(***************************************************************************)
EXTENDS Integers, Sequences

CONSTANTS
    Keys,       \* what a book can hold its orders under
    Bids,       \* what a bid can ask for: its possible terms
    Asks,       \* what an ask can offer
    Quantity,   \* function from terms to the quantity they ask for, an integer
    Prices,     \* the possible prices of a deal
    Matches     \* the <<bid terms, ask terms, price>> that may make a deal

VARIABLES
    bids,       \* function from keys to the resting bids, [terms, left]
    asks,       \* the same for the resting asks
    deals       \* sequence of [bid, ask, quantity, price]

vars == <<bids, asks, deals>>

Init == bids = << >> /\ asks = << >> /\ deals = << >>

With(book, k, order) ==
    [j \in DOMAIN book \cup {k} |-> IF j = k THEN order ELSE book[j]]

Without(book, k) == [j \in DOMAIN book \ {k} |-> book[j]]

\* The book when one more order with these terms rests in it.
Placed(book, k, terms) ==
    With(book, k, [terms |-> terms, left |-> Quantity[terms]])

\* The book once `quantity` of order k has been dealt.
Dealt(book, k, quantity) ==
    IF book[k].left = quantity
    THEN Without(book, k)
    ELSE With(book, k, [book[k] EXCEPT !.left = @ - quantity])

PlaceBid ==
    /\ \E k \in Keys \ DOMAIN bids, terms \in Bids : bids' = Placed(bids, k, terms)
    /\ UNCHANGED <<asks, deals>>

PlaceAsk ==
    /\ \E k \in Keys \ DOMAIN asks, terms \in Asks : asks' = Placed(asks, k, terms)
    /\ UNCHANGED <<bids, deals>>

WithdrawBid ==
    /\ \E k \in DOMAIN bids : bids' = Without(bids, k)
    /\ UNCHANGED <<asks, deals>>

WithdrawAsk ==
    /\ \E k \in DOMAIN asks : asks' = Without(asks, k)
    /\ UNCHANGED <<bids, deals>>

Deal(b, s, quantity, price) ==
    /\ <<bids[b].terms, asks[s].terms, price>> \in Matches
    /\ bids' = Dealt(bids, b, quantity)
    /\ asks' = Dealt(asks, s, quantity)
    /\ deals' = Append(deals, [bid |-> bids[b].terms, ask |-> asks[s].terms,
                               quantity |-> quantity, price |-> price])

MakeDeal ==
    \E b \in DOMAIN bids, s \in DOMAIN asks, price \in Prices :
        \/ bids[b].left <= asks[s].left /\ Deal(b, s, bids[b].left, price)
        \/ asks[s].left <= bids[b].left /\ Deal(b, s, asks[s].left, price)

Next == PlaceBid \/ PlaceAsk \/ WithdrawBid \/ WithdrawAsk \/ MakeDeal

Spec == Init /\ [][Next]_vars
=============================================================================
