----------------------------- MODULE MCExchange -----------------------------
(***************************************************************************)
(* Small instances of Exchange for TLC: two accounts, one commodity        *)
(* besides "*", prices that cross and prices that do not, partial fills.   *)
(***************************************************************************)
EXTENDS Exchange, TLC

CONSTANTS a1, a2, label, label1, data, anything, noname

RMB(n) == [amount |-> n, symbol |-> "RMB"]

Request(who, type, what, amount, price, oper) ==
    [consigner |-> who, commodity_type |-> type, commodity |-> what,
     amount |-> amount, price |-> price, oper |-> oper]

\* An account is written as a number.
MCText ==
    a1 :> <<"5">> @@ a2 :> <<"7">>
    @@ label :> <<"l">> @@ label1 :> <<"1", "l">>
    @@ data :> <<"d">> @@ anything :> <<"*">>
    @@ [p \in [amount : -1 .. 3, symbol : {"RMB"}] |-> Decimal(p.amount) \o <<" ", p.symbol>>]

\* Orders that trade with each other, and the odd ones that lmto accepts: for
\* nothing, for or at less than nothing, and with the number of another order
\* and an oper that is neither buy nor sell; and one that it does not accept,
\* too large for an asset.
OddRequests == {
    Request(a1, label1, data,      1, RMB(3), Buy),
    Request(a1, label,  data,      1, RMB(3), 11),
    Request(a2, label1, data,      2, RMB(3), Sell),
    Request(a1, label1, anything,  0, RMB(-1), Sell),
    Request(a2, label1, data,     -1, RMB(2), Buy),
    Request(a2, label1, data,      9, RMB(3), Buy) }

\* Which names mlmto may be called with.
MCNames == {data, anything}
=============================================================================
