------------------------------ MODULE MCMarket ------------------------------
(***************************************************************************)
(* Small instances of Market for TLC.                                      *)
(***************************************************************************)
EXTENDS Market

CONSTANTS a1, a2, a3, label, data, tok, usd, rmb, anything, noname

RMB(n) == [amount |-> n, symbol |-> rmb]
USD(n) == [amount |-> n, symbol |-> usd]

MCText ==
    a1 :> <<"5">> @@ a2 :> <<"6">> @@ a3 :> <<"7">>
    @@ label :> <<"l">>
    @@ data :> <<"d">> @@ tok :> <<"t">> @@ anything :> <<"*">>
    @@ [p \in [amount : 1 .. 3, symbol : {rmb, usd}] |->
           Digits[p.amount] \o <<IF p.symbol = rmb THEN " RMB" ELSE " USD">>]

Bid(who, what, amount, price) ==
    [consigner |-> who, commodity_type |-> label, commodity |-> what,
     amount |-> amount, price |-> price, oper |-> Buy]

Ask(who, what, amount, price) ==
    [consigner |-> who, commodity_type |-> label, commodity |-> what,
     amount |-> amount, price |-> price, oper |-> Sell]

Coins3 == {rmb, usd, tok}
Names3 == {data, tok, anything}
Accounts2 == {a1, a2}
Accounts3 == {a1, a2, a3}

Plenty == [ac \in Accounts3 \X Coins3 |-> 30]

\* Two accounts on both sides, wildcards, a token, two currencies, and
\* too little money for some trades.
MixedRequests == {
    Bid(a1, data,     1, RMB(3)),
    Bid(a1, tok,      2, RMB(2)),
    Bid(a2, anything, 2, RMB(2)),
    Ask(a1, data,     1, RMB(1)),
    Ask(a1, data,     1, USD(1)),
    Ask(a2, tok,      1, RMB(1)),
    Ask(a2, anything, 1, RMB(2)),
    Ask(a2, anything, 1, RMB(3)) }
ShortFunds == [ac \in Accounts2 \X Coins3 |->
                  IF ac[2] = rmb THEN 4 ELSE IF ac[1] = a2 THEN 1 ELSE 0]

\* One token, one currency, enough of both, no account on both sides; up to
\* the largest quantity below which every number is a float.
Most == 2^24

PlainRequests == {
    Bid(a1, tok, Most, RMB(3)),
    Bid(a2, tok, 1, RMB(2)),
    Ask(a3, tok, 1, RMB(1)),
    Ask(a3, tok, Most, RMB(3)) }

Wealth == [ac \in Accounts3 \X Coins3 |-> 12 * Most]

\* One account is the best buyer and the only seller.
OwnRequests == {
    Bid(a1, tok, 1, RMB(3)),
    Bid(a2, tok, 1, RMB(2)),
    Ask(a1, tok, 1, RMB(1)),
    Ask(a1, tok, 1, RMB(2)) }

\* Offers for any commodity, and for one that is not a token.
WildcardRequests == {
    Bid(a1, data, 1, RMB(3)),
    Ask(a2, data, 1, RMB(2)),
    Ask(a2, anything, 1, RMB(1)) }

\* The best buyer wants what nobody offers.
BlockedRequests == {
    Bid(a1, data, 1, RMB(3)),
    Bid(a1, tok, 1, RMB(2)),
    Ask(a2, tok, 1, RMB(1)) }

\* The theorems about priorities and money ask for it.
ASSUME NumbersAssumption == Unambiguous
=============================================================================
