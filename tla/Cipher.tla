------------------------------- MODULE Cipher -------------------------------
(***************************************************************************)
(* The permutation that hides a wallet's password in the table wltpwd      *)
(* (reverse_string and its callers, data_exchange_plugin.cpp).  A string   *)
(* is a sequence of characters of any kind.                                *)
(*                                                                         *)
(* Where a definition has a sibling with a longer name before it, the      *)
(* sibling is a deliberate fault that a property of Registry must catch.   *)
(***************************************************************************)
EXTENDS Naturals, Sequences

\* pwd_seq_nums, in order
Steps == <<1, 2, 3, 5, 6>>

\* Euclid's algorithm, for positive numbers.
gcd[p \in (Nat \ {0}) \X (Nat \ {0})] ==
    IF p[1] % p[2] = 0 THEN p[2] ELSE gcd[<<p[2], p[1] % p[2]>>]

hcd(x, y) == (x * y) \div gcd[<<x, y>>]

\* The length of the blocks: the least common multiple of the steps.
n_hcd == hcd(Steps[5], hcd(Steps[4], hcd(Steps[3], hcd(Steps[2], hcd(Steps[1], 1)))))

\* A string that fills its block is padded by a whole block more.
Pad(s, padding) == s \o [i \in 1 .. (n_hcd - (Len(s) % n_hcd)) |-> padding]

\* The slices of len characters, counted from the end, last one first: what
\* is left over at the front is dropped.
ReverseString(s, len) ==
    LET n == Len(s)
    IN [i \in 1 .. len * (n \div len) |->
           s[n - len * (((i - 1) \div len) + 1) + ((i - 1) % len) + 1]]

Scrambled(s) ==
    ReverseString(ReverseString(ReverseString(ReverseString(ReverseString(
        s, Steps[1]), Steps[2]), Steps[3]), Steps[4]), Steps[5])

UnscrambledInOrder(s) == Scrambled(s)

\* The steps in the reversed order.
Unscrambled(s) ==
    ReverseString(ReverseString(ReverseString(ReverseString(ReverseString(
        s, Steps[5]), Steps[4]), Steps[3]), Steps[2]), Steps[1])
=============================================================================
