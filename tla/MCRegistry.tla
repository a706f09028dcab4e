----------------------------- MODULE MCRegistry -----------------------------
(***************************************************************************)
(* Three accounts: texts of one and of two wallets, one inside another, one *)
(* a character short of a block, one that fills it, a character more,  *)
(* and one with an escape in it.                                           *)
(***************************************************************************)
EXTENDS Registry

CONSTANTS a1, a2, a3

MCAccounts == {a1, a2, a3}

\* Euclid's algorithm finds the greatest common divisor.
ASSUME EuclidFindsDivisor ==
    \A x, y \in 1 .. 30 :
        gcd[<<x, y>>] = Max({d \in 1 .. 30 : x % d = 0 /\ y % d = 0})

\* The length of a block is the least common multiple of the steps.
ASSUME BlockIsMultiple ==
    /\ n_hcd = 30
    /\ {m \in 1 .. n_hcd : \A s \in ToSet(Steps) : m % s = 0} = {n_hcd}

\* Accounts are only compared with one another.
Symmetry == Permutations(MCAccounts)

Digits == <<"0", "1", "2", "3", "4", "5", "6", "7", "8", "9">>

\* A wallet whose password has n characters.
Long(n) == <<"u", "#">> \o [i \in 1 .. n |-> Digits[((i * i) % 7) + 1]]

MCTexts ==
    {<<"w", "#", "p">>,
     <<"v", "#", "q">>,
     <<"w", "#", "p", "|", "v", "#", "q">>,
     Long(27), Long(28), Long(29),
     <<"w", "#", "%", "j">>}

\* What NothingInvented is proved from.
ASSUME TextsAreWallets == \A t \in MCTexts : Wallets(t)

MCCharacters == UNION {ToSet(t) : t \in MCTexts} \union {Padding, Comma, ":", "|"}
=============================================================================
