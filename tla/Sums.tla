-------------------------------- MODULE Sums --------------------------------
(***************************************************************************)
(* The sum over a table, for the properties that add up its rows.          *)
(***************************************************************************)
EXTENDS Integers, FiniteSets, FiniteSetsExt

\* The sum of the values of a function.
SumOf(f) == MapThenSumSet(LAMBDA k : f[k], DOMAIN f)
=============================================================================
