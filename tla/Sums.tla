-------------------------------- MODULE Sums --------------------------------
(***************************************************************************)
(* Totals: the amounts of a set of rows, added up.                         *)
(***************************************************************************)
EXTENDS FiniteSetsExt

Total(weight, S) == MapThenSumSet(LAMBDA x : weight[x], S)
=============================================================================
