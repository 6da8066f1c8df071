------------------------ MODULE MCAutoPurchaseWorker ------------------------
(***************************************************************************)
(* Small instances of AutoPurchaseWorker.                                  *)
(***************************************************************************)
EXTENDS AutoPurchaseWorker, TLC

CONSTANTS g1, g2, g3, p1, p2

(* The first goal saves for a product of its own.                          *)
MCProductOf == [g \in GoalId |-> IF g = g1 THEN p1 ELSE p2]

(* The product that is never retired closes on the second day.             *)
MCDrawDay == {<<p2, 1>>}

(* Closed a day after the first goals can be due.                          *)
MCDrawDayLater == {<<p2, 2>>}

Symmetry == Permutations(Replica) \cup Permutations(Customer)
=============================================================================
