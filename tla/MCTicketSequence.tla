-------------------------- MODULE MCTicketSequence --------------------------
(***************************************************************************)
(* Small instances of TicketSequence.                                      *)
(***************************************************************************)
EXTENDS TicketSequence, TLC

(* Customers' transactions, holdings and products are interchangeable      *)
(* names.                                                                  *)
Symmetry == Permutations(Tx \ Pass) \cup Permutations(HoldingId)
                \cup Permutations(Product)
=============================================================================
