----------------------------- MODULE MCKapookTx -----------------------------
(***************************************************************************)
(* Small instances of KapookTx.                                            *)
(***************************************************************************)
EXTENDS KapookTx, TLC

(* Unit and step 100, at most 200 a purchase, one satang interest a unit.  *)
MCRules == [p \in Product |-> [unit |-> 100, min |-> 100, max |-> 200,
                               step |-> 100, interest |-> 1]]

MCAmount == {100, 200}

Symmetry == Permutations(Session) \cup Permutations(GoalId)
                \cup Permutations(HoldingId) \cup Permutations(Product)
=============================================================================
