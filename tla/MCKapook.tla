------------------------------ MODULE MCKapook ------------------------------
(***************************************************************************)
(* Small instances of Kapook.                                              *)
(***************************************************************************)
EXTENDS KapookSums, TLC

CONSTANTS u1, p1

(* Unit and step 100, at most 300 a purchase, one satang interest a unit.  *)
MCRules == [p \in Product |-> [unit |-> 100, min |-> 100, max |-> 300,
                               step |-> 100, interest |-> 1]]

(* The second day is a draw day.                                           *)
MCDrawDay == {<<p1, 1>>}

MCAmount == {50, 100, 150, 200}

(* Goals and holdings are interchangeable names; so are users.             *)
Symmetry == Permutations(GoalId) \cup Permutations(HoldingId)
=============================================================================
