----------------------------- MODULE MCKapookApi -----------------------------
(***************************************************************************)
(* Small instances of KapookApi.                                           *)
(***************************************************************************)
EXTENDS KapookApi, TLC

MCAmount == {100, 200}

Symmetry == Permutations(Device)
=============================================================================
