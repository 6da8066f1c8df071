------------------------------- MODULE MCSeed -------------------------------
(***************************************************************************)
(* Small instances of Seed.                                                *)
(***************************************************************************)
EXTENDS Seed, TLC

Symmetry == Permutations(Password)
=============================================================================
