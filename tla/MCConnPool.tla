----------------------------- MODULE MCConnPool -----------------------------
(***************************************************************************)
(* Small instances of ConnPool.                                            *)
(***************************************************************************)
EXTENDS ConnPool, TLC

Symmetry == Permutations(Request)
=============================================================================
