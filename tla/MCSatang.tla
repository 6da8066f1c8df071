------------------------------ MODULE MCSatang ------------------------------
(***************************************************************************)
(* Small instances of Satang.                                              *)
(***************************************************************************)
EXTENDS Satang

(* Half a satang, a satang, one and a half, and most of a goal.            *)
MCAmount == {4, 5, 10, 15, 1980}
=============================================================================
