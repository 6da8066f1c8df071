---------------------------- MODULE MCCountdown ----------------------------
(***************************************************************************)
(* Small instances of Countdown.                                           *)
(***************************************************************************)
EXTENDS Countdown

(* A duration may be zero; the default lies between two others.            *)
MCDurations == {0, 1, 3}
=============================================================================
