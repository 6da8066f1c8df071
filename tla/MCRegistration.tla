--------------------------- MODULE MCRegistration ---------------------------
(***************************************************************************)
(* Small instances of Registration.                                        *)
(***************************************************************************)
EXTENDS Registration, TLC

(* 1234009012, 4001000111 and 5001000111 of cmd/seed/main.go.              *)
MCSeededNumbers == {<<12, 34009012>>, <<40, 1000111>>, <<50, 1000111>>}

Symmetry == Permutations(Client) \cup Permutations(Name)
=============================================================================
