-------------------------- MODULE MCTableTransactions --------------------------
(***************************************************************************)
(* Small instances of TableTransactions.                                   *)
(***************************************************************************)
EXTENDS TableTransactions, TLC

Symmetry == Permutations(Thread) \cup Permutations(Row)
=============================================================================
