-------------------------------- MODULE MCQueue --------------------------------
(***************************************************************************)
(* A small instance of Queue.                                              *)
(***************************************************************************)
EXTENDS Queue, TLC

Symmetry == Permutations(Node) \cup Permutations(Data)
=============================================================================
