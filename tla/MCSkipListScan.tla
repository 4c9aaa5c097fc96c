---------------------------- MODULE MCSkipListScan ----------------------------
(***************************************************************************)
(* Small instances of SkipListScan.                                        *)
(***************************************************************************)
EXTENDS SkipListScan, TLC

Symmetry == Permutations(Node) \cup Permutations(Buf)
=============================================================================
