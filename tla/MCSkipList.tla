------------------------------ MODULE MCSkipList ------------------------------
(***************************************************************************)
(* Small instances of SkipList.  Nodes and buffers are interchangeable.    *)
(***************************************************************************)
EXTENDS SkipList, TLC

\* Bound: a secondary index holds the keys below MaxSecondaryKey only, so that
\* its keys repeat.
CONSTANT MaxSecondaryKey
SecondaryBound ==
  primary \/ \A n \in DOMAIN node \ {HeadNode} : node[n].key < MaxSecondaryKey

Symmetry == Permutations(Node) \cup Permutations(Buf)
=============================================================================
