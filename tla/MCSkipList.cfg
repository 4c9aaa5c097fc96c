\* 3 keys in a primary index, up to 3 nodes over 2 keys in a secondary one, every
\* mix of the heights 1..3.
CONSTANTS
  Node = {n1, n2, n3}
  HeadNode = head
  Null = null
  Key = {1, 2, 3}
  Buf = {b1, b2, b3, b4}
  MaxNodeHeight = 3
  MaxSecondaryKey = 3
SYMMETRY Symmetry
SPECIFICATION Spec
CONSTRAINT SecondaryBound
CHECK_DEADLOCK FALSE
INVARIANTS
  TypeOK
  WidthsExact
  LevelsAreSublists
  RowsOwnHeap
PROPERTIES
  IndexSpec
