\* Removing a key a secondary index holds more than once, at different heights.
CONSTANTS
  Node = {n1, n2, n3}
  HeadNode = head
  Null = null
  Key = {1, 2}
  Buf = {b1, b2, b3, b4}
  MaxNodeHeight = 3
  MaxSecondaryKey = 3
SYMMETRY Symmetry
SPECIFICATION Spec
CONSTRAINT SecondaryBound
CHECK_DEADLOCK FALSE
INVARIANT RemoveHitsOneNode
