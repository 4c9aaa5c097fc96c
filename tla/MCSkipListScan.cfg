\* One scan over a primary index of up to 3 keys that is changed meanwhile.
CONSTANTS
  Node = {n1, n2, n3}
  HeadNode = head
  Null = null
  Freed = freed
  NoEnd = noend
  Key = {1, 2, 3}
  Buf = {b1, b2, b3, b4}
  MaxNodeHeight = 2
SYMMETRY Symmetry
SPECIFICATION ScanSpec
CHECK_DEADLOCK FALSE
INVARIANTS
  ScanTypeOK
  ScanComplete
