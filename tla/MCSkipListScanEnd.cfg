\* A range scan whose end key is not below the greatest key of the index.
CONSTANTS
  Node = {n1, n2, n3}
  HeadNode = head
  Null = null
  Freed = freed
  NoEnd = noend
  Key = {1, 2, 3}
  Buf = {b1, b2, b3, b4}
  MaxNodeHeight = 2
SYMMETRY Symmetry
SPECIFICATION ScanSpec
CHECK_DEADLOCK FALSE
INVARIANT RangeScanEnds
