\* Up to 3 nodes at a time, 4 data, 20 dequeues.
CONSTANTS
  Node = {n1, n2, n3}
  Data = {d1, d2, d3, d4}
  Null = null
  MaxConsumed = 20
SYMMETRY Symmetry
SPECIFICATION Spec
INVARIANT ListOK
PROPERTY FifoSpec
