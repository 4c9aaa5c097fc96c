\* Two columns of four kinds, sizes modulo 8, two writes of the schema file.
CONSTANTS
  Choice <- SomeColumns
  ReadsAs <- ReadBack
  Indented <- SpaceFirst
  Remnants <- CutAtColons
  Width = 8
  MaxColumns = 2
  MaxRead = 0
  MaxWrites = 2
SPECIFICATION Spec
INVARIANT TypeOK
INVARIANT LayoutExact
INVARIANT FinalizedReopens
INVARIANT OpensWithPrefix
INVARIANT OpenIsUsable
CHECK_DEADLOCK FALSE
