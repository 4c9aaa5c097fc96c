\* Three writes of up to two bytes to a file of up to two.
CONSTANTS
  MaxLength = 2
  MaxWrites = 3
  MaxInitial = 2
SPECIFICATION Spec
INVARIANT TypeOK
INVARIANT SizeIsReal
INVARIANT DirectionKept
INVARIANT PositionsHold
PROPERTY AckedStays
CHECK_DEADLOCK FALSE
