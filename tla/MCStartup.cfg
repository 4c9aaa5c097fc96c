\* Three starts with files of up to two of 14 lines.
CONSTANTS
  Word <- Words
  Space <- Spaces
  Digit <- Digits
  IntMax = 99
  FieldWidth <- Widths
  Line <- Lines
  MaxLines = 2
  Unset = unset
  Threw = threw
  Overrun = overrun
  Closed = closed
  MaxStarts = 3
SPECIFICATION Spec
INVARIANT TypeOK
INVARIANT TrimExact
INVARIANT FieldsFromLastLine
INVARIANT OutputMatchesMode
CHECK_DEADLOCK FALSE
