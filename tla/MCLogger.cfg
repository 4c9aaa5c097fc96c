\* 2 producers, 4 messages, 2 runs of the logging thread.
CONSTANTS
  Producer = {p1, p2}
  MaxMessages = 4
  MaxStarts = 2
SPECIFICATION FairSpec
CHECK_DEADLOCK FALSE
INVARIANTS
  TypeOK
  FifoExactlyOnce
  PurgeCompletes
PROPERTIES
  MessagesWritten
