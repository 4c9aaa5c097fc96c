\* stop() sets m_stop between the runner's test of the wait predicate and its sleep.
CONSTANTS
  Producer = {p1, p2}
  MaxMessages = 2
  MaxStarts = 1
SPECIFICATION FairSpec
CHECK_DEADLOCK FALSE
PROPERTY StopIsSeen
