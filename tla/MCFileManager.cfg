\* Two tables, 4 sequence numbers, up to 5 files of a kind.
CONSTANTS
  Table = {t1, t2}
  SharesPrefix <- OwnNameOnly
  MaxFiles = 4
  MaxMade = 5
SPECIFICATION Spec
INVARIANT TypeOK
INVARIANT ValuesFollowLogs
INVARIANT ValidUnlessTorn
INVARIANT FoundByNumber
PROPERTY FileLogSpec
CHECK_DEADLOCK FALSE
