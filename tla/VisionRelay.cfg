SPECIFICATION FairSpec
CONSTANTS
  MaxSent = 6
  Depth = 3
INVARIANTS TypeOK
PROPERTIES NoRegression UpToDate
CHECK_DEADLOCK FALSE
