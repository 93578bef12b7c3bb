SPECIFICATION Spec
CONSTANTS
  MaxSent = 6
  Depth = 3
INVARIANTS AtMostOnce
CHECK_DEADLOCK FALSE
