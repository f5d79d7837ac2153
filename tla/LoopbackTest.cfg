SPECIFICATION TestFairSpec
CONSTANTS
  MemLines = 6
  N = 3
  StreamDepth = 2
INVARIANTS
  Delivered
  ErrorOnlyIfEarly
PROPERTY Ends
CHECK_DEADLOCK FALSE
