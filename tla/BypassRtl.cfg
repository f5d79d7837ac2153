SPECIFICATION FairSpec
CONSTANTS
  CntMod = 8
  Numbers = {1, 2, 3, 5}
  MaxPairs = 5
  MaxResets = 2
PROPERTIES
  ImplementsBypass
  CallEnds
CHECK_DEADLOCK FALSE
