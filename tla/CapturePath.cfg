SPECIFICATION FairSpec
CONSTANTS
  BufSize = 1
  CntMod = 16
  DecMod = 4
  Reset <- ResetConfig
  Configs <- BuildConfigs
  Programs <- AllPrograms
  BlockSize = 4
  InDepth = 2
  OutDepth = 3
  MaxFrames = 5
  MaxRestarts = 1
INVARIANTS
  PathTypeOK
  SkewAtMostOne
  PairsOfOneFrame
  BlocksWhole
  HaltsOnlyIfLate
PROPERTY InputDrains
CHECK_DEADLOCK FALSE
