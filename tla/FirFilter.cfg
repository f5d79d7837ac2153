SPECIFICATION Spec
CONSTANTS
  BufSize = 3
  CntMod = 8
  DecMod = 4
  Reset <- ResetConfig
  Configs <- AllConfigs
  MaxSamples = 8
  MaxInits = 2
INVARIANTS
  Convolves
  FramesExactly
PROPERTY Decimates
CHECK_DEADLOCK FALSE
