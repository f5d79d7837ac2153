SPECIFICATION ArithSpec
CONSTANTS
  DinOne = 4
  Pad = 4
  CoeffOne = 16
  OutDrop = 2
  OutMod = 16
  MaxTaps = 6
INVARIANTS
  ResultExact
  OffByTurns
  RtlAgrees
