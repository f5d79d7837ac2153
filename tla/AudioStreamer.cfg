SPECIFICATION FairSpec
CONSTANTS
  BuffSize = 6
  TransferSize = 2
  MaxBlocks = 6
  Faults <- AllFaults
  p1 = p1
  p2 = p2
  Peers <- TwoPeers
  NoPeer = NoPeer
  TxSlots = 2
INVARIANTS
  RingSafe
  PayloadIntactUntilLapped
  StalePayloadOnlyIfRaced
  LossOnlyInsideTransfer
PROPERTIES
  TakesNewestOnce
  SendsOnlyWhileStarted
  HandoffConsumed
  EngineRestarted
