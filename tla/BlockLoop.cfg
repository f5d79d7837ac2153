SPECIFICATION FairSpec
CONSTANTS
  MemLines = 5
  BLOCK_SIZE = 2
  Programs = {"final_test", "dma_test_final"}
  MaxPackets = 3
  MaxRestarts = 1
  Faults = TRUE
INVARIANTS
  WritesInBlock
  InMemory
  FreshInFinalTest
  EachPacketOnce
PROPERTY WaitEnds
CHECK_DEADLOCK FALSE
