SPECIFICATION Spec
CONSTANTS
  MemLines = 3
  BLOCK_SIZE = 1
  Programs = {"final_test", "dma_test_final"}
  MaxPackets = 3
  MaxRestarts = 0
  Faults = FALSE
INVARIANT FreshAlways
CHECK_DEADLOCK FALSE
