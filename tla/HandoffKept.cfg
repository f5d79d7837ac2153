SPECIFICATION Spec
CONSTANTS
  BuffSize = 6
  TransferSize = 2
  MaxBlocks = 6
  Faults <- NoFaults
  p1 = p1
  p2 = p2
  Peers <- TwoPeers
  NoPeer = NoPeer
  TxSlots = 2
SYMMETRY PeerSymmetry
INVARIANT HandoffKept
