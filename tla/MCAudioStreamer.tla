-------------------------- MODULE MCAudioStreamer --------------------------
(***************************************************************************)
(* Instance of AudioStreamer for TLC: a ring of a few segments of two      *)
(* bytes, and mutated definitions that the properties must tell apart from *)
(* the code's.                                                             *)
(***************************************************************************)
EXTENDS AudioStreamer, TLC

CONSTANTS p1, p2

TwoPeers == {p1, p2}
PeerSymmetry == Permutations(TwoPeers)
AllFaults == FaultKinds
NoFaults == {}
=============================================================================
