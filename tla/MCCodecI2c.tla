----------------------------- MODULE MCCodecI2c -----------------------------
(***************************************************************************)
(* Instance of CodecI2c for TLC: six of the eleven entries of codec_init's *)
(* table, more than the controller's FIFO holds.                           *)
(***************************************************************************)
EXTENDS CodecI2c

ShortTable == <<
  <<3, 0>>, <<4, 65>>, <<5, 32>>, <<8, 52>>, <<12, 0>>, <<2, 8>> >>

DacControl == {3}
=============================================================================
