--------------------------- MODULE MCCapturePath ---------------------------
(***************************************************************************)
(* Instance of CapturePath for TLC: blocks of four beats, input FIFOs of   *)
(* two samples, an output FIFO of three beats, a one-tap filter without    *)
(* decimation, and the programs of vitis/ that run the whole path.         *)
(***************************************************************************)
EXTENDS CapturePath

Config(s, l) == [tap_num_m1 |-> 0, smpl_rd_num |-> s, tlast_dnum |-> l]

ResetConfig == Config(0, 0)
BuildConfigs == {Config(1, BlockSize)}

EchoServer == <<"codec", "fir", "dma_it">>
FinalTest == <<"fir", "codec", "dma">>
DmaTestFinal == <<"codec", "tlast", "dma">>
AllPrograms == {EchoServer, FinalTest, DmaTestFinal}
=============================================================================
