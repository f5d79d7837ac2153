---------------------------- MODULE MCFirFilter ----------------------------
(***************************************************************************)
(* Instance of FirFilter for TLC: rings of three samples, a 3-bit cnt and  *)
(* a 2-bit dec_cnt, and configurations that shorten and lengthen every     *)
(* register of one another.                                                *)
(***************************************************************************)
EXTENDS FirFilter

Config(t, s, l) ==
  [tap_num_m1 |-> t, smpl_rd_num |-> s, tlast_dnum |-> l]

ResetConfig == Config(0, 0, 0)
AllConfigs == {Config(2, 3, 4), Config(1, 2, 3), Config(2, 1, 6)}
=============================================================================
