------------------------------- MODULE FirHw -------------------------------
(***************************************************************************)
(* The decimating FIR core of vitis/fir_hls (fir_hw.cpp) and the function  *)
(* that programs it, FIR_init of vitis/echo_server/src/init.cpp.           *)
(*                                                                         *)
(* fir_hw is called for one pair of samples after another (ap_ctrl_none);  *)
(* its scalar arguments are latched when a call takes its samples, while   *)
(* coeff_hw is a memory read during the loop.  A call is split where other *)
(* parties can act: taking the samples, each tap, each write to the output *)
(* stream.  Data are symbolic: a sample is its number, Silence the zero a  *)
(* buffer starts with, and an accumulator the sequence of the products it  *)
(* has summed, whose position is the tap.                                  *)
(***************************************************************************)
EXTENDS Integers, Sequences

CONSTANTS
  BufSize,   \* 512: words of each sample buffer and of coeff_hw
  CntMod,    \* 2^16: cnt and tlast_dnum are ap_uint<16>
  DecMod,    \* 2^3: dec_cnt and smpl_rd_num are ap_uint<3>
  Configs,   \* what FIR_init may write: [taps, smpl_rd_num, tlast_dnum]
  Reset      \* the registers and coefficients after configuring the FPGA

ASSUME FirAssumption ==
  /\ BufSize \in Nat \ {0}
  /\ CntMod \in Nat \ {0, 1}
  /\ DecMod \in Nat \ {0, 1}
  /\ Reset \notin Configs
  /\ \A c \in Configs \union {Reset} : c \in
       [tap_num_m1 : 0 .. BufSize - 1, smpl_rd_num : 0 .. DecMod - 1,
        tlast_dnum : 0 .. CntMod - 1]

VARIABLES
  \* the AXI-Lite registers and memory
  tlast_dnum, smpl_rd_num, tap_num_m1, coeff_hw,
  \* the static variables of fir_hw
  buffer_left, buffer_right, write_idx, cnt, dec_cnt,
  \* a call in progress
  stage,        \* what it does next
  args,         \* tlast_dnum and tap_num_m1 it was called with, and dec_cnt
                \* before the call
  acc_l, acc_r,
  \* FIR_init
  fi,           \* how many words it has written
  fi_config     \* the configuration it writes

regVars == <<tlast_dnum, smpl_rd_num, tap_num_m1, coeff_hw>>
callVars == <<buffer_left, buffer_right, write_idx, cnt, dec_cnt, stage,
              args, acc_l, acc_r>>
initVars == <<fi, fi_config>>
firVars == <<regVars, callVars, initVars>>

Silence == 0
Index == 0 .. BufSize - 1

(* FIR_init writes BufSize coefficients and three registers.               *)
Done == BufSize + 3

FirInit ==
  /\ tlast_dnum = Reset.tlast_dnum
  /\ smpl_rd_num = Reset.smpl_rd_num
  /\ tap_num_m1 = Reset.tap_num_m1
  /\ coeff_hw = [k \in Index |-> Reset]
  /\ buffer_left = [k \in Index |-> Silence]
  /\ buffer_right = [k \in Index |-> Silence]
  /\ write_idx = 0 /\ cnt = 0 /\ dec_cnt = 0
  /\ stage = "input"
  /\ args = [tlast_dnum |-> 0, tap_num_m1 |-> 0, dec_cnt |-> 0]
  /\ acc_l = <<>> /\ acc_r = <<>>
  /\ fi = Done /\ fi_config = Reset

(***************************************************************************)
(* One call of fir_hw.                                                     *)
(***************************************************************************)
(* ++ on an unsigned integer with mod values.                              *)
Increment(x, mod) == IF x + 1 = mod THEN 0 ELSE x + 1

TakeSamples_ResetLate(l, r) ==  \* mutant: dec_cnt is not reset on output
  LET d == Increment(dec_cnt, DecMod) IN
  /\ stage = "input"
  /\ buffer_left' = [buffer_left EXCEPT ![write_idx] = l]
  /\ buffer_right' = [buffer_right EXCEPT ![write_idx] = r]
  /\ args' = [tlast_dnum |-> tlast_dnum, tap_num_m1 |-> tap_num_m1,
              dec_cnt |-> dec_cnt]
  /\ dec_cnt' = d
  /\ stage' = IF d >= smpl_rd_num THEN "loop" ELSE "next"
  /\ acc_l' = <<>> /\ acc_r' = <<>>
  /\ UNCHANGED <<write_idx, cnt, regVars, initVars>>

(* Both inputs are valid: store them, and decide whether this call filters *)
(* or only counts.                                                         *)
TakeSamples(l, r) ==
  LET d == Increment(dec_cnt, DecMod) IN
  /\ stage = "input"
  /\ buffer_left' = [buffer_left EXCEPT ![write_idx] = l]
  /\ buffer_right' = [buffer_right EXCEPT ![write_idx] = r]
  /\ args' = [tlast_dnum |-> tlast_dnum, tap_num_m1 |-> tap_num_m1,
              dec_cnt |-> dec_cnt]
  /\ IF d >= smpl_rd_num
     THEN dec_cnt' = 0 /\ stage' = "loop"
     ELSE dec_cnt' = d /\ stage' = "next"
  /\ acc_l' = <<>> /\ acc_r' = <<>>
  /\ UNCHANGED <<write_idx, cnt, regVars, initVars>>

(* ap_uint<9> read_idx = write_idx - i, modulo the size of the buffer.     *)
ReadIdx(i) ==
  IF i <= write_idx THEN write_idx - i ELSE write_idx - i + BufSize

Product(buffer, i) ==
  [coeff |-> coeff_hw[i], smpl |-> buffer[ReadIdx(i)]]

AddTap ==
  LET i == Len(acc_l) IN
  /\ stage = "loop"
  /\ acc_l' = Append(acc_l, Product(buffer_left, i))
  /\ acc_r' = Append(acc_r, Product(buffer_right, i))
  /\ stage' = IF i = args.tap_num_m1 THEN "left" ELSE "loop"
  /\ UNCHANGED <<buffer_left, buffer_right, write_idx, cnt, dec_cnt, args,
                 regVars, initVars>>

(* cnt++; last = (cnt == tlast_dnum); cnt back to 0 after the last beat.   *)
IsLast == Increment(cnt, CntMod) = args.tlast_dnum

AfterBeat(c) ==
  LET i == Increment(c, CntMod) IN IF i = args.tlast_dnum THEN 0 ELSE i

CountBeat_NoReset ==  \* mutant: cnt is not reset after the last beat
  cnt' = Increment(cnt, CntMod)

CountBeat == cnt' = AfterBeat(cnt)

(* res.write: the left result, then the right one.                         *)
WriteLeft ==
  /\ stage = "left" /\ stage' = "right"
  /\ CountBeat
  /\ UNCHANGED <<buffer_left, buffer_right, write_idx, dec_cnt, args, acc_l,
                 acc_r, regVars, initVars>>

WriteRight ==
  /\ stage = "right" /\ stage' = "next"
  /\ CountBeat
  /\ UNCHANGED <<buffer_left, buffer_right, write_idx, dec_cnt, args, acc_l,
                 acc_r, regVars, initVars>>

EndCall_OnOutputOnly ==  \* mutant: write_idx moves only when a result is sent
  /\ stage = "next" /\ stage' = "input"
  /\ write_idx' = IF dec_cnt = 0 THEN Increment(write_idx, BufSize)
                                 ELSE write_idx
  /\ UNCHANGED <<buffer_left, buffer_right, cnt, dec_cnt, args, acc_l, acc_r,
                 regVars, initVars>>

(* ++write_idx                                                             *)
EndCall ==
  /\ stage = "next" /\ stage' = "input"
  /\ write_idx' = Increment(write_idx, BufSize)
  /\ UNCHANGED <<buffer_left, buffer_right, cnt, dec_cnt, args, acc_l, acc_r,
                 regVars, initVars>>

CntKept_AsWritten == cnt  \* mutant: each beat is counted when it is written

(* The RTL counts both beats of a call in its first cycle.                 *)
CntKept == CASE stage \in {"loop", "left"} -> AfterBeat(AfterBeat(cnt))
             [] stage = "right" -> AfterBeat(cnt)
             [] OTHER -> cnt

(* ap_rst_n: the registers and the state machine are reset, the static     *)
(* variables and coeff_hw are not.  A call that is in progress is lost     *)
(* with its sample, but its beats stay counted.                            *)
ResetCore ==
  /\ tlast_dnum' = Reset.tlast_dnum
  /\ smpl_rd_num' = Reset.smpl_rd_num
  /\ tap_num_m1' = Reset.tap_num_m1
  /\ cnt' = CntKept
  /\ dec_cnt' = IF stage = "input" THEN dec_cnt ELSE args.dec_cnt
  /\ stage' = "input"
  /\ fi' = Done
  /\ UNCHANGED <<coeff_hw, buffer_left, buffer_right, write_idx, args, acc_l,
                 acc_r, fi_config>>

(***************************************************************************)
(* FIR_init: the coefficients in ascending order, then the registers.      *)
(***************************************************************************)
BeginFirInit(config) ==
  /\ fi = Done
  /\ fi' = 0 /\ fi_config' = config
  /\ UNCHANGED <<regVars, callVars>>

WriteCoeff ==
  /\ fi \in Index
  /\ fi' = fi + 1
  /\ coeff_hw' = [coeff_hw EXCEPT ![fi] = fi_config]
  /\ UNCHANGED <<tlast_dnum, smpl_rd_num, tap_num_m1, callVars, fi_config>>

SetTapNumM1 ==
  /\ fi = BufSize
  /\ fi' = fi + 1
  /\ tap_num_m1' = fi_config.tap_num_m1
  /\ UNCHANGED <<tlast_dnum, smpl_rd_num, coeff_hw, callVars, fi_config>>

SetSmplRdNum ==
  /\ fi = BufSize + 1
  /\ fi' = fi + 1
  /\ smpl_rd_num' = fi_config.smpl_rd_num
  /\ UNCHANGED <<tlast_dnum, tap_num_m1, coeff_hw, callVars, fi_config>>

SetTlastDnum ==
  /\ fi = BufSize + 2
  /\ fi' = fi + 1
  /\ tlast_dnum' = fi_config.tlast_dnum
  /\ UNCHANGED <<smpl_rd_num, tap_num_m1, coeff_hw, callVars, fi_config>>

FirInitStep == WriteCoeff \/ SetTapNumM1 \/ SetSmplRdNum \/ SetTlastDnum
=============================================================================
