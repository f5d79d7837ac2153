----------------------------- MODULE BypassRtl -----------------------------
(***************************************************************************)
(* bypass_hw.v, what the compiler made of bypass_hw.cpp: a machine of      *)
(* three states in front of a register slice, one step for each posedge of *)
(* ap_clk.  The inputs are valid, the receiver ready and the AXI-Lite      *)
(* register written in whatever cycle they like.  The slices of TDATA and  *)
(* TLAST (and TKEEP, TSTRB) have the same handshake and are one here.      *)
(***************************************************************************)
EXTENDS RegSlice, Sequences

CONSTANTS
  CntMod, Numbers,  \* as in BypassHw
  MaxPairs,         \* bound: pairs of samples in a behaviour
  MaxResets         \* bound: cycles with ap_rst_n low

ASSUME RtlAssumption ==
  /\ CntMod \in Nat \ {0, 1}
  /\ Numbers \subseteq 0 .. CntMod - 1
  /\ MaxPairs \in Nat /\ MaxResets \in Nat

VARIABLES
  tlast_dnum,        \* int_tlast_dnum of bypass_hw_control_s_axi
  cnt,
  fsm,               \* ap_CS_fsm: 1, 2 or 3
  right,             \* input_r_read_reg_186 and out_data_last_1_reg_191
  slice,             \* regslice_both_res_V_data_V_U and the others
  pairs,             \* history: pairs acknowledged
  received, newest,  \* history: beats the stream delivered, and the last one
  resets             \* cycles with ap_rst_n low so far

vars ==
  <<tlast_dnum, cnt, fsm, right, slice, pairs, received, newest, resets>>

Beat(channel, pair, last) ==
  [channel |-> channel, pair |-> pair, last |-> last]

NoBeat == Beat("none", 0, FALSE)

Init ==
  /\ tlast_dnum = 0 /\ cnt = 0
  /\ fsm = 1 /\ right = NoBeat /\ slice = PowerUp(NoBeat)
  /\ pairs = 0 /\ received = 0 /\ newest = NoBeat
  /\ resets = 0

(***************************************************************************)
(* The assignments: out_data_last, select_ln33, out_data_last_1 and        *)
(* select_ln39 compute both beats' TLAST and cnt after them at once.       *)
(***************************************************************************)
Plus(c, k) == (c + k) % CntMod

LastLeft == Plus(cnt, 1) = tlast_dnum

AfterLeft == IF LastLeft THEN 1 ELSE Plus(cnt, 2)
LastRight == AfterLeft = tlast_dnum
AfterRight == IF LastRight THEN 0 ELSE AfterLeft

(* State 1 waits for both inputs and for the slice.                        *)
Takes(vld) == fsm = 1 /\ slice.ack_in /\ vld

(* State 3 waits until the slice has delivered both beats.                 *)
Block3(ack) == ~slice.ack_in \/ ApdoneBlk(slice, ack)

(* res_TVALID_int_regslice, with the beat.                                 *)
Vld(vld) == Takes(vld) \/ (fsm = 2 /\ slice.ack_in)
Data == IF fsm = 2 THEN right ELSE Beat("left", pairs + 1, LastLeft)

NextFsm_NextPair(vld, ack) ==  \* mutant: state 3 waits for the next pair too
  CASE fsm = 1 -> IF Takes(vld) THEN 2 ELSE 1
    [] fsm = 2 -> IF slice.ack_in THEN 3 ELSE 2
    [] OTHER -> IF Block3(ack) \/ ~vld THEN 3 ELSE 1

NextFsm(vld, ack) ==
  CASE fsm = 1 -> IF Takes(vld) THEN 2 ELSE 1
    [] fsm = 2 -> IF slice.ack_in THEN 3 ELSE 2
    [] OTHER -> IF Block3(ack) THEN 3 ELSE 1

(* A posedge: vld when both inputs are valid, ack for TREADY, number for   *)
(* what the register is to hold, rst for ~ap_rst_n.  cnt has no reset.     *)
Clk(vld, ack, number, rst) ==
  /\ vld => pairs < MaxPairs
  /\ tlast_dnum' = IF rst THEN 0 ELSE number
  /\ cnt' = IF Takes(vld) THEN AfterRight ELSE cnt
  /\ pairs' = IF Takes(vld) THEN pairs + 1 ELSE pairs
  /\ fsm' = IF rst THEN 1 ELSE NextFsm(vld, ack)
  /\ right' = IF fsm = 1 THEN Beat("right", pairs + 1, LastRight) ELSE right
  /\ slice' = Tick(slice, Vld(vld), Data, ack, rst)
  /\ IF VldOut(slice) /\ ack /\ ~rst
     THEN received' = received + 1 /\ newest' = slice.data_p1
     ELSE UNCHANGED <<received, newest>>

Run ==
  /\ \E vld \in BOOLEAN, ack \in BOOLEAN,
        number \in Numbers \union {tlast_dnum} : Clk(vld, ack, number, FALSE)
  /\ UNCHANGED resets

RunReady ==
  /\ \E vld \in BOOLEAN, number \in Numbers \union {tlast_dnum} :
       Clk(vld, TRUE, number, FALSE)
  /\ UNCHANGED resets

Reset ==
  /\ resets < MaxResets /\ resets' = resets + 1
  /\ \E vld \in BOOLEAN, ack \in BOOLEAN : Clk(vld, ack, 0, TRUE)

Next == Run \/ Reset

Spec == Init /\ [][Next]_vars

(* The clock runs, and the receiver is ready again and again.              *)
FairSpec == Spec /\ WF_vars(Run) /\ WF_vars(RunReady)
-----------------------------------------------------------------------------
(* The beats on their way: in the slice, and in the right register.        *)
InSlice == CASE slice.state = "one" -> <<slice.data_p1>>
             [] slice.state = "two" -> <<slice.data_p1, slice.data_p2>>
             [] OTHER -> <<>>

InFlight == IF fsm = 2 THEN Append(InSlice, right) ELSE InSlice

Hw == INSTANCE BypassHw WITH res <- InFlight

(* The hardware is the C++ function: whatever the handshakes do, each call *)
(* delivers its two beats once, in order, with TLAST where the sequential  *)
(* code puts it, for whatever the register held as the call began.         *)
ImplementsBypass == Hw!Spec

(* A call ends: the slice gives its beats to a receiver that is ready      *)
(* again and again, and the core returns to its inputs.                    *)
CallEnds == fsm # 1 ~> fsm = 1 /\ InFlight = <<>>
=============================================================================
