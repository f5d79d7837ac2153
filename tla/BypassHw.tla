------------------------------ MODULE BypassHw ------------------------------
(***************************************************************************)
(* bypass_hw.cpp, the core that passes samples on unfiltered, as its C++   *)
(* reads: a call takes a pair of samples and writes two beats to res, with *)
(* TLAST on every tlast_dnum-th.  A pair is its number.                    *)
(***************************************************************************)
EXTENDS Integers, Sequences

CONSTANTS
  CntMod,   \* 2^16: cnt and tlast_dnum are ap_uint<16>
  Numbers   \* what the program may write to tlast_dnum

VARIABLES
  tlast_dnum,  \* the argument, an AXI-Lite register
  cnt,         \* the static variable
  pairs,       \* pairs taken from the inputs
  res,         \* beats written and not yet received
  received,    \* beats received
  newest       \* and the last of them

vars == <<tlast_dnum, cnt, pairs, res, received, newest>>

Beat(channel, pair, last) ==
  [channel |-> channel, pair |-> pair, last |-> last]

NoBeat == Beat("none", 0, FALSE)

Init ==
  /\ tlast_dnum = 0 /\ cnt = 0 /\ pairs = 0
  /\ res = <<>> /\ received = 0 /\ newest = NoBeat

(* cnt++, and whether the beat is the last; cnt is set to 0 after that.    *)
Increment(c) == IF c + 1 = CntMod THEN 0 ELSE c + 1
IsLast(c) == Increment(c) = tlast_dnum
AfterBeat(c) == IF IsLast(c) THEN 0 ELSE Increment(c)

Left == Beat("left", pairs + 1, IsLast(cnt))
Right == Beat("right", pairs + 1, IsLast(AfterBeat(cnt)))

(* The left beat, then the right one; a call follows the delivery of what  *)
(* the one before it wrote.                                                *)
Call ==
  /\ res = <<>>
  /\ res' = <<Left, Right>>
  /\ cnt' = AfterBeat(AfterBeat(cnt))
  /\ pairs' = pairs + 1
  /\ UNCHANGED <<received, newest>>

Receive ==
  /\ res # <<>>
  /\ newest' = Head(res) /\ res' = Tail(res)
  /\ received' = received + 1
  /\ UNCHANGED <<cnt, pairs>>

Idle == UNCHANGED <<cnt, pairs, res, received, newest>>

(* The register may be written in the same cycle as anything else, which   *)
(* sees its old value.                                                     *)
Step == (Call \/ Receive \/ Idle) /\ tlast_dnum' \in Numbers \union {tlast_dnum}

(* A reset drops the beats on their way and clears the register, but not   *)
(* the static variable, which may even count a pair that is lost.          *)
Reset ==
  /\ tlast_dnum' = 0 /\ res' = <<>>
  /\ \/ UNCHANGED <<cnt, pairs>>
     \/ res = <<>> /\ cnt' = AfterBeat(AfterBeat(cnt)) /\ pairs' = pairs + 1
  /\ UNCHANGED <<received, newest>>

Next == Step \/ Reset

Spec == Init /\ [][Next]_vars
=============================================================================
