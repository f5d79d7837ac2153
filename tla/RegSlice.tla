------------------------------ MODULE RegSlice ------------------------------
(***************************************************************************)
(* bypass_hw_regslice_both.v, the register slice between a core and its    *)
(* output stream, which fir_hw has too: two registers, of which the second *)
(* takes the beat that arrives while the first cannot leave, so that both  *)
(* handshakes are registered.  A slice is the record of its registers.     *)
(***************************************************************************)
EXTENDS Integers

(* As the FPGA is configured, in none of its three states.                 *)
PowerUp(data) ==
  [state |-> "none", ack_in |-> FALSE, data_p1 |-> data, data_p2 |-> data]

VldOut(s) == s.state \in {"one", "two"}

(* A beat is still on its way.                                             *)
ApdoneBlk(s, ack_out) == (s.state = "one" /\ ~ack_out) \/ s.state = "two"

NextState(s, vld_in, ack_out) ==
  CASE s.state = "zero" -> IF vld_in /\ s.ack_in THEN "one" ELSE "zero"
    [] s.state = "one" -> IF ~vld_in /\ ack_out THEN "zero"
                          ELSE IF vld_in /\ ~ack_out THEN "two" ELSE "one"
    [] s.state = "two" -> IF ack_out THEN "one" ELSE "two"
    [] OTHER -> "zero"

LoadP1_NotFromP2(s, vld_in, ack_out) ==  \* mutant: data_p2 is never taken
  \/ s.state = "zero" /\ vld_in
  \/ s.state = "one" /\ vld_in /\ ack_out

LoadP1(s, vld_in, ack_out) ==
  \/ s.state = "zero" /\ vld_in
  \/ s.state = "one" /\ vld_in /\ ack_out
  \/ s.state = "two" /\ ack_out

AckIn(s, next) ==
  \/ s.state = "zero"
  \/ s.state = "two" /\ next = "one"
  \/ s.ack_in /\ ~(s.state = "one" /\ next = "two")

(* A posedge of ap_clk.                                                    *)
Tick(s, vld_in, data_in, ack_out, rst) ==
  LET next == NextState(s, vld_in, ack_out) IN
  [state |-> IF rst THEN "zero" ELSE next,
   ack_in |-> ~rst /\ AckIn(s, next),
   data_p1 |-> IF ~LoadP1(s, vld_in, ack_out) THEN s.data_p1
               ELSE IF s.state = "two" THEN s.data_p2 ELSE data_in,
   data_p2 |-> IF vld_in /\ s.ack_in THEN data_in ELSE s.data_p2]
=============================================================================
