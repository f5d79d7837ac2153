-------------------------- MODULE BypassRtlProofs --------------------------
(***************************************************************************)
(* The hardware implements the C++ function, for every width of the        *)
(* counter, every value of the register and every number of pairs.         *)
(***************************************************************************)
EXTENDS BypassRtl, TLAPS, SequenceTheorems

SliceType ==
  /\ slice.state \in {"none", "zero", "one", "two"}
  /\ slice.ack_in \in BOOLEAN

TypeInv ==
  /\ tlast_dnum \in 0 .. CntMod - 1 /\ cnt \in 0 .. CntMod - 1
  /\ fsm \in 1 .. 3
  /\ pairs \in Nat /\ received \in Nat
  /\ SliceType

(* The slice is empty when a call begins, holds the left beat when the     *)
(* right one comes, and is ready for it; so no beat is ever refused.       *)
Handshake ==
  /\ fsm = 1 => \/ slice.state = "none" /\ ~slice.ack_in
                \/ slice.state = "zero"
  /\ fsm = 2 => slice.state = "one" /\ slice.ack_in
  /\ fsm = 3 => \/ slice.state = "one" /\ slice.ack_in
                \/ slice.state = "two" /\ ~slice.ack_in

RInv == TypeInv /\ Handshake

-----------------------------------------------------------------------------
(* The adders of the RTL, modulo 2^16.                                     *)
LEMMA PlusValue ==
  ASSUME NEW m \in Nat \ {0, 1}, NEW c \in 0 .. m - 1, NEW k \in 1 .. 2
  PROVE  (c + k) % m = IF c + k < m THEN c + k ELSE c + k - m
<1> DEFINE a == c + k
           q == a \div m
           v == a % m
<1>1. a \in Nat /\ a < 2 * m /\ q \in Int /\ v \in 0 .. m - 1
  OBVIOUS
<1>2. a = m * q + v
  OBVIOUS
<1> HIDE DEF a, q, v
<1>3. q >= 2 => m * q >= m * 2
  BY <1>1
<1>4. q <= -1 => m * q <= 0 - m
  BY <1>1
<1>5. q \in 0 .. 1
  BY <1>1, <1>2, <1>3, <1>4
<1>6. CASE q = 0
  BY <1>1, <1>2, <1>6 DEF a, v
<1>7. CASE q = 1
  BY <1>1, <1>2, <1>7 DEF a, v
<1> QED BY <1>5, <1>6, <1>7

(* Counting both beats at once is counting them one after the other.       *)
LEMMA BothBeats ==
  ASSUME RInv
  PROVE  /\ LastLeft = Hw!IsLast(cnt)
         /\ AfterLeft = Hw!Increment(Hw!AfterBeat(cnt))
         /\ LastRight = Hw!IsLast(Hw!AfterBeat(cnt))
         /\ AfterRight = Hw!AfterBeat(Hw!AfterBeat(cnt))
         /\ AfterRight \in 0 .. CntMod - 1
<1> USE RtlAssumption
<1>t. cnt \in 0 .. CntMod - 1 /\ tlast_dnum \in 0 .. CntMod - 1
      /\ CntMod \in Nat \ {0, 1}
  BY DEF RInv, TypeInv
<1>1. /\ Plus(cnt, 1) = IF cnt + 1 < CntMod THEN cnt + 1 ELSE cnt + 1 - CntMod
      /\ Plus(cnt, 2) = IF cnt + 2 < CntMod THEN cnt + 2 ELSE cnt + 2 - CntMod
  <2>1. 1 \in 1 .. 2 /\ 2 \in 1 .. 2
    OBVIOUS
  <2>2. (cnt + 1) % CntMod
        = IF cnt + 1 < CntMod THEN cnt + 1 ELSE cnt + 1 - CntMod
    BY <1>t, <2>1, PlusValue
  <2>3. (cnt + 2) % CntMod
        = IF cnt + 2 < CntMod THEN cnt + 2 ELSE cnt + 2 - CntMod
    BY <1>t, <2>1, PlusValue
  <2> QED BY <2>2, <2>3 DEF Plus
<1>2. Plus(cnt, 1) = Hw!Increment(cnt)
  BY <1>1, <1>t DEF Hw!Increment
<1>3. LastLeft = Hw!IsLast(cnt)
  BY <1>2 DEF LastLeft, Hw!IsLast
<1>4. ~LastLeft => Plus(cnt, 2) = Hw!Increment(Hw!Increment(cnt))
  BY <1>1, <1>t DEF Hw!Increment
<1>5. AfterLeft = Hw!Increment(Hw!AfterBeat(cnt))
  <2>1. CASE LastLeft
    BY <2>1, <1>3, <1>t DEF AfterLeft, Hw!AfterBeat, Hw!Increment
  <2>2. CASE ~LastLeft
    BY <2>2, <1>3, <1>4 DEF AfterLeft, Hw!AfterBeat
  <2> QED BY <2>1, <2>2
<1>6. LastRight = Hw!IsLast(Hw!AfterBeat(cnt))
  BY <1>5 DEF LastRight, Hw!IsLast
<1>7. AfterRight = Hw!AfterBeat(Hw!AfterBeat(cnt))
  BY <1>5, <1>6 DEF AfterRight, Hw!AfterBeat
<1>8. AfterRight \in 0 .. CntMod - 1
  BY <1>1, <1>t DEF AfterRight, AfterLeft
<1> QED BY <1>3, <1>5, <1>6, <1>7, <1>8

(* What a clock does to the slice, by its state.                           *)
LEMMA SliceStep ==
  ASSUME RInv, NEW vld \in BOOLEAN, NEW ack \in BOOLEAN, NEW number,
         Clk(vld, ack, number, FALSE)
  PROVE  /\ fsm = 1 /\ Takes(vld) =>
              /\ fsm' = 2 /\ slice'.state = "one" /\ slice'.ack_in
              /\ slice.state = "zero"
              /\ slice'.data_p1 = Data
         /\ fsm = 1 /\ ~Takes(vld) =>
              fsm' = 1 /\ slice'.state = "zero"
         /\ fsm = 2 /\ ack =>
              /\ fsm' = 3 /\ slice'.state = "one" /\ slice'.ack_in
              /\ slice'.data_p1 = right
         /\ fsm = 2 /\ ~ack =>
              /\ fsm' = 3 /\ slice'.state = "two" /\ ~slice'.ack_in
              /\ slice'.data_p1 = slice.data_p1 /\ slice'.data_p2 = right
         /\ fsm = 3 /\ slice.state = "one" /\ ack =>
              fsm' = 1 /\ slice'.state = "zero"
         /\ fsm = 3 /\ slice.state = "two" /\ ack =>
              /\ fsm' = 3 /\ slice'.state = "one" /\ slice'.ack_in
              /\ slice'.data_p1 = slice.data_p2
         /\ fsm = 3 /\ ~ack =>
              /\ fsm' = 3 /\ slice'.state = slice.state
              /\ slice'.ack_in = slice.ack_in
              /\ slice'.data_p1 = slice.data_p1
              /\ slice'.data_p2 = slice.data_p2
<1>0. /\ fsm' = NextFsm(vld, ack)
      /\ slice' = Tick(slice, Vld(vld), Data, ack, FALSE)
  BY DEF Clk
<1>1. ASSUME fsm = 1, Takes(vld)
      PROVE  /\ fsm' = 2 /\ slice'.state = "one" /\ slice'.ack_in
             /\ slice.state = "zero"
             /\ slice'.data_p1 = Data
  BY <1>0, <1>1 DEF RInv, Handshake, NextFsm, Takes, Vld, Tick, NextState,
     AckIn, LoadP1
<1>2. ASSUME fsm = 1, ~Takes(vld)
      PROVE  fsm' = 1 /\ slice'.state = "zero"
  BY <1>0, <1>2 DEF RInv, Handshake, NextFsm, Takes, Vld, Tick, NextState
<1>3. ASSUME fsm = 2, ack
      PROVE  /\ fsm' = 3 /\ slice'.state = "one" /\ slice'.ack_in
             /\ slice'.data_p1 = right
  BY <1>0, <1>3 DEF RInv, Handshake, NextFsm, Vld, Takes, Data, Tick,
     NextState, AckIn, LoadP1
<1>4. ASSUME fsm = 2, ~ack
      PROVE  /\ fsm' = 3 /\ slice'.state = "two" /\ ~slice'.ack_in
             /\ slice'.data_p1 = slice.data_p1 /\ slice'.data_p2 = right
  BY <1>0, <1>4 DEF RInv, Handshake, NextFsm, Vld, Takes, Data, Tick,
     NextState, AckIn, LoadP1
<1>5. ASSUME fsm = 3, slice.state = "one", ack
      PROVE  fsm' = 1 /\ slice'.state = "zero"
  BY <1>0, <1>5 DEF RInv, Handshake, NextFsm, Block3, ApdoneBlk, Vld, Takes,
     Tick, NextState
<1>6. ASSUME fsm = 3, slice.state = "two", ack
      PROVE  /\ fsm' = 3 /\ slice'.state = "one" /\ slice'.ack_in
             /\ slice'.data_p1 = slice.data_p2
  BY <1>0, <1>6 DEF RInv, Handshake, NextFsm, Block3, ApdoneBlk, Vld, Takes,
     Tick, NextState, AckIn, LoadP1
<1>7. ASSUME fsm = 3, ~ack
      PROVE  /\ fsm' = 3 /\ slice'.state = slice.state
             /\ slice'.ack_in = slice.ack_in
             /\ slice'.data_p1 = slice.data_p1
             /\ slice'.data_p2 = slice.data_p2
  BY <1>0, <1>7 DEF RInv, TypeInv, SliceType, Handshake, NextFsm, Block3,
     ApdoneBlk, Vld, Takes, Tick, NextState, AckIn, LoadP1
<1> QED BY <1>1, <1>2, <1>3, <1>4, <1>5, <1>6, <1>7

-----------------------------------------------------------------------------
LEMMA InitInv == Init => RInv
  BY RtlAssumption DEF Init, RInv, TypeInv, SliceType, Handshake, PowerUp

(* Takes needs a slice that is ready, which is an empty one.               *)
LEMMA ResetStep ==
  ASSUME RInv, NEW vld \in BOOLEAN, NEW ack \in BOOLEAN,
         Clk(vld, ack, 0, TRUE)
  PROVE  /\ fsm' = 1 /\ slice'.state = "zero" /\ ~slice'.ack_in
         /\ tlast_dnum' = 0
         /\ UNCHANGED <<received, newest>>
         /\ Takes(vld) => slice.state = "zero"
<1>1. fsm' = 1 /\ tlast_dnum' = 0 /\ UNCHANGED <<received, newest>>
      /\ slice' = Tick(slice, Vld(vld), Data, ack, TRUE)
  BY DEF Clk
<1>2. slice'.state = "zero" /\ ~slice'.ack_in
  BY <1>1 DEF Tick
<1>3. Takes(vld) => slice.state = "zero"
  BY DEF Takes, RInv, Handshake
<1> QED BY <1>1, <1>2, <1>3

(* Either kind of clock keeps the types of the counters.                   *)
LEMMA CountersTyped ==
  ASSUME RInv, NEW vld \in BOOLEAN, NEW ack \in BOOLEAN, NEW rst \in BOOLEAN,
         NEW number \in Numbers \union {tlast_dnum, 0},
         Clk(vld, ack, number, rst)
  PROVE  /\ tlast_dnum' \in 0 .. CntMod - 1 /\ cnt' \in 0 .. CntMod - 1
         /\ pairs' \in Nat /\ received' \in Nat
<1> USE RtlAssumption
<1>1. tlast_dnum' \in 0 .. CntMod - 1
  BY DEF Clk, RInv, TypeInv
<1>2. cnt' \in 0 .. CntMod - 1
  BY BothBeats DEF Clk, RInv, TypeInv
<1>3. pairs' \in Nat /\ received' \in Nat
  BY DEF Clk, RInv, TypeInv
<1> QED BY <1>1, <1>2, <1>3

(* What Tick returns is a record of registers, whose ack_in is Boolean.    *)
LEMMA AckInTyped ==
  ASSUME NEW vld, NEW ack, NEW number, NEW rst \in BOOLEAN, RInv,
         Clk(vld, ack, number, rst)
  PROVE  slice'.ack_in \in BOOLEAN
<1>1. slice' = Tick(slice, Vld(vld), Data, ack, rst)
  BY DEF Clk
<1> QED BY <1>1 DEF Tick

(* The invariant after a step, from its parts.                             *)
LEMMA Retyped ==
  ASSUME tlast_dnum' \in 0 .. CntMod - 1, cnt' \in 0 .. CntMod - 1,
         pairs' \in Nat, received' \in Nat, slice'.ack_in \in BOOLEAN,
         fsm' \in 1 .. 3, slice'.state \in {"none", "zero", "one", "two"},
         Handshake'
  PROVE  RInv'
  BY DEF RInv, TypeInv, SliceType

LEMMA RunInv == RInv /\ Run => RInv'
<1> SUFFICES ASSUME RInv, NEW vld \in BOOLEAN, NEW ack \in BOOLEAN,
                    NEW number \in Numbers \union {tlast_dnum},
                    Clk(vld, ack, number, FALSE)
             PROVE  RInv'
  BY DEF Run
<1>1. fsm \in 1 .. 3 /\ slice.state \in {"none", "zero", "one", "two"}
  BY DEF RInv, TypeInv, SliceType
<1>2. /\ tlast_dnum' \in 0 .. CntMod - 1 /\ cnt' \in 0 .. CntMod - 1
      /\ pairs' \in Nat /\ received' \in Nat
  BY CountersTyped
<1>3. slice'.ack_in \in BOOLEAN
  BY AckInTyped
<1>4. CASE fsm = 1 /\ Takes(vld)
  <2>1. fsm' = 2 /\ slice'.state = "one" /\ slice'.ack_in
    BY <1>4, SliceStep
  <2> QED BY <2>1, <1>2, <1>3, Retyped DEF Handshake
<1>5. CASE fsm = 1 /\ ~Takes(vld)
  <2>1. fsm' = 1 /\ slice'.state = "zero"
    BY <1>5, SliceStep
  <2> QED BY <2>1, <1>2, <1>3, Retyped DEF Handshake
<1>6. CASE fsm = 2 \/ (fsm = 3 /\ slice.state = "two" /\ ack)
  <2>1. /\ fsm' = 3
        /\ \/ slice'.state = "one" /\ slice'.ack_in
           \/ slice'.state = "two" /\ ~slice'.ack_in
    BY <1>6, SliceStep
  <2> QED BY <2>1, <1>2, <1>3, Retyped DEF Handshake
<1>7. CASE fsm = 3 /\ slice.state = "one" /\ ack
  <2>1. fsm' = 1 /\ slice'.state = "zero"
    BY <1>7, SliceStep
  <2> QED BY <2>1, <1>2, <1>3, Retyped DEF Handshake
<1>8. CASE fsm = 3 /\ ~ack
  <2>1. /\ fsm' = 3 /\ slice'.state = slice.state
        /\ slice'.ack_in = slice.ack_in
    BY <1>8, SliceStep
  <2>2. \/ slice.state = "one" /\ slice.ack_in
        \/ slice.state = "two" /\ ~slice.ack_in
    BY <1>8 DEF RInv, Handshake
  <2>3. \/ slice'.state = "one" /\ slice'.ack_in
        \/ slice'.state = "two" /\ ~slice'.ack_in
    BY <2>1, <2>2
  <2> QED BY <2>1, <2>3, <1>2, <1>3, Retyped DEF Handshake
<1>9. fsm = 3 => slice.state \in {"one", "two"}
  BY DEF RInv, Handshake
<1> QED BY <1>1, <1>4, <1>5, <1>6, <1>7, <1>8, <1>9

LEMMA ResetInv == RInv /\ Reset => RInv'
<1> SUFFICES ASSUME RInv, NEW vld \in BOOLEAN, NEW ack \in BOOLEAN,
                    Clk(vld, ack, 0, TRUE)
             PROVE  RInv'
  BY DEF Reset
<1>1. /\ tlast_dnum' \in 0 .. CntMod - 1 /\ cnt' \in 0 .. CntMod - 1
      /\ pairs' \in Nat /\ received' \in Nat
  BY CountersTyped
<1>2. slice'.ack_in \in BOOLEAN
  BY AckInTyped
<1>3. fsm' = 1 /\ slice'.state = "zero"
  BY ResetStep
<1> QED BY <1>1, <1>2, <1>3, Retyped DEF Handshake

LEMMA StutterInv == RInv /\ UNCHANGED vars => RInv'
  BY DEF RInv, TypeInv, SliceType, Handshake, vars

(* The right beat always finds the slice ready, so state 2 takes a cycle:  *)
(* the slice's two registers are enough for the two beats of a call, on    *)
(* every interleaving of the receiver, the register's writes and resets.   *)
THEOREM SliceHasRoom == Spec => []RInv
<1>1. RInv /\ [Next]_vars => RInv'
  BY RunInv, ResetInv, StutterInv DEF Next
<1> QED BY InitInv, <1>1, PTL DEF Spec

-----------------------------------------------------------------------------
LEMMA AppendOne ==
  ASSUME NEW a, NEW b
  PROVE  Append(<<a>>, b) = <<a, b>>
<1>1. ASSUME NEW S, NEW s \in Seq(S), NEW e \in S, Len(s) = 1
      PROVE  Append(s, e) = <<s[1], e>>
  <2> DEFINE t == Append(s, e)
  <2>1. t \in Seq(S)
    BY AppendProperties
  <2>2. Len(t) = Len(s) + 1
    BY AppendProperties
  <2>3. t[1] = s[1]
    BY <1>1, AppendProperties
  <2>4. t[2] = e
    BY <1>1, AppendProperties
  <2> HIDE DEF t
  <2>5. t = <<t[1], t[2]>>
    BY <1>1, <2>1, <2>2
  <2> QED BY <2>3, <2>4, <2>5 DEF t
<1>2. <<a>> \in Seq({a, b}) /\ Len(<<a>>) = 1 /\ <<a>>[1] = a
  OBVIOUS
<1> QED BY <1>1, <1>2

(* The beats on their way, by the machine's state.                         *)
LEMMA BeatsInFlight ==
  ASSUME RInv
  PROVE  /\ fsm = 1 => InFlight = <<>>
         /\ fsm = 2 => InFlight = <<slice.data_p1, right>>
         /\ fsm = 3 /\ slice.state = "one" => InFlight = <<slice.data_p1>>
         /\ fsm = 3 /\ slice.state = "two" =>
              InFlight = <<slice.data_p1, slice.data_p2>>
<1>1. fsm = 1 => InFlight = <<>>
  BY DEF RInv, Handshake, InFlight, InSlice
<1>2. ASSUME fsm = 2
      PROVE  InFlight = <<slice.data_p1, right>>
  <2>1. InSlice = <<slice.data_p1>>
    BY <1>2 DEF RInv, Handshake, InSlice
  <2> QED BY <1>2, <2>1, AppendOne DEF InFlight
<1>3. fsm = 3 /\ slice.state = "one" => InFlight = <<slice.data_p1>>
  BY DEF InFlight, InSlice
<1>4. fsm = 3 /\ slice.state = "two" =>
        InFlight = <<slice.data_p1, slice.data_p2>>
  BY DEF InFlight, InSlice
<1> QED BY <1>1, <1>2, <1>3, <1>4

LEMMA BeatsInFlightNext ==
  ASSUME RInv'
  PROVE  /\ fsm' = 1 => InFlight' = <<>>
         /\ fsm' = 2 => InFlight' = <<slice'.data_p1, right'>>
         /\ fsm' = 3 /\ slice'.state = "one" =>
              InFlight' = <<slice'.data_p1>>
         /\ fsm' = 3 /\ slice'.state = "two" =>
              InFlight' = <<slice'.data_p1, slice'.data_p2>>
<1>1. fsm' = 1 => InFlight' = <<>>
  BY DEF RInv, Handshake, InFlight, InSlice
<1>2. ASSUME fsm' = 2
      PROVE  InFlight' = <<slice'.data_p1, right'>>
  <2>1. InSlice' = <<slice'.data_p1>>
    BY <1>2 DEF RInv, Handshake, InSlice
  <2> QED BY <1>2, <2>1, AppendOne DEF InFlight
<1>3. fsm' = 3 /\ slice'.state = "one" => InFlight' = <<slice'.data_p1>>
  BY DEF InFlight, InSlice
<1>4. fsm' = 3 /\ slice'.state = "two" =>
        InFlight' = <<slice'.data_p1, slice'.data_p2>>
  BY DEF InFlight, InSlice
<1> QED BY <1>1, <1>2, <1>3, <1>4

(* The clock in which state 1 takes a pair is the call.                    *)
LEMMA TakingIsCall ==
  ASSUME RInv, RInv', NEW vld \in BOOLEAN, NEW ack \in BOOLEAN, NEW number,
         Clk(vld, ack, number, FALSE), Takes(vld)
  PROVE  Hw!Call
<1>1. fsm = 1 /\ InFlight = <<>>
  BY BeatsInFlight DEF Takes
<1>2. fsm' = 2 /\ slice.state = "zero" /\ slice'.data_p1 = Data
  BY <1>1, SliceStep
<1>3. InFlight' = <<Data, right'>>
  BY <1>2, BeatsInFlightNext
<1>4. Data = Hw!Left
  BY <1>1, BothBeats DEF Data, Beat, Hw!Left, Hw!Beat
<1>5. right' = Hw!Right
  BY <1>1, BothBeats DEF Clk, Beat, Hw!Right, Hw!Beat
<1>6. cnt' = Hw!AfterBeat(Hw!AfterBeat(cnt)) /\ pairs' = pairs + 1
  BY BothBeats DEF Clk
<1>7. UNCHANGED <<received, newest>>
  BY <1>2 DEF Clk, VldOut
<1> QED BY <1>1, <1>3, <1>4, <1>5, <1>6, <1>7 DEF Hw!Call

(* A clock in which the stream's receiver takes a beat.                    *)
LEMMA DeliveryIsReceive ==
  ASSUME RInv, RInv', NEW vld \in BOOLEAN, NEW number,
         Clk(vld, TRUE, number, FALSE), fsm \in 2 .. 3
  PROVE  Hw!Receive
<1>1. slice.state \in {"one", "two"}
  BY DEF RInv, Handshake
<1>2. received' = received + 1 /\ newest' = slice.data_p1
  BY <1>1 DEF Clk, VldOut
<1>3. cnt' = cnt /\ pairs' = pairs
  BY DEF Clk, Takes
<1>4. CASE fsm = 2
  <2>1. InFlight = <<slice.data_p1, right>>
    BY <1>4, BeatsInFlight
  <2>2. InFlight' = <<right>>
    BY <1>4, SliceStep, BeatsInFlightNext
  <2> QED BY <1>2, <1>3, <2>1, <2>2 DEF Hw!Receive
<1>5. CASE fsm = 3 /\ slice.state = "one"
  <2>1. InFlight = <<slice.data_p1>>
    BY <1>5, BeatsInFlight
  <2>2. InFlight' = <<>>
    BY <1>5, SliceStep, BeatsInFlightNext
  <2> QED BY <1>2, <1>3, <2>1, <2>2 DEF Hw!Receive
<1>6. CASE fsm = 3 /\ slice.state = "two"
  <2>1. InFlight = <<slice.data_p1, slice.data_p2>>
    BY <1>6, BeatsInFlight
  <2>2. InFlight' = <<slice.data_p2>>
    BY <1>6, SliceStep, BeatsInFlightNext
  <2> QED BY <1>2, <1>3, <2>1, <2>2 DEF Hw!Receive
<1>7. fsm = 2 \/ fsm = 3
  OBVIOUS
<1> QED BY <1>1, <1>4, <1>5, <1>6, <1>7

(* A clock in which nothing is taken on either side.                       *)
LEMMA WaitingIsIdle ==
  ASSUME RInv, RInv', NEW vld \in BOOLEAN, NEW ack \in BOOLEAN, NEW number,
         Clk(vld, ack, number, FALSE), ~Takes(vld), fsm \in 2 .. 3 => ~ack
  PROVE  Hw!Idle
<1>1. cnt' = cnt /\ pairs' = pairs
  BY DEF Clk
<1>2. CASE fsm = 1
  <2>1. InFlight = <<>> /\ InFlight' = <<>>
    BY <1>2, SliceStep, BeatsInFlight, BeatsInFlightNext
  <2>2. UNCHANGED <<received, newest>>
    BY <1>2 DEF Clk, VldOut, RInv, Handshake
  <2> QED BY <1>1, <2>1, <2>2 DEF Hw!Idle
<1>3. CASE fsm = 2
  <2>1. ~ack
    BY <1>3
  <2>2. InFlight = <<slice.data_p1, right>>
    BY <1>3, BeatsInFlight
  <2>3. InFlight' = <<slice.data_p1, right>>
    BY <1>3, <2>1, SliceStep, BeatsInFlightNext
  <2>4. UNCHANGED <<received, newest>>
    BY <2>1 DEF Clk
  <2> QED BY <1>1, <2>2, <2>3, <2>4 DEF Hw!Idle
<1>4. CASE fsm = 3
  <2>1. ~ack /\ slice.state \in {"one", "two"}
    BY <1>4 DEF RInv, Handshake
  <2>2. InFlight' = InFlight
    BY <1>4, <2>1, SliceStep, BeatsInFlight, BeatsInFlightNext
  <2>3. UNCHANGED <<received, newest>>
    BY <2>1 DEF Clk
  <2> QED BY <1>1, <2>2, <2>3 DEF Hw!Idle
<1>5. fsm \in 1 .. 3
  BY DEF RInv, TypeInv
<1> QED BY <1>2, <1>3, <1>4, <1>5

LEMMA RunMaps == RInv /\ RInv' /\ Run => Hw!Next
<1> SUFFICES ASSUME RInv, RInv', NEW vld \in BOOLEAN, NEW ack \in BOOLEAN,
                    NEW number \in Numbers \union {tlast_dnum},
                    Clk(vld, ack, number, FALSE)
             PROVE  Hw!Next
  BY DEF Run
<1>1. tlast_dnum' \in Numbers \union {tlast_dnum}
  BY DEF Clk
<1>2. CASE Takes(vld)
  BY <1>1, <1>2, TakingIsCall DEF Hw!Next, Hw!Step
<1>3. CASE ~Takes(vld) /\ fsm \in 2 .. 3 /\ ack
  <2>1. Clk(vld, TRUE, number, FALSE)
    BY <1>3
  <2> QED BY <1>1, <1>3, <2>1, DeliveryIsReceive DEF Hw!Next, Hw!Step
<1>4. CASE ~Takes(vld) /\ ~(fsm \in 2 .. 3 /\ ack)
  BY <1>1, <1>4, WaitingIsIdle DEF Hw!Next, Hw!Step
<1> QED BY <1>2, <1>3, <1>4

LEMMA ResetMaps == RInv /\ RInv' /\ Reset => Hw!Next
<1> SUFFICES ASSUME RInv, RInv', NEW vld \in BOOLEAN, NEW ack \in BOOLEAN,
                    Clk(vld, ack, 0, TRUE)
             PROVE  Hw!Next
  BY DEF Reset
<1>1. /\ fsm' = 1 /\ tlast_dnum' = 0
      /\ UNCHANGED <<received, newest>>
  BY ResetStep
<1>2. InFlight' = <<>>
  BY <1>1, BeatsInFlightNext
<1>3. CASE Takes(vld)
  <2>1. InFlight = <<>>
    BY <1>3, BeatsInFlight DEF Takes
  <2>2. cnt' = Hw!AfterBeat(Hw!AfterBeat(cnt)) /\ pairs' = pairs + 1
    BY <1>3, BothBeats DEF Clk
  <2> QED BY <1>1, <1>2, <2>1, <2>2 DEF Hw!Next, Hw!Reset
<1>4. CASE ~Takes(vld)
  <2>1. UNCHANGED <<cnt, pairs>>
    BY <1>4 DEF Clk
  <2> QED BY <1>1, <1>2, <2>1 DEF Hw!Next, Hw!Reset
<1> QED BY <1>3, <1>4

LEMMA StutterMaps == UNCHANGED vars => UNCHANGED Hw!vars
  BY DEF vars, Hw!vars, InFlight, InSlice

(* The generated hardware implements the sequential C++ function: every    *)
(* call's two beats, once, in order, with the TLAST the source computes.   *)
THEOREM RtlImplements == Spec => ImplementsBypass
<1>1. Init => Hw!Init
  BY DEF Init, Hw!Init, InFlight, InSlice, PowerUp, NoBeat, Beat, Hw!NoBeat,
     Hw!Beat
<1>2. RInv /\ RInv' /\ [Next]_vars => [Hw!Next]_(Hw!vars)
  BY RunMaps, ResetMaps, StutterMaps DEF Next
<1> QED BY <1>1, <1>2, SliceHasRoom, PTL
        DEF Spec, ImplementsBypass, Hw!Spec
=============================================================================
