--------------------------- MODULE FirArithmetic ---------------------------
(***************************************************************************)
(* The fixed point arithmetic of one channel of fir_hw, by the types of    *)
(* types.h: every type wraps (AP_WRAP) and truncates (AP_TRN).  A number   *)
(* is its raw integer, its value that integer over a power of two.  Next   *)
(* to fir_hw.cpp's accumulator runs the one of the RTL generated from it,  *)
(* which cuts bits out of an unsigned sum.                                 *)
(*                                                                         *)
(* In the source, din_t has 23 fraction bits, coeff_t and dout_t have 31   *)
(* and a sign, acc_t has 46 and one integer bit more.                      *)
(***************************************************************************)
EXTENDS Integers

CONSTANTS
  DinOne,    \* 2^23: din_t's fraction
  Pad,       \* 2^23: from din_t's fraction to acc_t's
  CoeffOne,  \* 2^31: coeff_t's fraction
  OutDrop,   \* 2^15: from acc_t's fraction to dout_t's
  OutMod,    \* 2^32: the numbers of dout_t
  MaxTaps    \* 512

(* din_t and coeff_t have one sign bit and a fraction.                     *)
Samples == 0 - DinOne .. DinOne - 1
Coeffs == 0 - CoeffOne .. CoeffOne - 1

(* 2^48: the numbers of acc_t, which has one integer bit more than dout_t. *)
AccMod == 2 * (OutMod * OutDrop)

ASSUME ArithmeticAssumption ==
  /\ DinOne \in Nat \ {0} /\ Pad \in Nat \ {0}
  /\ CoeffOne \in Nat \ {0} /\ OutDrop \in Nat \ {0}
  /\ MaxTaps \in Nat /\ OutMod \in Nat
  /\ \E half \in 1 .. OutMod : OutMod = 2 * half

VARIABLES
  taps,              \* taps added since the call began
  acc_raw,           \* acc_l, as a raw integer
  rtl_acc, rtl_out,  \* acc_l_fu_94 and out_data_data_fu_90 of the RTL
  exact              \* history: the sum of the products, not rounded, in
                     \* units of acc_t's last place over CoeffOne

arithVars == <<taps, acc_raw, rtl_acc, rtl_out, exact>>

Wrap_Saturate(x, m) ==  \* mutant: AP_SAT
  CASE x < 0 - (m \div 2) -> 0 - (m \div 2)
    [] x >= m \div 2 -> (m \div 2) - 1
    [] OTHER -> x

(* AP_WRAP: the two's complement number of the same last bits.             *)
Wrap(x, m) == ((x + (m \div 2)) % m) - (m \div 2)

Trunc_ToZero(x, d) ==  \* mutant: AP_TRN_ZERO
  IF x < 0 THEN 0 - ((0 - x) \div d) ELSE x \div d

(* AP_TRN: towards minus infinity.                                         *)
Trunc(x, d) == x \div d

ArithInit ==
  /\ taps = 0 /\ acc_raw = 0 /\ rtl_acc = 0 /\ rtl_out = 0
  /\ exact = 0

(* (acc_t)sample_l * coeff_hw[i], at full precision.                       *)
TapProduct(s, c) == (s * Pad) * c

(* acc_l += product: the sum at full precision, truncated and wrapped.     *)
AccAdd(acc, p) == Wrap(Trunc(acc * CoeffOne + p, CoeffOne), AccMod)

RtlSum_Narrow(a, p) ==  \* mutant: an adder without acc_t's integer bit
  (a * CoeffOne + p) % (OutMod * OutDrop * CoeffOne)

(* add_ln38: {acc, 31'd0} plus the product, in 79 bits.                    *)
RtlSum(a, p) == (a * CoeffOne + p) % (AccMod * CoeffOne)

(* Bits 78 to 31 of it are the new acc, bits 77 to 46 the output.          *)
RtlAcc(sum) == sum \div CoeffOne
RtlOut(sum) == (sum \div (CoeffOne * OutDrop)) % OutMod

Accumulate ==
  /\ taps < MaxTaps
  /\ taps' = taps + 1
  /\ \E s \in Samples, c \in Coeffs :
       LET p == TapProduct(s, c) IN
       /\ acc_raw' = AccAdd(acc_raw, p)
       /\ rtl_acc' = RtlAcc(RtlSum(rtl_acc, p))
       /\ rtl_out' = RtlOut(RtlSum(rtl_acc, p))
       /\ exact' = exact + p

(* The result was written; the next call begins.                           *)
NextCall ==
  /\ taps > 0
  /\ taps' = 0 /\ acc_raw' = 0 /\ rtl_acc' = 0 /\ rtl_out' = 0 /\ exact' = 0

ArithNext == Accumulate \/ NextCall

ArithSpec == ArithInit /\ [][ArithNext]_arithVars

(* out_data.data = acc_l.                                                  *)
Data == Wrap(Trunc(acc_raw, OutDrop), OutMod)
-----------------------------------------------------------------------------
ArithTypeOK ==
  /\ taps \in 0 .. MaxTaps
  /\ acc_raw \in 0 - (AccMod \div 2) .. (AccMod \div 2) - 1
  /\ rtl_acc \in 0 .. AccMod - 1 /\ rtl_out \in 0 .. OutMod - 1
  /\ exact \in Int

(* One in dout_t's last place, in the units of exact.                      *)
Ulp == CoeffOne * OutDrop

(* What truncation may take away: less than one in acc_t's last place for  *)
(* each tap, less than one in dout_t's for the output.                     *)
Loss == taps * (CoeffOne - 1) + (Ulp - 1)

(* The exact sum is a number of dout_t even if all of that is lost.        *)
Fits ==
  /\ exact - Loss >= 0 - ((OutMod \div 2) * Ulp)
  /\ exact < (OutMod \div 2) * Ulp

(* The result is the exact one but for truncation whenever that fits:      *)
(* however often the accumulator wrapped on the way, the wraps cancel.     *)
ResultExact ==
  Fits => 0 <= exact - Data * Ulp /\ exact - Data * Ulp <= Loss

(* If it does not fit, the result is wrong by whole turns of dout_t, that  *)
(* is, a full scale value may come out with its sign changed, but nothing  *)
(* else happens to it: what is left over a turn is the truncation.         *)
OffByTurns == (exact - Data * Ulp) % (OutMod * Ulp) <= Loss

(* The RTL computes the same bits.                                         *)
RtlAgrees ==
  /\ rtl_acc = acc_raw % AccMod
  /\ rtl_out = Data % OutMod
=============================================================================
