--------------------------- MODULE AudioInterface ---------------------------
(***************************************************************************)
(* audio_interface.v: the serial receiver between the codec and the input  *)
(* FIFOs.  The codec is the master of the bit clock and of the word clock, *)
(* which are asynchronous to clk; codec_init programs it for left          *)
(* justified words, most significant bit first.                            *)
(*                                                                         *)
(* A half-word of the bus is a slot, and a bit on the wire is the pair of  *)
(* its slot's number and its place in the slot, so that adc_data shows     *)
(* what it was put together from.  Time is counted in periods of clk.      *)
(***************************************************************************)
EXTENDS Integers, Sequences

CONSTANTS
  SlotBits,  \* 32: bit clocks of a slot, and bits of adc_data_shr
  DataBits,  \* 24: bits of adc_data
  MinHalf,   \* least and greatest number of clk edges in one half of a
  MaxHalf,   \*   bit clock's period: 4 and 5 in the testbench
  MaxSlots   \* bound: slots the codec sends in a behaviour

ASSUME InterfaceAssumption ==
  /\ SlotBits \in Nat /\ DataBits \in 1 .. SlotBits
  /\ MinHalf \in Nat /\ 2 <= MinHalf
  /\ MaxHalf \in Nat /\ MinHalf <= MaxHalf
  /\ MaxSlots \in Nat

VARIABLES
  codec_lrclk, codec_bclk, codec_sdout,  \* the codec's wires
  before,        \* their values before the last edge
  age,           \* clk edges since then
  slot, place,   \* what the codec is sending, slot 0 when it is silent
  lrclk_shr, bclk_shr, sdout_shr, adc_data_shr,
  en,
  first,         \* history: the slot that was on when en rose
  written        \* history: the samples written to the input FIFOs

wires == <<codec_lrclk, codec_bclk, codec_sdout>>
codecVars == <<wires, before, age, slot, place>>
regs == <<lrclk_shr, bclk_shr, sdout_shr, adc_data_shr>>
vars == <<codecVars, regs, en, first, written>>

Bit(s, k) == <<s, k>>
NoBit == Bit(0, 0)

(* adc_data_shr has no reset; the first element of a register here is its  *)
(* bit 0, except adc_data_shr, which is written as it is read.             *)
Init ==
  /\ codec_lrclk = 0 /\ codec_bclk = 0 /\ codec_sdout = NoBit
  /\ before = wires /\ age = MinHalf
  /\ slot = 0 /\ place = 0
  /\ lrclk_shr = <<0, 0, 0>>
  /\ bclk_shr = <<0, 0, 0>>
  /\ sdout_shr = <<NoBit, NoBit>>
  /\ adc_data_shr = [i \in 1 .. SlotBits |-> NoBit]
  /\ en = FALSE /\ first = 0 /\ written = <<>>

(***************************************************************************)
(* The codec: bits and slots change at falling edges of the bit clock.     *)
(***************************************************************************)
Edge == before' = wires /\ age' = 0 /\ UNCHANGED <<regs, en, first, written>>

(* Powered up, it starts with a slot of either channel.                    *)
PowerUp ==
  /\ slot = 0
  /\ slot' = 1 /\ place' = 1
  /\ codec_lrclk' \in {0, 1}
  /\ codec_sdout' = Bit(1, 1)
  /\ UNCHANGED codec_bclk
  /\ Edge

BclkRise ==
  /\ slot > 0 /\ codec_bclk = 0 /\ age >= MinHalf
  /\ codec_bclk' = 1
  /\ UNCHANGED <<codec_lrclk, codec_sdout, slot, place>>
  /\ Edge

BclkFall ==
  /\ codec_bclk = 1 /\ age >= MinHalf
  /\ codec_bclk' = 0
  /\ \/ /\ place < SlotBits
        /\ place' = place + 1
        /\ UNCHANGED <<slot, codec_lrclk>>
     \/ /\ place = SlotBits /\ slot < MaxSlots
        /\ place' = 1 /\ slot' = slot + 1 /\ codec_lrclk' = 1 - codec_lrclk
  /\ codec_sdout' = Bit(slot', place')
  /\ Edge

(***************************************************************************)
(* The module.                                                             *)
(***************************************************************************)
Rises(shr) == shr[3] = 0 /\ shr[2] = 1
Falls(shr) == shr[3] = 1 /\ shr[2] = 0

AdcValidR_Gated ==  \* mutant: a strobe gated by the bit clock
  Rises(lrclk_shr) /\ Rises(bclk_shr) /\ en

AdcValidL == Falls(lrclk_shr) /\ en
AdcValidR == Rises(lrclk_shr) /\ en
AdcData == SubSeq(adc_data_shr, 1, DataBits)
Strobed == IF AdcValidL THEN "left" ELSE "right"
ShiftIn(shr, bit) == Append(Tail(shr), bit)

(* What a flip-flop may sample: the clk edge that comes first after an     *)
(* edge of the codec finds each wire, on its own, either before or after   *)
(* its change.                                                             *)
Sampled(i) == IF age = 0 THEN {wires[i], before[i]} ELSE {wires[i]}

(* A posedge of clk.  The FIFOs take adc_data where a strobe is up.        *)
Clk ==
  /\ slot = 0 \/ age < MaxHalf
  /\ age' = IF age < MaxHalf THEN age + 1 ELSE age
  /\ \E l \in Sampled(1), b \in Sampled(2), d \in Sampled(3) :
       /\ lrclk_shr' = <<l>> \o SubSeq(lrclk_shr, 1, 2)
       /\ bclk_shr' = <<b>> \o SubSeq(bclk_shr, 1, 2)
       /\ sdout_shr' = <<d>> \o SubSeq(sdout_shr, 1, 1)
  /\ adc_data_shr' = IF Rises(bclk_shr)
                     THEN ShiftIn(adc_data_shr, sdout_shr[2])
                     ELSE adc_data_shr
  /\ written' = IF AdcValidL \/ AdcValidR
                THEN Append(written, [channel |-> Strobed, word |-> AdcData])
                ELSE written
  /\ UNCHANGED <<wires, before, slot, place, en, first>>

(* The GPIO register, written by codec_init.                               *)
Enable ==
  /\ ~en /\ en' = TRUE /\ first' = slot
  /\ UNCHANGED <<codecVars, regs, written>>

Next == PowerUp \/ BclkRise \/ BclkFall \/ Clk \/ Enable

Spec == Init /\ [][Next]_vars
-----------------------------------------------------------------------------
Half == IF codec_lrclk = 1 THEN "left" ELSE "right"

Source == INSTANCE SampleSource WITH half <- Half

(* Wherever the codec's edges fall between those of clk: a strobe finds    *)
(* the whole word of the slot that has ended, and is that of its channel;  *)
(* no slot is strobed twice, and none that was sent with en up is missed.  *)
DeliversSamples == Source!Spec
=============================================================================
