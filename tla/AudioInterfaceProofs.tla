------------------------ MODULE AudioInterfaceProofs ------------------------
(***************************************************************************)
(* AudioInterface implements SampleSource, for every length of the slots   *)
(* and words, and every bit clock each half of which lasts two periods of  *)
(* clk or more.                                                            *)
(***************************************************************************)
EXTENDS AudioInterface, SequenceTheorems, TLAPS

Level == {0, 1}
Bits == Nat \X Nat
Words == [1 .. DataBits -> Bits]
Channels == {"left", "right"}
Samples == [channel : Channels, word : Words]

TypeInv ==
  /\ codec_lrclk \in Level /\ codec_bclk \in Level /\ codec_sdout \in Bits
  /\ before \in Level \X Level \X Bits
  /\ age \in Nat /\ slot \in Nat /\ place \in Nat /\ place <= SlotBits
  /\ lrclk_shr \in Seq(Level) /\ Len(lrclk_shr) = 3
  /\ bclk_shr \in Seq(Level) /\ Len(bclk_shr) = 3
  /\ sdout_shr \in Seq(Bits) /\ Len(sdout_shr) = 2
  /\ adc_data_shr \in [1 .. SlotBits -> Bits]
  /\ en \in BOOLEAN /\ first \in Nat
  /\ written \in Seq(Samples)

(* The first half bit after PowerUp, before which there was no edge.       *)
Starts == slot = 1 /\ place = 1 /\ codec_bclk = 0

(* What the codec's wires are and were.                                    *)
CodecInv ==
  /\ codec_sdout = Bit(slot, place)
  /\ slot = 0 => /\ codec_bclk = 0 /\ codec_lrclk = 0 /\ place = 0
                 /\ before = wires
  /\ slot > 0 =>
       /\ place > 0
       /\ before[2] = (IF codec_bclk = 1 \/ Starts THEN 0 ELSE 1)
       /\ codec_bclk = 1 => before[3] = codec_sdout
       /\ before[1] = (IF Starts THEN 0
                       ELSE IF codec_bclk = 1 \/ place > 1 THEN codec_lrclk
                       ELSE 1 - codec_lrclk)

Three(shr) == <<shr[1], shr[2], shr[3]>>

(* What bclk_shr may be, by the age of the last edge.                      *)
BclkSeen ==
  IF codec_bclk = 1
  THEN CASE age = 0 -> {<<0, 0, 0>>, <<0, 0, 1>>, <<0, 1, 1>>}
         [] age = 1 -> {<<0, 0, 0>>, <<0, 0, 1>>, <<1, 0, 0>>, <<1, 0, 1>>}
         [] age = 2 -> {<<1, 0, 0>>, <<1, 1, 0>>}
         [] age = 3 -> {<<1, 1, 0>>, <<1, 1, 1>>}
         [] OTHER -> {<<1, 1, 1>>}
  ELSE CASE age = 0 -> {<<1, 0, 0>>, <<1, 1, 0>>, <<1, 1, 1>>}
         [] age = 1 -> {<<0, 1, 0>>, <<1, 1, 0>>, <<0, 1, 1>>, <<1, 1, 1>>}
         [] age = 2 -> {<<0, 0, 1>>, <<0, 1, 1>>}
         [] age = 3 -> {<<0, 0, 0>>, <<0, 0, 1>>}
         [] OTHER -> {<<0, 0, 0>>}

BclkInv ==
  IF slot = 0 \/ Starts
  THEN Three(bclk_shr) = <<0, 0, 0>> ELSE Three(bclk_shr) \in BclkSeen

(* What lrclk_shr may be: the word clock changes with the first falling    *)
(* edge of a slot, and is seen before the second one.                      *)
New == codec_lrclk
Old == 1 - codec_lrclk

LrclkSeen ==
  IF place > 1 THEN {<<New, New, New>>}
  ELSE IF codec_bclk = 0
  THEN CASE age = 0 -> {<<Old, Old, Old>>}
         [] age = 1 -> {<<Old, Old, Old>>, <<New, Old, Old>>}
         [] age = 2 -> {<<New, Old, Old>>, <<New, New, Old>>}
         [] age = 3 -> {<<New, New, Old>>, <<New, New, New>>}
         [] OTHER -> {<<New, New, New>>}
  ELSE CASE age = 0 -> {<<New, Old, Old>>, <<New, New, Old>>,
                        <<New, New, New>>}
         [] age = 1 -> {<<New, New, Old>>, <<New, New, New>>}
         [] OTHER -> {<<New, New, New>>}

LrclkInv ==
  IF slot = 0 \/ (slot = 1 /\ codec_lrclk = 0)
  THEN Three(lrclk_shr) = <<0, 0, 0>> ELSE Three(lrclk_shr) \in LrclkSeen

Settled == Three(lrclk_shr) = <<New, New, New>>

(* A rise of the bit clock that has not shifted a bit in yet, at one of    *)
(* three places, and the bit it is for.                                    *)
Pending ==
  \/ codec_bclk = 1 /\ bclk_shr[1] = 0
  \/ bclk_shr[1] = 1 /\ bclk_shr[2] = 0
  \/ bclk_shr[2] = 1 /\ bclk_shr[3] = 0

Risen ==
  IF codec_bclk = 1 THEN Bit(slot, place)
  ELSE IF place > 1 THEN Bit(slot, place - 1) ELSE Bit(slot - 1, SlotBits)

DataInv ==
  /\ bclk_shr[1] = 1 /\ bclk_shr[2] = 0 => sdout_shr[1] = Risen
  /\ bclk_shr[2] = 1 /\ bclk_shr[3] = 0 => sdout_shr[2] = Risen

(* The bits of the slot that are in adc_data_shr, -1 if one of the slot    *)
(* before is missing, and what the register holds.                         *)
Shifted ==
  place - (IF codec_bclk = 1 THEN 0 ELSE 1) - (IF Pending THEN 1 ELSE 0)

Holds(k, m) ==
  /\ m > SlotBits => adc_data_shr[k] = Bit(slot, m - SlotBits)
  /\ 1 <= m /\ m <= SlotBits =>
       adc_data_shr[k] = (IF slot = 1 THEN NoBit ELSE Bit(slot - 1, m))

ShiftInv ==
  \A k \in 1 .. SlotBits :
    IF slot = 0 THEN adc_data_shr[k] = NoBit ELSE Holds(k, k + Shifted)

(* What was written last: the sample of the slot that has ended, one of a  *)
(* slot before that, or silence.                                           *)
LastInv ==
  \/ slot > 1 /\ Settled /\ Source!IsWritten(Source!Ended)
  \/ \E s \in Nat, c \in Channels :
       /\ 0 < s /\ s < slot - 1
       /\ Source!IsWritten([channel |-> c, word |-> Source!Word(s)])
  \/ /\ slot > 0 /\ (slot = 1 => Settled)
     /\ Source!IsWritten([channel |-> "right", word |-> Source!Silent])

WrittenInv ==
  /\ en => first <= slot
  /\ ~en => written = <<>>
  /\ written # <<>> => LastInv
  /\ en /\ slot > 1 /\ first < slot /\ Settled =>
       Source!IsWritten(Source!Ended)

IInv ==
  /\ TypeInv /\ CodecInv /\ BclkInv /\ LrclkInv /\ DataInv /\ ShiftInv
  /\ WrittenInv

-----------------------------------------------------------------------------
(* A shift register of two or three bits.                                  *)
LEMMA ShiftOne ==
  ASSUME NEW S, NEW shr \in Seq(S), NEW x \in S, NEW n \in Nat,
         Len(shr) = n + 1
  PROVE  /\ <<x>> \o SubSeq(shr, 1, n) \in Seq(S)
         /\ Len(<<x>> \o SubSeq(shr, 1, n)) = n + 1
         /\ (<<x>> \o SubSeq(shr, 1, n))[1] = x
         /\ \A k \in 1 .. n : (<<x>> \o SubSeq(shr, 1, n))[k + 1] = shr[k]
<1> DEFINE t == SubSeq(shr, 1, n)
<1>1. t \in Seq(S) /\ Len(t) = n /\ \A k \in 1 .. n : t[k] = shr[k]
  <2>1. \A k \in 1 .. n : shr[k] \in S
    OBVIOUS
  <2> QED BY <2>1, SubSeqProperties
<1> HIDE DEF t
<1>2. /\ <<x>> \o t \in Seq(S) /\ Len(<<x>> \o t) = n + 1
      /\ (<<x>> \o t)[1] = x
      /\ \A k \in 1 .. n : (<<x>> \o t)[k + 1] = t[k]
  BY <1>1
<1> QED BY <1>1, <1>2 DEF t

(* adc_data_shr.                                                           *)
LEMMA ShiftInElements ==
  ASSUME NEW shr \in [1 .. SlotBits -> Bits], NEW bit \in Bits
  PROVE  /\ ShiftIn(shr, bit) \in [1 .. SlotBits -> Bits]
         /\ \A k \in 1 .. SlotBits :
              ShiftIn(shr, bit)[k] =
                (IF k = SlotBits THEN bit ELSE shr[k + 1])
<1>1. SlotBits \in Nat \ {0}
  BY InterfaceAssumption
<1>2. shr \in Seq(Bits) /\ Len(shr) = SlotBits /\ shr # <<>>
  BY <1>1
<1>3. /\ Tail(shr) \in Seq(Bits) /\ Len(Tail(shr)) = SlotBits - 1
      /\ \A k \in 1 .. SlotBits - 1 : Tail(shr)[k] = shr[k + 1]
  BY <1>1, <1>2
<1>4. /\ ShiftIn(shr, bit) \in Seq(Bits) /\ Len(ShiftIn(shr, bit)) = SlotBits
      /\ \A k \in 1 .. SlotBits - 1 : ShiftIn(shr, bit)[k] = Tail(shr)[k]
      /\ ShiftIn(shr, bit)[SlotBits] = bit
  BY <1>1, <1>3 DEF ShiftIn
<1>5. ShiftIn(shr, bit) \in [1 .. SlotBits -> Bits]
  BY <1>1, <1>4
<1> QED BY <1>1, <1>3, <1>4, <1>5

LEMMA AdcDataElements ==
  ASSUME TypeInv
  PROVE  /\ AdcData \in Words
         /\ \A k \in 1 .. DataBits : AdcData[k] = adc_data_shr[k]
<1>1. SlotBits \in Nat /\ DataBits \in 1 .. SlotBits
  BY InterfaceAssumption
<1>2. \A k \in 1 .. DataBits : adc_data_shr[k] \in Bits
  BY <1>1 DEF TypeInv
<1>3. /\ AdcData \in Seq(Bits) /\ Len(AdcData) = DataBits
      /\ \A k \in 1 .. DataBits : AdcData[k] = adc_data_shr[k]
  BY <1>1, <1>2, SubSeqProperties DEF AdcData
<1> QED BY <1>1, <1>3 DEF Words

-----------------------------------------------------------------------------
LEMMA InitInv == Init => IInv
<1> SUFFICES ASSUME Init PROVE IInv
  OBVIOUS
<1>1. SlotBits \in Nat /\ MinHalf \in Nat
  BY InterfaceAssumption
<1>2. TypeInv
  <2>1. NoBit \in Bits
    BY DEF NoBit, Bit, Bits
  <2>2. /\ <<0, 0, 0>> \in Seq(Level) /\ Len(<<0, 0, 0>>) = 3
        /\ <<NoBit, NoBit>> \in Seq(Bits) /\ Len(<<NoBit, NoBit>>) = 2
    BY <2>1 DEF Level
  <2>3. /\ before = <<0, 0, NoBit>> /\ before \in Level \X Level \X Bits
        /\ adc_data_shr \in [1 .. SlotBits -> Bits]
        /\ written \in Seq(Samples)
    BY <2>1 DEF Init, wires, Level
  <2>4. /\ codec_lrclk \in Level /\ codec_bclk \in Level
        /\ codec_sdout \in Bits /\ first \in Nat
        /\ age \in Nat /\ slot \in Nat /\ place \in Nat /\ place <= SlotBits
    BY <1>1, <2>1 DEF Init, Level
  <2>6. en \in BOOLEAN
    BY DEF Init
  <2>5. /\ lrclk_shr \in Seq(Level) /\ Len(lrclk_shr) = 3
        /\ bclk_shr \in Seq(Level) /\ Len(bclk_shr) = 3
        /\ sdout_shr \in Seq(Bits) /\ Len(sdout_shr) = 2
    BY <2>2 DEF Init
  <2> QED BY <2>3, <2>4, <2>5, <2>6 DEF TypeInv
<1>3. CodecInv
  BY DEF Init, CodecInv, NoBit
<1>4. BclkInv /\ LrclkInv /\ DataInv
  BY DEF Init, BclkInv, LrclkInv, DataInv, Three
<1>5. ShiftInv /\ WrittenInv
  BY DEF Init, ShiftInv, WrittenInv
<1> QED BY <1>2, <1>3, <1>4, <1>5 DEF IInv

LEMMA InitImplements == Init => Source!Init
BY DEF Init, Source!Init, Half

(* The codec's edges.                                                      *)
LEMMA PowerUpStep == IInv /\ PowerUp => IInv' /\ Source!PowerUp
<1> SUFFICES ASSUME IInv, PowerUp PROVE IInv' /\ Source!PowerUp
  OBVIOUS
<1>1. /\ slot = 0 /\ slot' = 1 /\ place' = 1 /\ codec_lrclk' \in Level
      /\ codec_sdout' = Bit(1, 1) /\ codec_bclk' = codec_bclk
      /\ before' = wires /\ age' = 0 /\ UNCHANGED <<regs, en, first, written>>
  BY DEF PowerUp, Edge, Level
<1>2. UNCHANGED <<lrclk_shr, bclk_shr, sdout_shr, adc_data_shr, en, first,
                  written>>
  BY <1>1 DEF regs
<1>3. /\ codec_bclk = 0 /\ codec_lrclk = 0 /\ codec_sdout \in Bits
      /\ Three(bclk_shr) = <<0, 0, 0>> /\ Three(lrclk_shr) = <<0, 0, 0>>
  BY <1>1 DEF IInv, TypeInv, CodecInv, BclkInv, LrclkInv
<1>4. SlotBits \in Nat \ {0}
  BY InterfaceAssumption
<1>5. TypeInv'
  BY <1>1, <1>2, <1>3, <1>4 DEF IInv, TypeInv, wires, Bit, Bits, Level
<1>6. CodecInv'
  BY <1>1, <1>3 DEF CodecInv, Starts, wires
<1>7. BclkInv'
  BY <1>1, <1>2, <1>3 DEF BclkInv, Starts
<1>8. LrclkInv'
  BY <1>1, <1>2, <1>3 DEF LrclkInv, LrclkSeen, New, Old, Level, Three
<1>9. ~Pending /\ ~Pending' /\ Shifted' = 0
  BY <1>1, <1>2, <1>3 DEF Pending, Shifted, Three
<1>10. DataInv'
  BY <1>1, <1>2, <1>9 DEF DataInv, Pending
<1>11. ShiftInv'
  BY <1>1, <1>2, <1>4, <1>9 DEF IInv, ShiftInv, Holds
<1>12. WrittenInv'
  <2>1. written = <<>>
    <3>1. ~LastInv
      <4>1. ~(slot > 1) /\ ~(slot > 0)
            /\ \A s \in Nat : ~(0 < s /\ s < slot - 1)
        BY <1>1
      <4> QED BY <4>1 DEF LastInv
    <3> QED BY <3>1 DEF IInv, WrittenInv
  <2> QED BY <1>1, <1>2, <2>1 DEF IInv, WrittenInv, TypeInv
<1>13. Source!PowerUp
  BY <1>1, <1>2 DEF Source!PowerUp, Half
<1> QED BY <1>5, <1>6, <1>7, <1>8, <1>10, <1>11, <1>12, <1>13 DEF IInv

LEMMA BclkRiseStep == IInv /\ BclkRise => IInv' /\ UNCHANGED Source!vars
<1> SUFFICES ASSUME IInv, BclkRise PROVE IInv' /\ UNCHANGED Source!vars
  OBVIOUS
<1>1. /\ slot > 0 /\ codec_bclk = 0 /\ 2 <= age /\ age \in Nat
      /\ codec_bclk' = 1 /\ codec_lrclk' = codec_lrclk
      /\ codec_sdout' = codec_sdout /\ slot' = slot /\ place' = place
      /\ before' = wires /\ age' = 0
      /\ UNCHANGED <<lrclk_shr, bclk_shr, sdout_shr, adc_data_shr, en, first,
                     written>>
  BY InterfaceAssumption DEF BclkRise, Edge, regs, IInv, TypeInv
<1>2. TypeInv'
  BY <1>1 DEF IInv, TypeInv, wires, Level
<1>3. CodecInv'
  BY <1>1 DEF IInv, CodecInv, Starts, wires
<1>4. Three(bclk_shr) \in {<<0, 0, 1>>, <<0, 1, 1>>, <<0, 0, 0>>}
  BY <1>1 DEF IInv, BclkInv, BclkSeen
<1>5. BclkInv'
  BY <1>1, <1>4 DEF BclkInv, BclkSeen, Starts, Three
<1>6. LrclkInv'
  BY <1>1 DEF IInv, LrclkInv, LrclkSeen, New, Old, Three
<1>7. ~Pending /\ Pending'
  BY <1>1, <1>4 DEF Pending, Three
<1>8. Shifted' = Shifted
  BY <1>1, <1>7 DEF Shifted, IInv, TypeInv
<1>9. DataInv'
  BY <1>1, <1>4 DEF DataInv, Three
<1>10. ShiftInv'
  BY <1>1, <1>8 DEF IInv, ShiftInv, Holds
<1>11. WrittenInv' /\ UNCHANGED Source!vars
  BY <1>1 DEF IInv, WrittenInv, LastInv, Settled, Three, New, Half,
     Source!vars, Source!IsWritten, Source!Ended
<1> QED BY <1>2, <1>3, <1>5, <1>6, <1>9, <1>10, <1>11 DEF IInv

LEMMA EnableStep == IInv /\ Enable => IInv' /\ Source!Enable
<1> SUFFICES ASSUME IInv, Enable PROVE IInv' /\ Source!Enable
  OBVIOUS
<1>1. /\ ~en /\ en' = TRUE /\ first' = slot
      /\ UNCHANGED <<wires, before, age, slot, place, lrclk_shr, bclk_shr,
                     sdout_shr, adc_data_shr, written>>
  BY DEF Enable, codecVars, regs
<1>2. /\ UNCHANGED <<codec_lrclk, codec_bclk, codec_sdout, wires>>
  BY <1>1 DEF wires
<1>3. TypeInv'
  BY <1>1, <1>2 DEF IInv, TypeInv
<1>4. CodecInv' /\ BclkInv' /\ LrclkInv'
  BY <1>1, <1>2 DEF IInv, CodecInv, Starts, BclkInv, BclkSeen, LrclkInv,
     LrclkSeen, New, Old, Three
<1>5. DataInv' /\ ShiftInv'
  BY <1>1, <1>2 DEF IInv, DataInv, ShiftInv, Holds, Shifted, Pending, Risen
<1>6. written = <<>> /\ written' = <<>> /\ slot' = slot /\ slot \in Nat
  BY <1>1 DEF IInv, TypeInv, WrittenInv
<1>7. WrittenInv'
  BY <1>1, <1>6 DEF WrittenInv
<1>8. Source!Enable
  BY <1>1, <1>2 DEF Source!Enable, Half
<1> QED BY <1>3, <1>4, <1>5, <1>7, <1>8 DEF IInv

(* A falling edge, within a slot or at the end of one.                     *)
LEMMA BclkFallStep ==
  IInv /\ BclkFall => IInv' /\ (Source!NextSlot \/ UNCHANGED Source!vars)
<1> SUFFICES ASSUME IInv, BclkFall
             PROVE  IInv' /\ (Source!NextSlot \/ UNCHANGED Source!vars)
  OBVIOUS
<1>1. /\ codec_bclk = 1 /\ 2 <= age /\ age \in Nat
      /\ codec_bclk' = 0 /\ codec_sdout' = Bit(slot', place')
      /\ before' = wires /\ age' = 0
      /\ UNCHANGED <<lrclk_shr, bclk_shr, sdout_shr, adc_data_shr, en, first,
                     written>>
  BY InterfaceAssumption DEF BclkFall, Edge, regs, IInv, TypeInv
<1>2. \/ /\ place < SlotBits /\ place' = place + 1
         /\ slot' = slot /\ codec_lrclk' = codec_lrclk
      \/ /\ place = SlotBits /\ slot < MaxSlots
         /\ place' = 1 /\ slot' = slot + 1 /\ codec_lrclk' = 1 - codec_lrclk
  BY DEF BclkFall
<1>3. /\ SlotBits \in Nat \ {0} /\ MaxSlots \in Nat
      /\ slot \in Nat \ {0} /\ place \in Nat \ {0} /\ place <= SlotBits
      /\ codec_lrclk \in Level /\ codec_sdout \in Bits
  BY <1>1, InterfaceAssumption DEF IInv, TypeInv, CodecInv
<1>4. /\ slot' \in Nat \ {0} /\ place' \in Nat \ {0} /\ place' <= SlotBits
      /\ codec_lrclk' \in Level /\ codec_sdout' \in Bits
  BY <1>1, <1>2, <1>3 DEF Level, Bit, Bits
<1>5. TypeInv'
  BY <1>1, <1>3, <1>4 DEF IInv, TypeInv, wires, Level
<1>6. CodecInv'
  <2>1. /\ before'[1] = codec_lrclk /\ before'[2] = 1
        /\ slot' # 0 /\ place' > 0 /\ ~Starts'
    BY <1>1, <1>2, <1>3, <1>4 DEF wires, Starts
  <2>2. before'[1] = IF place' > 1 THEN codec_lrclk' ELSE 1 - codec_lrclk'
    BY <1>2, <1>3, <2>1 DEF Level
  <2> QED BY <1>1, <2>1, <2>2 DEF CodecInv
<1>7. Three(bclk_shr) \in {<<1, 0, 0>>, <<1, 1, 0>>, <<1, 1, 1>>}
  BY <1>1, <1>3 DEF IInv, BclkInv, BclkSeen, Starts
<1>8. ~Starts'
  BY <1>1, <1>2, <1>3 DEF Starts
<1>9. BclkInv'
  BY <1>1, <1>4, <1>7, <1>8 DEF BclkInv, BclkSeen, Three
<1>10. Settled
  BY <1>1, <1>3 DEF IInv, LrclkInv, LrclkSeen, Settled, New
<1>11. LrclkInv'
  <2>1. CASE place' = place + 1
    BY <1>1, <1>2, <1>3, <1>10, <2>1
       DEF LrclkInv, LrclkSeen, Settled, New, Old, Three
  <2>2. CASE place' = 1 /\ slot' = slot + 1 /\ codec_lrclk' = 1 - codec_lrclk
    BY <1>1, <1>3, <1>10, <2>2
       DEF LrclkInv, LrclkSeen, Settled, New, Old, Three, Level
  <2> QED BY <1>2, <2>1, <2>2
<1>12. Risen' = Risen /\ (Pending' <=> Pending)
  <2>1. Pending' <=> Pending
    BY <1>1, <1>7 DEF Pending, Three
  <2>2. Risen' = Risen
    BY <1>1, <1>2, <1>3 DEF Risen
  <2> QED BY <2>1, <2>2
<1>13. DataInv'
  BY <1>1, <1>12 DEF IInv, DataInv
<1>14. ShiftInv'
  <2>1. Shifted = place - (IF Pending THEN 1 ELSE 0) /\ Shifted \in Int
    BY <1>1, <1>3 DEF Shifted
  <2>2. Shifted' = place' - 1 - (IF Pending THEN 1 ELSE 0)
    BY <1>1, <1>12 DEF Shifted
  <2>3. CASE place' = place + 1 /\ slot' = slot
    <3>1. Shifted' = Shifted
      BY <1>3, <2>1, <2>2, <2>3
    <3> QED BY <1>1, <2>3, <3>1 DEF IInv, ShiftInv, Holds
  <2>4. CASE place = SlotBits /\ place' = 1 /\ slot' = slot + 1
    <3>1. PICK p \in {0, 1} : Shifted = SlotBits - p /\ Shifted' = 0 - p
      BY <1>3, <2>1, <2>2, <2>4
    <3> SUFFICES ASSUME NEW k \in 1 .. SlotBits, NEW m \in Int,
                        m = k + Shifted'
                 PROVE  Holds(k, m)'
      <4>1. \A i \in 1 .. SlotBits : i + Shifted' \in Int
        BY <3>1
      <4> QED BY <1>4, <4>1 DEF ShiftInv
    <3>2. k + Shifted = m + SlotBits /\ m <= SlotBits
      BY <1>3, <3>1
    <3>3. Holds(k, m + SlotBits)
      BY <1>3, <3>2 DEF IInv, ShiftInv
    <3>4. 1 <= m => adc_data_shr[k] = Bit(slot, m)
      <4>1. 1 <= m => m + SlotBits > SlotBits
        BY <1>3
      <4>2. (m + SlotBits) - SlotBits = m
        BY <1>3
      <4> QED BY <3>3, <4>1, <4>2 DEF Holds
    <3>5. slot' - 1 = slot /\ slot' # 1 /\ ~(m > SlotBits)
      BY <1>3, <2>4, <3>2
    <3> QED BY <1>1, <3>4, <3>5 DEF Holds
  <2> QED BY <1>2, <2>3, <2>4
<1>15. CASE place' = place + 1 /\ slot' = slot /\ codec_lrclk' = codec_lrclk
  <2>1. WrittenInv' /\ UNCHANGED Source!vars
    BY <1>1, <1>15 DEF IInv, WrittenInv, LastInv, Settled, Three, New, Half,
       Source!vars, Source!IsWritten, Source!Ended
  <2> QED BY <1>5, <1>6, <1>9, <1>11, <1>13, <1>14, <2>1 DEF IInv
<1>16. CASE slot < MaxSlots /\ slot' = slot + 1
            /\ codec_lrclk' = 1 - codec_lrclk
  <2>1. ~Settled'
    BY <1>1, <1>3, <1>10, <1>16 DEF Settled, New, Three, Level
  <2>2. written # <<>> => LastInv'
    <3> SUFFICES ASSUME written # <<>> PROVE LastInv'
      OBVIOUS
    <3>1. CASE slot > 1 /\ Source!IsWritten(Source!Ended)
      <4>1. Half \in Channels /\ Source!Other(Half) \in Channels
        BY DEF Half, Source!Other, Channels
      <4>2. slot - 1 \in Nat /\ 0 < slot - 1 /\ slot - 1 < slot' - 1
        BY <1>3, <1>16, <3>1
      <4>3. written[Len(written)] =
              [channel |-> Source!Other(Half), word |-> Source!Word(slot - 1)]
        BY <3>1 DEF Source!IsWritten, Source!Ended
      <4> QED BY <1>1, <4>1, <4>2, <4>3 DEF LastInv, Source!IsWritten
    <3>2. CASE \E s \in Nat, c \in Channels :
                 /\ 0 < s /\ s < slot - 1
                 /\ Source!IsWritten([channel |-> c, word |-> Source!Word(s)])
      <4>1. \A s \in Nat : s < slot - 1 => s < slot' - 1
        BY <1>3, <1>16
      <4> QED BY <1>1, <3>2, <4>1 DEF LastInv, Source!IsWritten
    <3>3. CASE Source!IsWritten([channel |-> "right", word |-> Source!Silent])
      <4>1. slot' > 0 /\ slot' # 1
        BY <1>3, <1>16
      <4> QED BY <1>1, <3>3, <4>1 DEF LastInv, Source!IsWritten
    <3> QED BY <3>1, <3>2, <3>3 DEF IInv, WrittenInv, LastInv
  <2>3. WrittenInv'
    <3>1. first <= slot => first <= slot'
      BY <1>3, <1>16 DEF IInv, TypeInv
    <3> QED BY <1>1, <2>1, <2>2, <3>1 DEF IInv, WrittenInv
  <2>4. Source!NextSlot
    <3>1. slot \in 1 .. MaxSlots - 1
      BY <1>3, <1>16
    <3>2. slot > 1 /\ en /\ first < slot - 1 => Source!IsWritten(Source!Ended)
      <4>1. first < slot - 1 => first < slot
        BY <1>3 DEF IInv, TypeInv
      <4> QED BY <1>10, <4>1 DEF IInv, WrittenInv
    <3>3. Half' = Source!Other(Half)
      BY <1>3, <1>16 DEF Half, Source!Other, Level
    <3> QED BY <1>1, <1>16, <3>1, <3>2, <3>3 DEF Source!NextSlot
  <2> QED BY <1>5, <1>6, <1>9, <1>11, <1>13, <1>14, <2>3, <2>4 DEF IInv
<1> QED BY <1>2, <1>15, <1>16

-----------------------------------------------------------------------------
(* A posedge of clk, first what it does to the shift registers.            *)
LEMMA ClkRegs ==
  ASSUME TypeInv, Clk
  PROVE  /\ UNCHANGED <<codec_lrclk, codec_bclk, codec_sdout, before, slot,
                        place, en, first>>
         /\ slot > 0 => age' = age + 1
         /\ age' \in Nat
         /\ \E l \in Level, b \in Level, d \in Bits :
              /\ l = codec_lrclk \/ (age = 0 /\ l = before[1])
              /\ b = codec_bclk \/ (age = 0 /\ b = before[2])
              /\ d = codec_sdout \/ (age = 0 /\ d = before[3])
              /\ lrclk_shr' \in Seq(Level) /\ Len(lrclk_shr') = 3
              /\ bclk_shr' \in Seq(Level) /\ Len(bclk_shr') = 3
              /\ sdout_shr' \in Seq(Bits) /\ Len(sdout_shr') = 2
              /\ lrclk_shr'[1] = l /\ lrclk_shr'[2] = lrclk_shr[1]
              /\ lrclk_shr'[3] = lrclk_shr[2]
              /\ bclk_shr'[1] = b /\ bclk_shr'[2] = bclk_shr[1]
              /\ bclk_shr'[3] = bclk_shr[2]
              /\ sdout_shr'[1] = d /\ sdout_shr'[2] = sdout_shr[1]
<1>1. /\ UNCHANGED <<codec_lrclk, codec_bclk, codec_sdout, before, slot,
                     place, en, first>>
      /\ slot = 0 \/ age < MaxHalf
      /\ age' = IF age < MaxHalf THEN age + 1 ELSE age
  BY DEF Clk, wires
<1>2. age \in Nat /\ MaxHalf \in Nat /\ slot \in Nat
  BY InterfaceAssumption DEF TypeInv
<1>3. (slot > 0 => age' = age + 1) /\ age' \in Nat
  BY <1>1, <1>2
<1>4. PICK l \in Sampled(1), b \in Sampled(2), d \in Sampled(3) :
        /\ lrclk_shr' = <<l>> \o SubSeq(lrclk_shr, 1, 2)
        /\ bclk_shr' = <<b>> \o SubSeq(bclk_shr, 1, 2)
        /\ sdout_shr' = <<d>> \o SubSeq(sdout_shr, 1, 1)
  BY DEF Clk
<1>5. /\ l = codec_lrclk \/ (age = 0 /\ l = before[1])
      /\ b = codec_bclk \/ (age = 0 /\ b = before[2])
      /\ d = codec_sdout \/ (age = 0 /\ d = before[3])
  BY <1>4 DEF Sampled, wires
<1>6. l \in Level /\ b \in Level /\ d \in Bits
  BY <1>5 DEF TypeInv
<1>7. /\ lrclk_shr' \in Seq(Level) /\ Len(lrclk_shr') = 3
      /\ lrclk_shr'[1] = l /\ lrclk_shr'[2] = lrclk_shr[1]
      /\ lrclk_shr'[3] = lrclk_shr[2]
  <2>1. lrclk_shr \in Seq(Level) /\ Len(lrclk_shr) = 2 + 1
    BY DEF TypeInv
  <2>2. /\ lrclk_shr' \in Seq(Level) /\ Len(lrclk_shr') = 2 + 1
        /\ lrclk_shr'[1] = l
        /\ \A k \in 1 .. 2 : lrclk_shr'[k + 1] = lrclk_shr[k]
    BY <1>4, <1>6, <2>1, ShiftOne
  <2> QED BY <2>2
<1>8. /\ bclk_shr' \in Seq(Level) /\ Len(bclk_shr') = 3
      /\ bclk_shr'[1] = b /\ bclk_shr'[2] = bclk_shr[1]
      /\ bclk_shr'[3] = bclk_shr[2]
  <2>1. bclk_shr \in Seq(Level) /\ Len(bclk_shr) = 2 + 1
    BY DEF TypeInv
  <2>2. /\ bclk_shr' \in Seq(Level) /\ Len(bclk_shr') = 2 + 1
        /\ bclk_shr'[1] = b
        /\ \A k \in 1 .. 2 : bclk_shr'[k + 1] = bclk_shr[k]
    BY <1>4, <1>6, <2>1, ShiftOne
  <2> QED BY <2>2
<1>9. /\ sdout_shr' \in Seq(Bits) /\ Len(sdout_shr') = 2
      /\ sdout_shr'[1] = d /\ sdout_shr'[2] = sdout_shr[1]
  <2>1. sdout_shr \in Seq(Bits) /\ Len(sdout_shr) = 1 + 1
    BY DEF TypeInv
  <2>2. /\ sdout_shr' \in Seq(Bits) /\ Len(sdout_shr') = 1 + 1
        /\ sdout_shr'[1] = d
        /\ \A k \in 1 .. 1 : sdout_shr'[k + 1] = sdout_shr[k]
    BY <1>4, <1>6, <2>1, ShiftOne
  <2> QED BY <2>2
<1> QED BY <1>1, <1>3, <1>5, <1>6, <1>7, <1>8, <1>9

(* A strobe finds the slot before in adc_data_shr, whole.                  *)
LEMMA StrobeFindsWord ==
  ASSUME IInv, AdcValidL \/ AdcValidR
  PROVE  /\ en /\ slot > 0 /\ place = 1
         /\ Three(lrclk_shr) = <<New, New, Old>> /\ ~Settled
         /\ slot = 1 => codec_lrclk = 1
         /\ Strobed = Source!Other(Half)
         /\ AdcData = IF slot = 1 THEN Source!Silent
                      ELSE Source!Word(slot - 1)
<1>1. /\ en /\ lrclk_shr[2] # lrclk_shr[3]
      /\ AdcValidL <=> lrclk_shr[2] = 0
  BY DEF AdcValidL, AdcValidR, Rises, Falls
<1>2. /\ slot > 0
      /\ slot = 1 => codec_lrclk = 1
      /\ place = 1 /\ Three(lrclk_shr) = <<New, New, Old>>
      /\ \/ codec_bclk = 0 /\ age \in {2, 3}
         \/ codec_bclk = 1 /\ age \in {0, 1}
  <2>1. /\ codec_lrclk \in Level /\ codec_bclk \in Level /\ slot \in Nat
        /\ place \in Nat /\ age \in Nat /\ (slot > 0 => place > 0)
    BY DEF IInv, TypeInv, CodecInv
  <2>2. slot > 0 /\ (slot = 1 => codec_lrclk = 1)
        /\ Three(lrclk_shr) \in LrclkSeen
    BY <1>1, <2>1 DEF IInv, LrclkInv, Three, Level
  <2>3. place = 1
    BY <1>1, <2>1, <2>2 DEF LrclkSeen, Three
  <2> QED BY <1>1, <2>1, <2>2, <2>3 DEF LrclkSeen, Three, New, Old, Level
<1>3. Shifted = 0
  <2>1. CASE codec_bclk = 0 /\ age \in {2, 3}
    <3>1. ~Pending
      BY <2>1 DEF IInv, BclkInv, BclkSeen, Three, Pending
    <3>2. place = 1 /\ codec_bclk = 0
      BY <1>2, <2>1
    <3>3. Shifted = (1 - 1) - 0
      BY <3>1, <3>2 DEF Shifted
    <3> QED BY <3>3
  <2>2. CASE codec_bclk = 1 /\ age \in {0, 1}
    <3>1. Pending
      BY <1>2, <2>2 DEF IInv, BclkInv, BclkSeen, Three, Pending, Starts
    <3> QED BY <1>2, <2>2, <3>1 DEF Shifted
  <2> QED BY <1>2, <2>1, <2>2
<1>4. /\ AdcData \in Words
      /\ \A k \in 1 .. DataBits :
           AdcData[k] = IF slot = 1 THEN NoBit ELSE Bit(slot - 1, k)
  <2>1. SlotBits \in Nat /\ DataBits \in 1 .. SlotBits
    BY InterfaceAssumption
  <2>2. \A k \in 1 .. SlotBits :
          adc_data_shr[k] = IF slot = 1 THEN NoBit ELSE Bit(slot - 1, k)
    BY <1>2, <1>3, <2>1 DEF IInv, ShiftInv, Holds
  <2> QED BY <2>1, <2>2, AdcDataElements DEF IInv
<1>5. AdcData = IF slot = 1 THEN Source!Silent ELSE Source!Word(slot - 1)
  BY <1>4 DEF Words, NoBit, Bit, Source!Silent, Source!Word, Source!Bit
<1>6. Strobed = Source!Other(Half)
  BY <1>1, <1>2 DEF Strobed, Source!Other, Half, Three, New, Level, IInv,
     TypeInv
<1>7. ~Settled
  BY <1>1, <1>2 DEF Settled, Three
<1> QED BY <1>1, <1>2, <1>5, <1>6, <1>7

(* The registers after a posedge of clk.                                   *)
LEMMA ClkKeepsRegs ==
  ASSUME IInv, Clk
  PROVE  /\ TypeInv' /\ CodecInv' /\ BclkInv' /\ LrclkInv' /\ DataInv'
         /\ ShiftInv'
<1>1. /\ UNCHANGED <<codec_lrclk, codec_bclk, codec_sdout, before, slot,
                     place, en, first>>
      /\ slot > 0 => age' = age + 1
      /\ age' \in Nat
  BY ClkRegs DEF IInv
<1>2. PICK l \in Level, b \in Level, d \in Bits :
        /\ l = codec_lrclk \/ (age = 0 /\ l = before[1])
        /\ b = codec_bclk \/ (age = 0 /\ b = before[2])
        /\ d = codec_sdout \/ (age = 0 /\ d = before[3])
        /\ lrclk_shr' \in Seq(Level) /\ Len(lrclk_shr') = 3
        /\ bclk_shr' \in Seq(Level) /\ Len(bclk_shr') = 3
        /\ sdout_shr' \in Seq(Bits) /\ Len(sdout_shr') = 2
        /\ lrclk_shr'[1] = l /\ lrclk_shr'[2] = lrclk_shr[1]
        /\ lrclk_shr'[3] = lrclk_shr[2]
        /\ bclk_shr'[1] = b /\ bclk_shr'[2] = bclk_shr[1]
        /\ bclk_shr'[3] = bclk_shr[2]
        /\ sdout_shr'[1] = d /\ sdout_shr'[2] = sdout_shr[1]
  BY ClkRegs DEF IInv
<1>3. /\ codec_lrclk \in Level /\ codec_bclk \in Level /\ codec_sdout \in Bits
      /\ slot \in Nat /\ place \in Nat /\ place <= SlotBits /\ age \in Nat
      /\ adc_data_shr \in [1 .. SlotBits -> Bits]
      /\ SlotBits \in Nat \ {0}
      /\ slot > 0 => place > 0
  BY InterfaceAssumption DEF IInv, TypeInv, CodecInv
<1>4. /\ adc_data_shr' \in [1 .. SlotBits -> Bits]
      /\ Rises(bclk_shr) =>
           \A k \in 1 .. SlotBits :
             adc_data_shr'[k] =
               (IF k = SlotBits THEN sdout_shr[2] ELSE adc_data_shr[k + 1])
      /\ ~Rises(bclk_shr) => adc_data_shr' = adc_data_shr
  <2>1. sdout_shr[2] \in Bits
    <3>1. sdout_shr \in Seq(Bits) /\ Len(sdout_shr) = 2
      BY DEF IInv, TypeInv
    <3> QED BY <3>1
  <2>2. adc_data_shr' = IF Rises(bclk_shr)
                        THEN ShiftIn(adc_data_shr, sdout_shr[2])
                        ELSE adc_data_shr
    BY DEF Clk
  <2> QED BY <1>3, <2>1, <2>2, ShiftInElements
<1>5. written' \in Seq(Samples)
  <2>1. [channel |-> Strobed, word |-> AdcData] \in Samples
    BY AdcDataElements DEF IInv, Strobed, Channels, Samples
  <2>2. written \in Seq(Samples)
    BY DEF IInv, TypeInv
  <2>3. \/ written' = written
        \/ written' = Append(written, [channel |-> Strobed, word |-> AdcData])
    BY DEF Clk
  <2> QED BY <2>1, <2>2, <2>3
<1>6. TypeInv'
  BY <1>1, <1>2, <1>4, <1>5 DEF IInv, TypeInv
<1>7. CodecInv'
  BY <1>1 DEF IInv, CodecInv, Starts, wires
<1>8. \/ /\ codec_bclk = 1 /\ slot > 0 /\ ~Starts
         /\ Three(bclk_shr) \in BclkSeen
      \/ /\ codec_bclk = 0 /\ (slot = 0 \/ Starts)
         /\ Three(bclk_shr) = <<0, 0, 0>>
      \/ /\ codec_bclk = 0 /\ slot > 0 /\ ~Starts
         /\ Three(bclk_shr) \in BclkSeen
  BY <1>3 DEF IInv, BclkInv, CodecInv, Starts, Level
<1>9. b = codec_bclk \/ (age = 0 /\ slot > 0 /\ ~Starts /\ b = 1 - codec_bclk)
  BY <1>2, <1>3 DEF IInv, CodecInv, Starts, wires, Level
<1>10. BclkInv' /\ (~Rises(bclk_shr) => (Pending' <=> Pending))
       /\ (Rises(bclk_shr) => Pending /\ ~Pending')
       /\ (b = 1 /\ bclk_shr[1] = 0 => codec_bclk = 1)
  <2>1. Starts' <=> Starts
    BY <1>1 DEF Starts
  <2>2. CASE codec_bclk = 0 /\ (slot = 0 \/ Starts)
    BY <1>1, <1>2, <1>8, <1>9, <2>1, <2>2
       DEF BclkInv, BclkSeen, Three, Pending, Rises, Starts
  <2>3. CASE slot > 0 /\ ~Starts /\ codec_bclk = 1
    <3>1. Three(bclk_shr) \in BclkSeen /\ age' = age + 1
      BY <1>1, <1>8, <2>3
    <3>2. CASE age = 0
      BY <1>1, <1>2, <1>3, <1>9, <2>1, <2>3, <3>1, <3>2
         DEF BclkInv, BclkSeen, Three, Pending, Rises
    <3>3. CASE age \in {1, 2, 3}
      BY <1>1, <1>2, <1>3, <1>9, <2>1, <2>3, <3>1, <3>3
         DEF BclkInv, BclkSeen, Three, Pending, Rises
    <3>4. CASE age > 3
      BY <1>1, <1>2, <1>3, <1>9, <2>1, <2>3, <3>1, <3>4
         DEF BclkInv, BclkSeen, Three, Pending, Rises
    <3> QED BY <1>3, <3>2, <3>3, <3>4
  <2>4. CASE slot > 0 /\ ~Starts /\ codec_bclk = 0
    <3>1. Three(bclk_shr) \in BclkSeen /\ age' = age + 1
      BY <1>1, <1>8, <2>4
    <3>2. CASE age = 0
      BY <1>1, <1>2, <1>3, <1>9, <2>1, <2>4, <3>1, <3>2
         DEF BclkInv, BclkSeen, Three, Pending, Rises
    <3>3. CASE age \in {1, 2, 3}
      BY <1>1, <1>2, <1>3, <1>9, <2>1, <2>4, <3>1, <3>3
         DEF BclkInv, BclkSeen, Three, Pending, Rises
    <3>4. CASE age > 3
      BY <1>1, <1>2, <1>3, <1>9, <2>1, <2>4, <3>1, <3>4
         DEF BclkInv, BclkSeen, Three, Pending, Rises
    <3> QED BY <1>3, <3>2, <3>3, <3>4
  <2> QED BY <1>8, <2>2, <2>3, <2>4
<1>11. LrclkInv'
  <2>1. CASE slot = 0 \/ (slot = 1 /\ codec_lrclk = 0)
    <3>1. l = 0
      <4>1. CASE slot = 0
        BY <1>2, <4>1 DEF IInv, CodecInv, wires
      <4>2. CASE slot = 1 /\ codec_lrclk = 0
        BY <1>2, <1>3, <4>2 DEF IInv, CodecInv, Starts, Level
      <4> QED BY <2>1, <4>1, <4>2
    <3> QED BY <1>1, <1>2, <2>1, <3>1 DEF IInv, LrclkInv, Three
  <2>2. CASE slot > 0 /\ ~(slot = 1 /\ codec_lrclk = 0)
    <3>1. Three(lrclk_shr) \in LrclkSeen /\ age' = age + 1
      BY <1>1, <1>3, <2>2 DEF IInv, LrclkInv
    <3>2. \/ l = codec_lrclk
          \/ age = 0 /\ place = 1 /\ codec_bclk = 0 /\ l = 1 - codec_lrclk
      BY <1>2, <1>3, <2>2 DEF IInv, CodecInv, Starts, Level
    <3>3. CASE place > 1
      BY <1>1, <1>2, <2>2, <3>1, <3>2, <3>3
         DEF LrclkInv, LrclkSeen, Three, New, Old
    <3>4. CASE place = 1 /\ codec_bclk = 0
      BY <1>1, <1>2, <1>3, <2>2, <3>1, <3>2, <3>4
         DEF LrclkInv, LrclkSeen, Three, New, Old, Level
    <3>5. CASE place = 1 /\ codec_bclk = 1
      BY <1>1, <1>2, <1>3, <2>2, <3>1, <3>2, <3>5
         DEF LrclkInv, LrclkSeen, Three, New, Old, Level
    <3> QED BY <1>3, <2>2, <3>3, <3>4, <3>5 DEF Level
  <2> QED BY <1>3, <2>1, <2>2
<1>12. DataInv'
  <2>1. Risen' = Risen
    BY <1>1 DEF Risen
  <2>2. b = 1 /\ bclk_shr[1] = 0 => d = Risen
    <3> SUFFICES ASSUME b = 1, bclk_shr[1] = 0 PROVE d = Risen
      OBVIOUS
    <3>1. codec_bclk = 1 /\ codec_sdout = Bit(slot, place)
      BY <1>10 DEF IInv, CodecInv
    <3>2. slot > 0 /\ before[3] = codec_sdout
      BY <1>3, <3>1 DEF IInv, CodecInv
    <3> QED BY <1>2, <3>1, <3>2 DEF Risen
  <2> QED BY <1>2, <2>1, <2>2 DEF IInv, DataInv
<1>13. ShiftInv'
  <2>1. CASE ~Rises(bclk_shr)
    <3>1. Shifted' = Shifted
      BY <1>1, <1>10, <2>1 DEF Shifted
    <3> QED BY <1>1, <1>4, <2>1, <3>1 DEF IInv, ShiftInv, Holds
  <2>2. CASE Rises(bclk_shr)
    <3>1. slot > 0 /\ ~Starts /\ sdout_shr[2] = Risen
      BY <1>3, <1>8, <2>2 DEF Rises, Three, IInv, DataInv, BclkInv
    <3>2. PICK q \in {0, 1} : /\ q = IF codec_bclk = 1 THEN 0 ELSE 1
                              /\ Shifted = place - q - 1
                              /\ Shifted' = place - q
      BY <1>1, <1>3, <1>10, <2>2 DEF Shifted
    <3>3. /\ Risen = IF place - q > 0 THEN Bit(slot, place - q)
                     ELSE Bit(slot - 1, SlotBits)
          /\ place - q > 0 \/ slot > 1
      BY <1>3, <3>1, <3>2 DEF Risen, Starts, Level
    <3> SUFFICES ASSUME NEW k \in 1 .. SlotBits, NEW m \in Int,
                        m = k + Shifted'
                 PROVE  Holds(k, m)'
      <4>1. \A i \in 1 .. SlotBits : i + Shifted' \in Int
        BY <1>3, <3>2
      <4>2. slot' # 0
        BY <1>1, <1>3, <3>1
      <4> QED BY <4>1, <4>2 DEF ShiftInv, Holds
    <3>4. CASE k < SlotBits
      <4>1. k + 1 \in 1 .. SlotBits /\ m = (k + 1) + Shifted
        BY <1>3, <3>2, <3>4
      <4>2. adc_data_shr'[k] = adc_data_shr[k + 1]
        BY <1>3, <1>4, <2>2, <3>4
      <4>3. Holds(k + 1, (k + 1) + Shifted)
        BY <1>3, <3>1, <4>1 DEF IInv, ShiftInv, Holds
      <4>4. Holds(k + 1, m)
        BY <4>1, <4>3
      <4> QED BY <1>1, <4>2, <4>4 DEF Holds
    <3>5. CASE k = SlotBits
      <4>1. adc_data_shr'[k] = Risen
        BY <1>4, <2>2, <3>1, <3>5
      <4>2. CASE place - q > 0
        <5>1. m > SlotBits /\ m - SlotBits = place - q
          BY <1>3, <3>2, <3>5, <4>2
        <5>2. ~(m <= SlotBits)
          BY <1>3, <5>1
        <5> QED BY <1>1, <3>3, <4>1, <4>2, <5>1, <5>2 DEF Holds
      <4>3. CASE ~(place - q > 0)
        <5>1. m = SlotBits /\ ~(m > SlotBits) /\ slot # 1
          BY <1>3, <3>1, <3>2, <3>3, <3>5, <4>3
        <5> QED BY <1>1, <3>3, <4>1, <4>3, <5>1 DEF Holds
      <4> QED BY <4>2, <4>3
    <3> QED BY <1>3, <3>4, <3>5
  <2> QED BY <2>1, <2>2
<1> QED BY <1>6, <1>7, <1>10, <1>11, <1>12, <1>13

(* Words of two slots differ, and none is silence.                         *)
LEMMA WordsDiffer ==
  ASSUME NEW s \in Nat, NEW t \in Nat, s # t
  PROVE  /\ Source!Word(s) # Source!Word(t)
         /\ Source!Word(s) # Source!Silent
<1>1. 1 \in 1 .. DataBits
  BY InterfaceAssumption
<1>2. /\ Source!Word(s)[1] = <<s, 1>> /\ Source!Word(t)[1] = <<t, 1>>
      /\ Source!Silent[1] = <<0, 0>>
  BY <1>1 DEF Source!Word, Source!Silent, Source!Bit
<1>3. <<s, 1>> # <<t, 1>> /\ <<s, 1>> # <<0, 0>>
  OBVIOUS
<1> QED BY <1>2, <1>3

(* The word clock settles by the posedge of clk that finds a strobe up.    *)
LEMMA Settling ==
  ASSUME IInv, Clk
  PROVE  /\ Settled => Settled'
         /\ Settled' /\ ~Settled => AdcValidL \/ AdcValidR \/ ~en
         /\ AdcValidL \/ AdcValidR => Settled'
<1>1. UNCHANGED <<codec_lrclk, slot, place>>
  BY ClkRegs DEF IInv
<1>2. PICK l \in Level :
        /\ l = codec_lrclk \/ (age = 0 /\ l = before[1])
        /\ Three(lrclk_shr)' = <<l, lrclk_shr[1], lrclk_shr[2]>>
  BY ClkRegs DEF IInv, Three
<1>3. /\ codec_lrclk \in Level /\ codec_bclk \in Level
      /\ slot \in Nat /\ place \in Nat /\ age \in Nat
      /\ slot > 0 => place > 0
  BY DEF IInv, TypeInv, CodecInv
<1>4. CASE slot = 0 \/ (slot = 1 /\ codec_lrclk = 0)
  <2>1. Three(lrclk_shr) = <<0, 0, 0>> /\ codec_lrclk = 0
    BY <1>4 DEF IInv, LrclkInv, CodecInv
  <2>2. (Three(lrclk_shr) = <<0, 0, 0>>)'
    BY <1>1, <1>4, ClkKeepsRegs DEF LrclkInv
  <2>3. Settled /\ Settled'
    BY <1>1, <2>1, <2>2 DEF Settled, New
  <2> QED BY <2>3
<1>5. CASE slot > 0 /\ ~(slot = 1 /\ codec_lrclk = 0)
  <2>1. Three(lrclk_shr) \in LrclkSeen
    BY <1>5 DEF IInv, LrclkInv
  <2>2. \/ l = codec_lrclk
        \/ age = 0 /\ place = 1 /\ codec_bclk = 0 /\ l = 1 - codec_lrclk
    BY <1>2, <1>3, <1>5 DEF IInv, CodecInv, Starts, Level
  <2>3. Settled => Settled'
    <3>1. CASE l = codec_lrclk
      BY <1>1, <1>2, <3>1 DEF Settled, New, Three
    <3>2. CASE age = 0 /\ place = 1 /\ codec_bclk = 0
      BY <1>3, <2>1, <3>2 DEF LrclkSeen, Settled, Three, New, Old, Level
    <3> QED BY <2>2, <3>1, <3>2
  <2>4. Settled' /\ ~Settled => AdcValidL \/ AdcValidR \/ ~en
    <3> SUFFICES ASSUME Settled', ~Settled, en PROVE AdcValidL \/ AdcValidR
      OBVIOUS
    <3>1. lrclk_shr[1] = New /\ lrclk_shr[2] = New
      BY <1>1, <1>2 DEF Settled, New, Three
    <3>2. lrclk_shr[3] = Old
      BY <1>3, <2>1, <3>1 DEF LrclkSeen, Settled, New, Old, Three, Level
    <3> QED BY <1>3, <3>1, <3>2
            DEF AdcValidL, AdcValidR, Rises, Falls, New, Old, Level
  <2>5. AdcValidL \/ AdcValidR => Settled'
    <3> SUFFICES ASSUME AdcValidL \/ AdcValidR PROVE Settled'
      OBVIOUS
    <3>1. Three(lrclk_shr) = <<New, New, Old>>
      BY StrobeFindsWord
    <3>2. l = codec_lrclk
      BY <1>3, <2>1, <2>2, <3>1 DEF LrclkSeen, New, Old, Level
    <3> QED BY <1>1, <1>2, <3>1, <3>2 DEF Settled, New, Three
  <2> QED BY <2>3, <2>4, <2>5
<1> QED BY <1>3, <1>4, <1>5

(* And what it writes.                                                     *)
LEMMA ClkStep ==
  IInv /\ Clk =>
    /\ IInv'
    /\ Source!Write \/ Source!WriteSilence \/ UNCHANGED Source!vars
<1> SUFFICES ASSUME IInv, Clk
             PROVE  /\ WrittenInv'
                    /\ \/ Source!Write \/ Source!WriteSilence
                       \/ UNCHANGED Source!vars
  BY ClkKeepsRegs DEF IInv
<1>1. /\ UNCHANGED <<codec_lrclk, slot, en, first>>
      /\ Half' = Half /\ New' = New
  BY ClkRegs DEF IInv, Half, New
<1>2. slot \in Nat /\ first \in Nat /\ written \in Seq(Samples)
  BY DEF IInv, TypeInv
<1>3. CASE ~(AdcValidL \/ AdcValidR)
  <2>1. written' = written
    BY <1>3 DEF Clk
  <2>2. UNCHANGED Source!vars
    BY <1>1, <2>1 DEF Source!vars
  <2>3. (Settled => Settled') /\ (en /\ Settled' => Settled)
    BY <1>3, Settling
  <2>4. LastInv => LastInv'
    BY <1>1, <2>1, <2>3 DEF LastInv, Source!IsWritten, Source!Ended
  <2>5. WrittenInv'
    BY <1>1, <2>1, <2>3, <2>4
       DEF IInv, WrittenInv, Source!IsWritten, Source!Ended
  <2> QED BY <2>2, <2>5
<1>4. CASE AdcValidL \/ AdcValidR
  <2>1. /\ en /\ slot > 0 /\ ~Settled
        /\ slot = 1 => codec_lrclk = 1
        /\ Strobed = Source!Other(Half)
        /\ AdcData = IF slot = 1 THEN Source!Silent ELSE Source!Word(slot - 1)
    BY <1>4, StrobeFindsWord
  <2> DEFINE sample == [channel |-> Strobed, word |-> AdcData]
  <2>2. written' = Append(written, sample)
    BY <1>4 DEF Clk
  <2>3. written' # <<>> /\ written'[Len(written')] = sample
    <3>1. sample \in Samples
      BY AdcDataElements DEF IInv, Strobed, Channels, Samples
    <3> HIDE DEF sample
    <3>2. /\ Append(written, sample) \in Seq(Samples)
          /\ Len(Append(written, sample)) = Len(written) + 1
          /\ Len(written) \in Nat
          /\ Append(written, sample)[Len(written) + 1] = sample
      BY <1>2, <3>1
    <3>3. Append(written, sample) # <<>>
      BY <3>2
    <3> QED BY <2>2, <3>2, <3>3
  <2>4. Settled'
    BY <1>4, Settling
  <2>5. first <= slot
    BY <2>1 DEF IInv, WrittenInv
  <2>6. CASE slot = 1
    <3>1. /\ Half = "left"
          /\ sample = [channel |-> "right", word |-> Source!Silent]
      BY <2>1, <2>6 DEF Half, Source!Other
    <3>2. written = <<>>
      <4>1. ~LastInv
        <5>1. ~(slot > 1) /\ \A s \in Nat : ~(0 < s /\ s < slot - 1)
          BY <2>6
        <5> QED BY <2>1, <2>6, <5>1 DEF LastInv
      <4> QED BY <4>1 DEF IInv, WrittenInv
    <3>3. Source!WriteSilence
      <4>1. written' = <<sample>>
        BY <2>2, <3>2
      <4> QED BY <1>1, <2>1, <2>6, <3>1, <3>2, <4>1 DEF Source!WriteSilence
    <3>4. LastInv'
      BY <1>1, <2>3, <2>4, <2>6, <3>1 DEF LastInv, Source!IsWritten
    <3>5. ~(slot > 1)
      BY <2>6
    <3> QED BY <1>1, <2>1, <2>5, <3>3, <3>4, <3>5 DEF WrittenInv
  <2>7. CASE slot > 1
    <3>1. sample = Source!Ended
      BY <1>2, <2>1, <2>7 DEF Source!Ended
    <3>2. ~Source!IsWritten(Source!Ended)
      <4> SUFFICES ASSUME Source!IsWritten(Source!Ended) PROVE FALSE
        OBVIOUS
      <4>1. /\ written # <<>>
            /\ written[Len(written)].word = Source!Word(slot - 1)
        BY DEF Source!IsWritten, Source!Ended
      <4>2. LastInv
        BY <4>1 DEF IInv, WrittenInv
      <4>3. CASE \E s \in Nat, c \in Channels :
                   /\ 0 < s /\ s < slot - 1
                   /\ Source!IsWritten([channel |-> c,
                                        word |-> Source!Word(s)])
        <5>1. PICK s \in Nat, c \in Channels :
                /\ 0 < s /\ s < slot - 1
                /\ Source!IsWritten([channel |-> c, word |-> Source!Word(s)])
          BY <4>3
        <5>2. written[Len(written)].word = Source!Word(s)
          BY <5>1 DEF Source!IsWritten
        <5>3. slot - 1 \in Nat /\ s # slot - 1
          BY <1>2, <2>7, <5>1
        <5> QED BY <4>1, <5>2, <5>3, WordsDiffer
      <4>4. CASE Source!IsWritten([channel |-> "right",
                                   word |-> Source!Silent])
        <5>1. written[Len(written)].word = Source!Silent
          BY <4>4 DEF Source!IsWritten
        <5>2. slot - 1 \in Nat /\ slot - 1 # slot /\ slot \in Nat
          BY <1>2, <2>7
        <5> QED BY <4>1, <5>1, <5>2, WordsDiffer
      <4> QED BY <2>1, <4>2, <4>3, <4>4 DEF LastInv
    <3>3. Source!Write
      BY <1>1, <2>1, <2>2, <2>7, <3>1, <3>2 DEF Source!Write
    <3>4. Source!Ended' = Source!Ended
      BY <1>1 DEF Source!Ended
    <3>5. Source!IsWritten(Source!Ended)'
      BY <2>3, <3>1, <3>4 DEF Source!IsWritten
    <3>6. LastInv'
      BY <1>1, <2>4, <2>7, <3>5 DEF LastInv
    <3> QED BY <1>1, <2>1, <2>5, <3>3, <3>5, <3>6 DEF WrittenInv
  <2> QED BY <1>2, <2>1, <2>6, <2>7
<1> QED BY <1>3, <1>4

-----------------------------------------------------------------------------
LEMMA Stutter == IInv /\ UNCHANGED vars => IInv' /\ UNCHANGED Source!vars
<1> SUFFICES ASSUME IInv, UNCHANGED vars
             PROVE  IInv' /\ UNCHANGED Source!vars
  OBVIOUS
<1>1. /\ UNCHANGED <<wires, codec_lrclk, codec_bclk, codec_sdout, before, age,
                     slot, place, lrclk_shr, bclk_shr, sdout_shr,
                     adc_data_shr, en, first, written>>
  BY DEF vars, codecVars, wires, regs
<1>2. TypeInv' /\ CodecInv' /\ BclkInv'
  BY <1>1 DEF IInv, TypeInv, CodecInv, BclkInv, BclkSeen, Starts, Three
<1>3. LrclkInv' /\ DataInv' /\ ShiftInv'
  BY <1>1 DEF IInv, LrclkInv, LrclkSeen, New, Old, Three, DataInv, ShiftInv,
     Holds, Shifted, Pending, Risen
<1>4. WrittenInv' /\ UNCHANGED Source!vars
  BY <1>1 DEF IInv, WrittenInv, LastInv, Settled, Three, New, Half,
     Source!vars, Source!IsWritten, Source!Ended
<1> QED BY <1>2, <1>3, <1>4 DEF IInv

(* Wherever the codec's edges fall between those of clk, the receiver      *)
(* writes the word of every slot that is sent with en up, whole, once, in  *)
(* order, to the FIFO of its channel, before the next slot ends: adc_data  *)
(* is read where a strobe finds it (audio_interface.v).                    *)
THEOREM ReceiverDelivers == Spec => DeliversSamples
<1>1. Init => IInv /\ Source!Init
  BY InitInv, InitImplements
<1>2. IInv /\ [Next]_vars => IInv' /\ [Source!Next]_(Source!vars)
  BY PowerUpStep, BclkRiseStep, BclkFallStep, ClkStep, EnableStep, Stutter
     DEF Next, Source!Next
<1>3. Spec => Source!Init /\ [][Source!Next]_(Source!vars)
  BY <1>1, <1>2, PTL DEF Spec
<1> QED BY <1>3 DEF DeliversSamples, Source!Spec
=============================================================================
