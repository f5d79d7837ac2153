------------------------- MODULE CapturePathProofs -------------------------
(***************************************************************************)
(* The safety of the capture path, for every depth of the FIFOs, size of a *)
(* block, program and speed of the core: first that the channels stay      *)
(* together through FIFOs that lose samples on their own, then the types,  *)
(* the packets that reach the engine, and the order of initialisation.     *)
(***************************************************************************)
EXTENDS CapturePath, SequenceTheorems, TLAPS

InType ==
  /\ fifo_l \in Seq(Nat) /\ Len(fifo_l) <= InDepth
  /\ fifo_r \in Seq(Nat) /\ Len(fifo_r) <= InDepth
  /\ frame \in Nat
  /\ half \in {"left", "right"}

(* No sample is written before en rises.                                   *)
Quiet == ~en => fifo_l = <<>> /\ fifo_r = <<>> /\ ~rightFirst
                  /\ half = "left"

(* At most one sample waits for its partner, it is of the current frame,   *)
(* and the channel the codec sends next is the one that lacks it.          *)
Balance ==
  /\ half = "left" => \/ Len(fifo_l) = Len(fifo_r)
                      \/ /\ Len(fifo_r) = Len(fifo_l) + 1
                         /\ fifo_r[Len(fifo_r)] = frame
  /\ half = "right" => \/ Len(fifo_l) = Len(fifo_r)
                       \/ /\ Len(fifo_l) = Len(fifo_r) + 1
                          /\ fifo_l[Len(fifo_l)] = frame

(* The same without overflow, started in a left half.                      *)
Lossless ==
  ~dropped /\ ~rightFirst =>
    /\ half = "left" => Len(fifo_l) = Len(fifo_r)
    /\ half = "right" => Len(fifo_l) = Len(fifo_r) + 1
    /\ PairsOfOneFrame

SkewInv == InType /\ Quiet /\ Balance /\ SkewAtMostOne /\ Lossless

LEMMA InitInv == Init => SkewInv
BY PathAssumption, EmptySeq
   DEF Init, SkewInv, InType, Quiet, Balance, SkewAtMostOne, Lossless,
       PairsOfOneFrame, Pairs

(* What an accepted write does to a FIFO.                                  *)
LEMMA WriteProperties ==
  ASSUME NEW fifo \in Seq(Nat), NEW sample \in Nat, Len(fifo) <= InDepth
  PROVE  /\ Write(fifo, sample) \in Seq(Nat)
         /\ Len(Write(fifo, sample)) <= InDepth
         /\ Len(fifo) = InDepth => Write(fifo, sample) = fifo
         /\ Len(fifo) # InDepth =>
              /\ Len(Write(fifo, sample)) = Len(fifo) + 1
              /\ Write(fifo, sample)[Len(fifo) + 1] = sample
         /\ \A i \in 1 .. Len(fifo) : Write(fifo, sample)[i] = fifo[i]
<1>1. CASE Len(fifo) < InDepth
  <2>1. /\ Append(fifo, sample) \in Seq(Nat)
        /\ Len(Append(fifo, sample)) = Len(fifo) + 1
        /\ \A i \in 1 .. Len(fifo) : Append(fifo, sample)[i] = fifo[i]
        /\ Append(fifo, sample)[Len(fifo) + 1] = sample
    BY AppendProperties
  <2>2. Len(fifo) \in Nat /\ InDepth \in Nat
    BY LenProperties, PathAssumption
  <2>3. Write(fifo, sample) = Append(fifo, sample)
    BY <1>1 DEF Write
  <2>4. QED BY <1>1, <2>1, <2>2, <2>3
<1>2. CASE ~(Len(fifo) < InDepth)
  <2>1. Len(fifo) \in Nat /\ InDepth \in Nat
    BY LenProperties, PathAssumption
  <2>2. Write(fifo, sample) = fifo
    BY <1>2 DEF Write
  <2>3. QED BY <1>2, <2>1, <2>2
<1>3. QED BY <1>1, <1>2

LEMMA StrobeLeftInv == SkewInv /\ StrobeLeft => SkewInv'
<1> SUFFICES ASSUME SkewInv, StrobeLeft PROVE SkewInv'
  OBVIOUS
<1>t. /\ fifo_l \in Seq(Nat) /\ Len(fifo_l) \in Nat
      /\ fifo_r \in Seq(Nat) /\ Len(fifo_r) \in Nat
      /\ Len(fifo_l) <= InDepth /\ Len(fifo_r) <= InDepth
      /\ InDepth \in Nat /\ frame \in Nat
  BY LenProperties, PathAssumption DEF SkewInv, InType
<1>0. /\ half = "left" /\ half' = "right" /\ frame' = frame + 1 /\ en /\ en'
      /\ fifo_l' = Write(fifo_l, frame + 1) /\ fifo_r' = fifo_r
      /\ dropped' = (dropped \/ Len(fifo_l) = InDepth)
      /\ rightFirst' = rightFirst
  BY DEF StrobeLeft
<1>w. /\ fifo_l' \in Seq(Nat) /\ Len(fifo_l') <= InDepth
      /\ Len(fifo_l) = InDepth => fifo_l' = fifo_l
      /\ Len(fifo_l) # InDepth => /\ Len(fifo_l') = Len(fifo_l) + 1
                                  /\ fifo_l'[Len(fifo_l) + 1] = frame + 1
      /\ \A i \in 1 .. Len(fifo_l) : fifo_l'[i] = fifo_l[i]
  BY <1>t, <1>0, WriteProperties
<1>1. InType' /\ Quiet'
  BY <1>t, <1>0, <1>w DEF InType, Quiet
<1>2. \/ Len(fifo_l) = Len(fifo_r)
      \/ Len(fifo_r) = Len(fifo_l) + 1 /\ fifo_r[Len(fifo_r)] = frame
  BY <1>0 DEF SkewInv, Balance
<1>3. Balance'
  BY <1>t, <1>0, <1>w, <1>2 DEF Balance
<1>4. ASSUME NEW i \in Pairs', i \notin Pairs
      PROVE  fifo_l'[i] = frame + 1 /\ fifo_r'[i] = frame
             /\ Len(fifo_r) = Len(fifo_l) + 1
  <2>1. i \in 1 .. Len(fifo_l') /\ i \in 1 .. Len(fifo_r)
        /\ i \notin 1 .. Len(fifo_l)
    BY <1>4, <1>0 DEF Pairs
  <2>2. Len(fifo_l) # InDepth
    BY <2>1, <1>w
  <2>3. i = Len(fifo_l) + 1 /\ fifo_l'[i] = frame + 1
    BY <2>1, <2>2, <1>w, <1>t
  <2>4. QED BY <2>1, <2>3, <1>2, <1>0, <1>t
<1>5. ASSUME NEW i \in Pairs' \intersect Pairs
      PROVE  fifo_l'[i] = fifo_l[i] /\ fifo_r'[i] = fifo_r[i]
  BY <1>0, <1>w DEF Pairs
<1>6. SkewAtMostOne'
  <2> SUFFICES ASSUME NEW i \in Pairs'
               PROVE  fifo_l'[i] - fifo_r'[i] \in {0, 1}
    BY DEF SkewAtMostOne
  <2>1. CASE i \in Pairs
    BY <2>1, <1>5 DEF SkewInv, SkewAtMostOne
  <2>2. CASE i \notin Pairs
    BY <2>2, <1>4, <1>t
  <2>3. QED BY <2>1, <2>2
<1>7. Lossless'
  <2> SUFFICES ASSUME ~dropped', ~rightFirst'
               PROVE  /\ Len(fifo_l') = Len(fifo_r') + 1
                      /\ \A i \in Pairs' : fifo_l'[i] = fifo_r'[i]
    BY <1>0 DEF Lossless, PairsOfOneFrame
  <2>1. ~dropped /\ Len(fifo_l) # InDepth
    BY <1>0
  <2>2. /\ Len(fifo_l) = Len(fifo_r)
        /\ \A i \in Pairs : fifo_l[i] = fifo_r[i]
    BY <2>1, <1>0 DEF SkewInv, Lossless, PairsOfOneFrame
  <2>3. Pairs' \subseteq Pairs
    BY <1>4, <2>2, <1>t
  <2>4. QED BY <2>1, <2>2, <2>3, <1>5, <1>w, <1>0
<1>8. QED BY <1>1, <1>3, <1>6, <1>7 DEF SkewInv

LEMMA StrobeRightInv == SkewInv /\ StrobeRight => SkewInv'
<1> SUFFICES ASSUME SkewInv, StrobeRight PROVE SkewInv'
  OBVIOUS
<1>t. /\ fifo_l \in Seq(Nat) /\ Len(fifo_l) \in Nat
      /\ fifo_r \in Seq(Nat) /\ Len(fifo_r) \in Nat
      /\ Len(fifo_l) <= InDepth /\ Len(fifo_r) <= InDepth
      /\ InDepth \in Nat /\ frame \in Nat
  BY LenProperties, PathAssumption DEF SkewInv, InType
<1>0. /\ half = "right" /\ half' = "left" /\ frame' = frame /\ en /\ en'
      /\ fifo_r' = Write(fifo_r, frame) /\ fifo_l' = fifo_l
      /\ dropped' = (dropped \/ Len(fifo_r) = InDepth)
      /\ rightFirst' = rightFirst
  BY DEF StrobeRight
<1>w. /\ fifo_r' \in Seq(Nat) /\ Len(fifo_r') <= InDepth
      /\ Len(fifo_r) = InDepth => fifo_r' = fifo_r
      /\ Len(fifo_r) # InDepth => /\ Len(fifo_r') = Len(fifo_r) + 1
                                  /\ fifo_r'[Len(fifo_r) + 1] = frame
      /\ \A i \in 1 .. Len(fifo_r) : fifo_r'[i] = fifo_r[i]
  BY <1>t, <1>0, WriteProperties
<1>1. InType' /\ Quiet'
  BY <1>t, <1>0, <1>w DEF InType, Quiet
<1>2. \/ Len(fifo_l) = Len(fifo_r)
      \/ Len(fifo_l) = Len(fifo_r) + 1 /\ fifo_l[Len(fifo_l)] = frame
  BY <1>0 DEF SkewInv, Balance
<1>3. Balance'
  BY <1>t, <1>0, <1>w, <1>2 DEF Balance
<1>4. ASSUME NEW i \in Pairs', i \notin Pairs
      PROVE  fifo_r'[i] = frame /\ fifo_l'[i] = frame
  <2>1. i \in 1 .. Len(fifo_r') /\ i \in 1 .. Len(fifo_l)
        /\ i \notin 1 .. Len(fifo_r)
    BY <1>4, <1>0 DEF Pairs
  <2>2. Len(fifo_r) # InDepth
    BY <2>1, <1>w
  <2>3. i = Len(fifo_r) + 1 /\ fifo_r'[i] = frame
    BY <2>1, <2>2, <1>w, <1>t
  <2>4. QED BY <2>1, <2>3, <1>2, <1>0, <1>t
<1>5. ASSUME NEW i \in Pairs' \intersect Pairs
      PROVE  fifo_l'[i] = fifo_l[i] /\ fifo_r'[i] = fifo_r[i]
  BY <1>0, <1>w DEF Pairs
<1>6. SkewAtMostOne'
  <2> SUFFICES ASSUME NEW i \in Pairs'
               PROVE  fifo_l'[i] - fifo_r'[i] \in {0, 1}
    BY DEF SkewAtMostOne
  <2>1. CASE i \in Pairs
    BY <2>1, <1>5 DEF SkewInv, SkewAtMostOne
  <2>2. CASE i \notin Pairs
    BY <2>2, <1>4, <1>t
  <2>3. QED BY <2>1, <2>2
<1>7. Lossless'
  <2> SUFFICES ASSUME ~dropped', ~rightFirst'
               PROVE  /\ Len(fifo_l') = Len(fifo_r')
                      /\ \A i \in Pairs' : fifo_l'[i] = fifo_r'[i]
    BY <1>0 DEF Lossless, PairsOfOneFrame
  <2>1. ~dropped /\ Len(fifo_r) # InDepth
    BY <1>0
  <2>2. /\ Len(fifo_l) = Len(fifo_r) + 1
        /\ \A i \in Pairs : fifo_l[i] = fifo_r[i]
    BY <2>1, <1>0 DEF SkewInv, Lossless, PairsOfOneFrame
  <2>3. ASSUME NEW i \in Pairs'
        PROVE  fifo_l'[i] = fifo_r'[i]
    BY <2>2, <1>4, <1>5
  <2>4. QED BY <2>1, <2>2, <2>3, <1>w, <1>0
<1>8. QED BY <1>1, <1>3, <1>6, <1>7 DEF SkewInv

LEMMA TakePairInv == SkewInv /\ TakePair => SkewInv'
<1> SUFFICES ASSUME SkewInv, TakePair PROVE SkewInv'
  OBVIOUS
<1>0. /\ fifo_l # <<>> /\ fifo_r # <<>>
      /\ fifo_l' = Tail(fifo_l) /\ fifo_r' = Tail(fifo_r)
      /\ UNCHANGED <<codecVars, dropped>>
  BY DEF TakePair
<1>t. /\ fifo_l \in Seq(Nat) /\ Len(fifo_l) \in Nat \ {0}
      /\ fifo_r \in Seq(Nat) /\ Len(fifo_r) \in Nat \ {0}
      /\ InDepth \in Nat
  BY <1>0, LenProperties, EmptySeq, PathAssumption DEF SkewInv, InType
<1>w. /\ fifo_l' \in Seq(Nat) /\ Len(fifo_l') = Len(fifo_l) - 1
      /\ \A i \in 1 .. Len(fifo_l) - 1 : fifo_l'[i] = fifo_l[i + 1]
      /\ fifo_r' \in Seq(Nat) /\ Len(fifo_r') = Len(fifo_r) - 1
      /\ \A i \in 1 .. Len(fifo_r) - 1 : fifo_r'[i] = fifo_r[i + 1]
  BY <1>0, <1>t, HeadTailProperties
<1>1. InType'
  BY <1>0, <1>t, <1>w DEF SkewInv, InType, codecVars
<1>2. Quiet'
  BY <1>0 DEF SkewInv, Quiet, codecVars
<1>3. Balance'
  <2> DEFINE a == Len(fifo_l)
             b == Len(fifo_r)
  <2>0. half' = half /\ frame' = frame /\ a \in Nat \ {0} /\ b \in Nat \ {0}
    BY <1>0, <1>t DEF codecVars
  <2>1. CASE half = "left"
    <3>1. a = b \/ (b = a + 1 /\ fifo_r[b] = frame)
      BY <2>1 DEF SkewInv, Balance
    <3>2. CASE a = b
      BY <2>0, <2>1, <3>2, <1>w DEF Balance
    <3>3. CASE b = a + 1 /\ fifo_r[b] = frame
      <4>1. b - 1 \in 1 .. b - 1 /\ b - 1 + 1 = b
        BY <2>0, <3>3
      <4>2. fifo_r'[b - 1] = frame
        BY <4>1, <3>3, <1>w
      <4>3. Len(fifo_r') = b - 1 /\ Len(fifo_r') = Len(fifo_l') + 1
        BY <2>0, <3>3, <1>w
      <4>4. QED BY <2>0, <2>1, <4>2, <4>3 DEF Balance
    <3>4. QED BY <3>1, <3>2, <3>3
  <2>2. CASE half = "right"
    <3>1. a = b \/ (a = b + 1 /\ fifo_l[a] = frame)
      BY <2>2 DEF SkewInv, Balance
    <3>2. CASE a = b
      BY <2>0, <2>2, <3>2, <1>w DEF Balance
    <3>3. CASE a = b + 1 /\ fifo_l[a] = frame
      <4>1. a - 1 \in 1 .. a - 1 /\ a - 1 + 1 = a
        BY <2>0, <3>3
      <4>2. fifo_l'[a - 1] = frame
        BY <4>1, <3>3, <1>w
      <4>3. Len(fifo_l') = a - 1 /\ Len(fifo_l') = Len(fifo_r') + 1
        BY <2>0, <3>3, <1>w
      <4>4. QED BY <2>0, <2>2, <4>2, <4>3 DEF Balance
    <3>4. QED BY <3>1, <3>2, <3>3
  <2>3. QED BY <2>1, <2>2 DEF SkewInv, InType
<1>4. ASSUME NEW i \in Pairs'
      PROVE  /\ i + 1 \in Pairs
             /\ fifo_l'[i] = fifo_l[i + 1] /\ fifo_r'[i] = fifo_r[i + 1]
  <2>1. i \in 1 .. Len(fifo_l) - 1 /\ i \in 1 .. Len(fifo_r) - 1
    BY <1>w DEF Pairs
  <2>2. fifo_l'[i] = fifo_l[i + 1] /\ fifo_r'[i] = fifo_r[i + 1]
    BY <2>1, <1>w
  <2>3. ASSUME NEW len \in Nat, i \in 1 .. len - 1
        PROVE  i + 1 \in 1 .. len
    BY <2>3
  <2>4. i + 1 \in 1 .. Len(fifo_l) /\ i + 1 \in 1 .. Len(fifo_r)
    BY <2>1, <2>3, <1>t
  <2>5. QED BY <2>2, <2>4 DEF Pairs
<1>5. SkewAtMostOne'
  BY <1>4 DEF SkewInv, SkewAtMostOne
<1>6. Lossless'
  <2> SUFFICES ASSUME ~dropped', ~rightFirst'
               PROVE  /\ half' = "left" => Len(fifo_l') = Len(fifo_r')
                      /\ half' = "right" => Len(fifo_l') = Len(fifo_r') + 1
                      /\ \A i \in Pairs' : fifo_l'[i] = fifo_r'[i]
    BY DEF Lossless, PairsOfOneFrame
  <2>1. half' = half /\ ~dropped /\ ~rightFirst
    BY <1>0 DEF codecVars
  <2>2. /\ half = "left" => Len(fifo_l) = Len(fifo_r)
        /\ half = "right" => Len(fifo_l) = Len(fifo_r) + 1
        /\ \A i \in Pairs : fifo_l[i] = fifo_r[i]
    BY <2>1 DEF SkewInv, Lossless, PairsOfOneFrame
  <2>3. \A i \in Pairs' : fifo_l'[i] = fifo_r'[i]
    BY <2>2, <1>4
  <2>4. /\ half = "left" => Len(fifo_l') = Len(fifo_r')
        /\ half = "right" => Len(fifo_l') = Len(fifo_r') + 1
    BY <2>2, <1>t, <1>w
  <2>5. QED BY <2>1, <2>3, <2>4
<1>7. QED BY <1>1, <1>2, <1>3, <1>5, <1>6 DEF SkewInv

LEMMA CodecInitInv == SkewInv /\ CodecInit => SkewInv'
<1> SUFFICES ASSUME SkewInv, CodecInit PROVE SkewInv'
  OBVIOUS
<1>0. /\ en' = TRUE /\ UNCHANGED <<frame, inVars>>
      /\ IF en THEN UNCHANGED <<half, rightFirst>>
         ELSE half' \in {"left", "right"} /\ rightFirst' = (half' = "right")
  BY DEF CodecInit
<1>1. CASE en
  BY <1>0, <1>1 DEF SkewInv, InType, Quiet, Balance, SkewAtMostOne, Lossless,
                    PairsOfOneFrame, Pairs, inVars
<1>2. CASE ~en
  <2>1. fifo_l' = <<>> /\ fifo_r' = <<>> /\ Len(fifo_l') = 0
        /\ Len(fifo_r') = 0
    BY <1>0, <1>2, EmptySeq DEF SkewInv, Quiet, inVars
  <2>2. InType'
    BY <1>0, <1>2, <2>1 DEF SkewInv, InType, inVars
  <2>3. Pairs' = {}
    BY <2>1 DEF Pairs
  <2>4. half' = "left" \/ rightFirst'
    BY <1>0, <1>2
  <2>5. QED BY <1>0, <2>1, <2>2, <2>3, <2>4
          DEF SkewInv, Quiet, Balance, SkewAtMostOne, Lossless,
              PairsOfOneFrame
<1>3. QED BY <1>1, <1>2

LEMMA RelaunchInv == SkewInv /\ Relaunch => SkewInv'
<1> SUFFICES ASSUME SkewInv, Relaunch PROVE SkewInv'
  OBVIOUS
<1>1. /\ en' = FALSE /\ half' = "left" /\ rightFirst' = FALSE
      /\ fifo_l' = <<>> /\ fifo_r' = <<>> /\ frame' = frame
  BY DEF Relaunch
<1>2. Len(fifo_l') = 0 /\ Len(fifo_r') = 0 /\ Pairs' = {}
  BY <1>1, EmptySeq DEF Pairs
<1>3. InType'
  BY <1>1, <1>2, EmptySeq, PathAssumption DEF SkewInv, InType
<1>4. QED
  BY <1>1, <1>2, <1>3 DEF SkewInv, Quiet, Balance, SkewAtMostOne, Lossless,
     PairsOfOneFrame

LEMMA OtherInv == SkewInv /\ UNCHANGED <<codecVars, inVars>> => SkewInv'
BY DEF SkewInv, InType, Quiet, Balance, SkewAtMostOne, Lossless,
       PairsOfOneFrame, Pairs, codecVars, inVars

LEMMA SkewInvStep == SkewInv /\ [Next]_vars => SkewInv'
<1> SUFFICES ASSUME SkewInv, [Next]_vars PROVE SkewInv'
  OBVIOUS
<1>1. CASE StrobeLeft BY <1>1, StrobeLeftInv
<1>2. CASE StrobeRight BY <1>2, StrobeRightInv
<1>3. CASE TakePair BY <1>3, TakePairInv
<1>4. CASE CodecInit BY <1>4, CodecInitInv
<1>5. CASE UNCHANGED <<codecVars, inVars>> BY <1>5, OtherInv
<1>6. CASE Relaunch BY <1>6, RelaunchInv
<1>7. QED
  BY <1>1, <1>2, <1>3, <1>4, <1>5, <1>6
     DEF Next, vars, Software, Codec, Core, FirBoot, FirBootStep, TlastBoot,
         DmaBoot, DmaItBoot, Restart, NextTransfer, Filter, Send, Result,
         Receive

LEMMA Invariance == Spec => []SkewInv
BY InitInv, SkewInvStep, PTL DEF Spec

(* A pair is never more than one frame apart, with the left sample the     *)
(* newer one.                                                              *)
THEOREM SkewBounded == Spec => []SkewAtMostOne
<1>1. SkewInv => SkewAtMostOne
  BY DEF SkewInv
<1>2. QED BY Invariance, <1>1, PTL

(* Pairs are of one frame as long as nothing was lost.                     *)
THEOREM PairsMatch == Spec => []PairsOfOneFrame
<1>1. SkewInv => PairsOfOneFrame
  BY DEF SkewInv, Lossless, PairsOfOneFrame
<1>2. QED BY Invariance, <1>1, PTL

(***************************************************************************)
(* Types, part by part: what the program has done, the registers it wrote, *)
(* the call in progress, the input side and the output side.               *)
(***************************************************************************)
BootType ==
  /\ program \in Programs /\ boot \in 1 .. Len(program) + 1
  /\ restarts \in 0 .. MaxRestarts

RegType ==
  /\ tlast_dnum \in {0, BlockSize} /\ tap_num_m1 \in Index
  /\ coeff_hw \in [Index -> Configs \union {Reset}]
  /\ fi \in 0 .. Done /\ fi_config \in Configs \union {Reset}
  /\ fi # Done => fi_config \in Configs

InputType ==
  /\ en \in BOOLEAN /\ half \in {"left", "right"} /\ frame \in 0 .. MaxFrames
  /\ fifo_l \in Seq(0 .. MaxFrames) /\ Len(fifo_l) <= InDepth
  /\ fifo_r \in Seq(0 .. MaxFrames) /\ Len(fifo_r) <= InDepth
  /\ dropped \in BOOLEAN /\ rightFirst \in BOOLEAN

Term == [coeff : Configs \union {Reset}, smpl : 0 .. MaxFrames]

CallType ==
  /\ buffer_left \in [Index -> 0 .. MaxFrames]
  /\ buffer_right \in [Index -> 0 .. MaxFrames]
  /\ write_idx \in Index /\ cnt \in 0 .. CntMod - 1
  /\ stage \in {"input", "loop", "left", "right", "next"}
  /\ args.tlast_dnum \in {0, BlockSize} /\ args.tap_num_m1 \in Index
  /\ acc_l \in Seq(Term) /\ acc_r \in Seq(Term)

OutputType ==
  /\ fifo_out \in Seq(PathBeat) /\ Len(fifo_out) <= OutDepth
  /\ chan \in {"off", "idle", "busy", "halted"}
  /\ block \in Seq(PathBeat) /\ Len(block) <= BlockSize
  /\ chan = "busy" => Len(block) < BlockSize
  /\ lost \in Nat
  /\ late \in BOOLEAN

(* The first products of a call are those of the samples it took.          *)
InCall == stage \in {"loop", "left", "right"}

AccInv ==
  /\ stage = "loop" => Len(acc_l) <= args.tap_num_m1
  /\ stage \in {"left", "right"} => Len(acc_l) > 0
  /\ InCall => Len(acc_r) = Len(acc_l)
  /\ InCall /\ Len(acc_l) > 0 =>
       /\ acc_l[1].smpl = buffer_left[write_idx]
       /\ acc_r[1].smpl = buffer_right[write_idx]

(* A call counts two beats, and a packet ends with a call.                 *)
ParityInv == cnt % 2 = IF stage = "right" THEN 1 ELSE 0

CoreInv == CallType /\ AccInv /\ ParityInv

TypeInv == BootType /\ RegType /\ InputType /\ CoreInv /\ OutputType

-----------------------------------------------------------------------------
LEMMA AppendOne ==
  ASSUME NEW S, NEW s \in Seq(S), NEW e \in S
  PROVE  /\ Append(s, e) \in Seq(S)
         /\ Len(s) \in Nat /\ Len(Append(s, e)) = Len(s) + 1
         /\ \A i \in 1 .. Len(s) : Append(s, e)[i] = s[i]
         /\ Append(s, e)[Len(s) + 1] = e
BY AppendProperties, LenProperties

LEMMA TailOne ==
  ASSUME NEW S, NEW s \in Seq(S), s # <<>>
  PROVE  /\ Len(s) \in Nat \ {0}
         /\ Head(s) = s[1] /\ Head(s) \in S
         /\ Tail(s) \in Seq(S) /\ Len(Tail(s)) = Len(s) - 1
         /\ \A i \in 1 .. Len(s) - 1 : Tail(s)[i] = s[i + 1]
<1>1. Len(s) \in Nat \ {0}
  BY EmptySeq
<1>2. Head(s) = s[1]
  BY <1>1
<1>3. QED BY <1>1, <1>2, HeadTailProperties

LEMMA BootTypeStep == BootType /\ [Next]_vars => BootType'
<1> SUFFICES ASSUME BootType, [Next]_vars PROVE BootType'
  OBVIOUS
<1>0. \A p \in Programs : Len(p) \in Nat /\ DOMAIN p = 1 .. Len(p)
  BY PathAssumption, LenProperties
<1>1. ASSUME NEW what, Calls(what), boot' = boot + 1,
             UNCHANGED <<program, restarts>>
      PROVE  BootType'
  BY <1>0, <1>1 DEF Calls, BootType
<1>2. CASE CodecInit BY <1>1, <1>2 DEF CodecInit
<1>3. CASE FirBoot BY <1>1, <1>3 DEF FirBoot
<1>4. CASE TlastBoot BY <1>1, <1>4 DEF TlastBoot
<1>5. CASE DmaBoot BY <1>1, <1>5 DEF DmaBoot
<1>6. CASE DmaItBoot BY <1>1, <1>6 DEF DmaItBoot
<1>7. CASE Restart \/ Relaunch
  BY <1>0, <1>7, PathAssumption DEF Restart, Relaunch, BootType
<1>8. CASE UNCHANGED bootVars
  BY <1>8 DEF bootVars, BootType
<1>9. QED
  BY <1>2, <1>3, <1>4, <1>5, <1>6, <1>7, <1>8
     DEF Next, vars, Software, Codec, Core, FirBootStep, NextTransfer,
         StrobeLeft, StrobeRight, TakePair, Filter, Send, Result, Receive

LEMMA ConfigType ==
  ASSUME NEW c \in Configs \union {Reset}
  PROVE  /\ c.tap_num_m1 \in Index
         /\ c.tlast_dnum \in {0, BlockSize}
         /\ c \in Configs => c.tlast_dnum = BlockSize
BY FirAssumption, BlockAssumption DEF Index

LEMMA RegTypeStep == RegType /\ [Next]_vars => RegType'
<1> SUFFICES ASSUME RegType, [Next]_vars PROVE RegType'
  OBVIOUS
<1> USE DEF RegType, Done, Index
<1>0. BufSize \in Nat \ {0}
  BY FirAssumption
<1>1. CASE FirBoot
  BY <1>0, <1>1 DEF FirBoot, BeginFirInit, regVars
<1>2. CASE FirBootStep
  <2>1. CASE WriteCoeff
    BY <1>0, <2>1 DEF WriteCoeff
  <2>2. CASE SetTapNumM1
    BY <1>0, <2>2, ConfigType DEF SetTapNumM1
  <2>3. CASE SetSmplRdNum
    BY <1>0, <2>3 DEF SetSmplRdNum
  <2>4. CASE SetTlastDnum
    BY <1>0, <2>4, ConfigType DEF SetTlastDnum
  <2>5. QED
    BY <1>2, <2>1, <2>2, <2>3, <2>4 DEF FirBootStep, FirInitStep
<1>3. CASE TlastBoot
  BY <1>3 DEF TlastBoot, initVars
<1>4. CASE Restart
  BY <1>0, <1>4 DEF Restart, regVars
<1>5. CASE Relaunch
  BY <1>0, <1>5, ConfigType DEF Relaunch, ResetCore
<1>6. CASE UNCHANGED <<regVars, initVars>>
  BY <1>6 DEF regVars, initVars
<1>7. QED
  BY <1>1, <1>2, <1>3, <1>4, <1>5, <1>6
     DEF Next, vars, firVars, Software, Codec, Core, CodecInit, DmaBoot,
         DmaItBoot, NextTransfer, StrobeLeft, StrobeRight, TakePair,
         TakeSamples, Filter, AddTap, EndCall, Send, WriteLeft, WriteRight,
         Result, Receive

(* An accepted write keeps the FIFO's type.                                *)
LEMMA WriteType ==
  ASSUME NEW fifo \in Seq(0 .. MaxFrames), Len(fifo) <= InDepth,
         NEW sample \in 0 .. MaxFrames
  PROVE  Write(fifo, sample) \in Seq(0 .. MaxFrames)
         /\ Len(Write(fifo, sample)) <= InDepth
<1>1. Len(fifo) \in Nat /\ InDepth \in Nat
  BY LenProperties, PathAssumption
<1>2. CASE Len(fifo) < InDepth
  <2>1. /\ Append(fifo, sample) \in Seq(0 .. MaxFrames)
        /\ Len(Append(fifo, sample)) = Len(fifo) + 1
    BY AppendOne
  <2>2. QED BY <1>1, <1>2, <2>1 DEF Write
<1>3. CASE ~(Len(fifo) < InDepth)
  BY <1>3 DEF Write
<1>4. QED BY <1>2, <1>3

LEMMA InputTypeStep == InputType /\ [Next]_vars => InputType'
<1> SUFFICES ASSUME InputType, [Next]_vars PROVE InputType'
  OBVIOUS
<1> USE DEF InputType
<1>1. CASE CodecInit
  BY <1>1 DEF CodecInit, inVars
<1>2. CASE StrobeLeft
  <2>1. frame' \in 0 .. MaxFrames
    BY <1>2, PathAssumption DEF StrobeLeft
  <2>2. QED BY <1>2, <2>1, WriteType DEF StrobeLeft
<1>3. CASE StrobeRight
  BY <1>3, WriteType DEF StrobeRight
<1>4. CASE TakePair
  <2>1. /\ Tail(fifo_l) \in Seq(0 .. MaxFrames)
        /\ Len(Tail(fifo_l)) = Len(fifo_l) - 1 /\ Len(fifo_l) \in Nat
        /\ Tail(fifo_r) \in Seq(0 .. MaxFrames)
        /\ Len(Tail(fifo_r)) = Len(fifo_r) - 1 /\ Len(fifo_r) \in Nat
    BY <1>4, TailOne DEF TakePair
  <2>2. ASSUME NEW a \in Nat, a <= InDepth
        PROVE  a - 1 <= InDepth
    BY <2>2, PathAssumption
  <2>3. Len(fifo_l') <= InDepth /\ Len(fifo_r') <= InDepth
    BY <1>4, <2>1, <2>2 DEF TakePair
  <2>4. /\ fifo_l' \in Seq(0 .. MaxFrames) /\ fifo_r' \in Seq(0 .. MaxFrames)
        /\ UNCHANGED <<en, half, frame, rightFirst, dropped>>
    BY <1>4, <2>1 DEF TakePair, codecVars
  <2>5. QED BY <2>3, <2>4
<1>5. CASE Relaunch
  <2>1. <<>> \in Seq(0 .. MaxFrames) /\ Len(<<>>) = 0 /\ 0 <= InDepth
    BY EmptySeq, PathAssumption
  <2>2. QED BY <1>5, <2>1 DEF Relaunch
<1>6. CASE UNCHANGED <<codecVars, inVars>>
  BY <1>6 DEF codecVars, inVars
<1>7. QED
  BY <1>1, <1>2, <1>3, <1>4, <1>5, <1>6
     DEF Next, vars, Software, Codec, Core, FirBoot, FirBootStep, TlastBoot,
         DmaBoot, DmaItBoot, Restart, NextTransfer, Filter, Send, Result,
         Receive

(* Counting a beat in a packet that ends at 0 or BlockSize.                *)
LEMMA CountProperties ==
  ASSUME NEW c \in 0 .. CntMod - 1, args.tlast_dnum \in {0, BlockSize}
  PROVE  /\ Increment(c, CntMod) \in 0 .. CntMod - 1
         /\ c + 1 < CntMod => Increment(c, CntMod) = c + 1
         /\ AfterBeat(c) \in 0 .. CntMod - 1
         /\ AfterBeat(c) = IF Increment(c, CntMod) = args.tlast_dnum
                           THEN 0 ELSE Increment(c, CntMod)
         /\ c % 2 = 0 => AfterBeat(c) % 2 = 1
         /\ c % 2 = 1 => AfterBeat(c) % 2 = 0
<1>0. CntMod \in Nat \ {0, 1} /\ CntMod % 2 = 0
      /\ BlockSize \in Nat \ {0} /\ BlockSize % 2 = 0
  BY FirAssumption, PathAssumption, BlockAssumption
<1>1. /\ Increment(c, CntMod) \in 0 .. CntMod - 1
      /\ c + 1 < CntMod => Increment(c, CntMod) = c + 1
      /\ AfterBeat(c) \in 0 .. CntMod - 1
  BY <1>0 DEF Increment, AfterBeat
<1>2. AfterBeat(c) = IF Increment(c, CntMod) = args.tlast_dnum
                     THEN 0 ELSE Increment(c, CntMod)
  BY DEF AfterBeat
<1>3. ASSUME c % 2 = 0
      PROVE  AfterBeat(c) % 2 = 1
  <2>1. (c + 1) % 2 = 1 /\ c + 1 # CntMod /\ c + 1 # args.tlast_dnum
    BY <1>0, <1>3
  <2>2. AfterBeat(c) = c + 1
    BY <2>1 DEF AfterBeat, Increment
  <2>3. QED BY <2>1, <2>2
<1>4. ASSUME c % 2 = 1
      PROVE  AfterBeat(c) % 2 = 0
  <2>1. (c + 1) % 2 = 0 /\ 0 % 2 = 0
    BY <1>4
  <2>2. AfterBeat(c) = c + 1 \/ AfterBeat(c) = 0
    BY DEF AfterBeat, Increment
  <2>3. QED BY <2>1, <2>2
<1>5. QED BY <1>1, <1>2, <1>3, <1>4

(* The two beats of a call that a reset interrupts.                        *)
LEMMA KeptProperties ==
  ASSUME CoreInv
  PROVE  /\ CntKept \in 0 .. CntMod - 1
         /\ CntKept % 2 = 0
<1>1. /\ cnt \in 0 .. CntMod - 1 /\ args.tlast_dnum \in {0, BlockSize}
      /\ cnt % 2 = IF stage = "right" THEN 1 ELSE 0
  BY DEF CoreInv, CallType, ParityInv
<1>2. /\ AfterBeat(cnt) \in 0 .. CntMod - 1
      /\ AfterBeat(AfterBeat(cnt)) \in 0 .. CntMod - 1
  BY <1>1, CountProperties
<1>3. CASE stage \in {"loop", "left"}
  BY <1>1, <1>2, <1>3, CountProperties DEF CntKept
<1>4. CASE stage = "right"
  BY <1>1, <1>2, <1>4, CountProperties DEF CntKept
<1>5. CASE stage \notin {"loop", "left", "right"}
  BY <1>1, <1>5 DEF CntKept
<1>6. QED BY <1>3, <1>4, <1>5

LEMMA TermType ==
  ASSUME NEW buffer \in [Index -> 0 .. MaxFrames], NEW i \in Index,
         RegType, write_idx \in Index
  PROVE  /\ Product(buffer, i) \in Term
         /\ Product(buffer, 0).smpl = buffer[write_idx]
<1>1. ReadIdx(i) \in Index /\ ReadIdx(0) = write_idx
  BY FirAssumption DEF ReadIdx, Index
<1>2. QED BY <1>1 DEF Product, Term, RegType

LEMMA TakePairCore ==
  RegType /\ InputType /\ CoreInv /\ TakePair => CoreInv'
<1> SUFFICES ASSUME RegType, InputType, CoreInv, TakePair PROVE CoreInv'
  OBVIOUS
<1>1. /\ Head(fifo_l) \in 0 .. MaxFrames /\ Head(fifo_r) \in 0 .. MaxFrames
      /\ TakeSamples(Head(fifo_l), Head(fifo_r))
  BY TailOne DEF TakePair, InputType
<1>2. /\ stage = "input" /\ stage' \in {"loop", "next"}
      /\ UNCHANGED <<write_idx, cnt>>
      /\ buffer_left' = [buffer_left EXCEPT ![write_idx] = Head(fifo_l)]
      /\ buffer_right' = [buffer_right EXCEPT ![write_idx] = Head(fifo_r)]
      /\ args' = [tlast_dnum |-> tlast_dnum, tap_num_m1 |-> tap_num_m1,
                  dec_cnt |-> dec_cnt]
      /\ acc_l' = <<>> /\ acc_r' = <<>>
  BY <1>1 DEF TakeSamples
<1>3. <<>> \in Seq(Term) /\ Len(<<>>) = 0
  BY EmptySeq
<1>4. CallType'
  BY <1>1, <1>2, <1>3 DEF CoreInv, CallType, RegType
<1>5. AccInv'
  <2>1. tap_num_m1 \in Nat
    BY FirAssumption DEF RegType, Index
  <2>2. QED BY <1>2, <1>3, <2>1 DEF AccInv, InCall
<1>6. ParityInv'
  BY <1>2 DEF CoreInv, ParityInv
<1>7. QED BY <1>4, <1>5, <1>6 DEF CoreInv

LEMMA AddTapCore == RegType /\ CoreInv /\ AddTap => CoreInv'
<1> SUFFICES ASSUME RegType, CoreInv, AddTap PROVE CoreInv'
  OBVIOUS
<1> DEFINE i == Len(acc_l)
<1>1. /\ stage = "loop" /\ stage' \in {"loop", "left"}
      /\ stage' = "loop" => i # args.tap_num_m1
      /\ acc_l' = Append(acc_l, Product(buffer_left, i))
      /\ acc_r' = Append(acc_r, Product(buffer_right, i))
      /\ UNCHANGED <<buffer_left, buffer_right, write_idx, cnt, args>>
  BY DEF AddTap
<1>2. /\ acc_l \in Seq(Term) /\ acc_r \in Seq(Term) /\ i \in Nat
      /\ Len(acc_r) = i /\ i <= args.tap_num_m1 /\ args.tap_num_m1 \in Index
      /\ i > 0 => /\ acc_l[1].smpl = buffer_left[write_idx]
                  /\ acc_r[1].smpl = buffer_right[write_idx]
  BY <1>1, LenProperties DEF CoreInv, CallType, AccInv, InCall
<1>3. i \in Index
  BY <1>2, FirAssumption DEF Index
<1>4. /\ Product(buffer_left, i) \in Term /\ Product(buffer_right, i) \in Term
      /\ i = 0 => /\ Product(buffer_left, i).smpl = buffer_left[write_idx]
                  /\ Product(buffer_right, i).smpl = buffer_right[write_idx]
  BY <1>3, TermType DEF CoreInv, CallType
<1>5. /\ acc_l' \in Seq(Term) /\ Len(acc_l') = i + 1
      /\ \A k \in 1 .. i : acc_l'[k] = acc_l[k]
      /\ acc_l'[i + 1] = Product(buffer_left, i)
  BY <1>1, <1>2, <1>4, AppendOne
<1>6. /\ acc_r' \in Seq(Term) /\ Len(acc_r') = i + 1
      /\ \A k \in 1 .. i : acc_r'[k] = acc_r[k]
      /\ acc_r'[i + 1] = Product(buffer_right, i)
  <2> HIDE DEF i
  <2>1. /\ acc_r' \in Seq(Term) /\ Len(acc_r') = Len(acc_r) + 1
        /\ \A k \in 1 .. Len(acc_r) : acc_r'[k] = acc_r[k]
        /\ acc_r'[Len(acc_r) + 1] = Product(buffer_right, i)
    BY <1>1, <1>2, <1>4, AppendOne
  <2>2. QED BY <2>1, <1>2
<1>7. CallType'
  BY <1>1, <1>5, <1>6 DEF CoreInv, CallType
<1>8. AccInv'
  <2> HIDE DEF i
  <2>1. /\ acc_l'[1].smpl = buffer_left[write_idx]
        /\ acc_r'[1].smpl = buffer_right[write_idx]
    <3>1. CASE i = 0
      BY <1>4, <1>5, <1>6, <3>1
    <3>2. CASE i # 0
      BY <1>2, <1>5, <1>6, <3>2
    <3>3. QED BY <3>1, <3>2
  <2>2. stage' = "loop" => i + 1 <= args.tap_num_m1
    BY <1>1, <1>2, FirAssumption DEF Index
  <2>3. QED BY <1>1, <1>2, <1>5, <1>6, <2>1, <2>2 DEF AccInv, InCall
<1>9. ParityInv'
  BY <1>1 DEF CoreInv, ParityInv
<1>10. QED BY <1>7, <1>8, <1>9 DEF CoreInv

LEMMA CoreInvStep == RegType /\ InputType /\ CoreInv /\ [Next]_vars => CoreInv'
<1> SUFFICES ASSUME RegType, InputType, CoreInv, [Next]_vars PROVE CoreInv'
  OBVIOUS
<1>0. /\ CallType /\ AccInv /\ ParityInv
      /\ cnt \in 0 .. CntMod - 1 /\ args.tlast_dnum \in {0, BlockSize}
  BY DEF CoreInv, CallType
<1>1. CASE TakePair
  BY <1>1, TakePairCore
<1>2. CASE AddTap
  BY <1>2, AddTapCore
<1>3. CASE EndCall
  <2>1. write_idx' \in Index
    <3>1. BufSize \in Nat \ {0} /\ write_idx \in 0 .. BufSize - 1
      BY <1>0, FirAssumption DEF CallType, Index
    <3>2. write_idx' = IF write_idx + 1 = BufSize THEN 0 ELSE write_idx + 1
      BY <1>3 DEF EndCall, Increment
    <3> QED BY <3>1, <3>2 DEF Index
  <2>2. QED
    BY <1>0, <1>3, <2>1
       DEF EndCall, CoreInv, CallType, AccInv, InCall, ParityInv
<1>4. CASE WriteLeft
  <2>1. cnt' \in 0 .. CntMod - 1 /\ cnt' % 2 = 1
    BY <1>0, <1>4, CountProperties DEF WriteLeft, CountBeat, ParityInv
  <2>2. QED
    BY <1>0, <1>4, <2>1
       DEF WriteLeft, CoreInv, CallType, AccInv, InCall, ParityInv
<1>5. CASE WriteRight
  <2>1. cnt' \in 0 .. CntMod - 1 /\ cnt' % 2 = 0
    BY <1>0, <1>5, CountProperties DEF WriteRight, CountBeat, ParityInv
  <2>2. QED
    BY <1>0, <1>5, <2>1
       DEF WriteRight, CoreInv, CallType, AccInv, InCall, ParityInv
<1>6. CASE Relaunch
  <2>1. cnt' \in 0 .. CntMod - 1 /\ cnt' % 2 = 0
    BY <1>6, KeptProperties DEF Relaunch, ResetCore
  <2>2. QED
    BY <1>0, <1>6, <2>1
       DEF Relaunch, ResetCore, CoreInv, CallType, AccInv, InCall, ParityInv
<1>7. CASE UNCHANGED callVars
  BY <1>0, <1>7 DEF callVars, CoreInv, CallType, AccInv, InCall, ParityInv
<1>8. QED
  BY <1>1, <1>2, <1>3, <1>4, <1>5, <1>6, <1>7
     DEF Next, vars, firVars, Software, Codec, Core, CodecInit, FirBoot,
         BeginFirInit, FirBootStep, FirInitStep, WriteCoeff, SetTapNumM1,
         SetSmplRdNum, SetTlastDnum, TlastBoot, DmaBoot, DmaItBoot, Restart,
         NextTransfer, StrobeLeft, StrobeRight, Filter, Send, Receive

(* A step of Send: the beat b of channel c.                                *)
Sends(c, b) ==
  /\ stage = c /\ stage' = IF c = "left" THEN "right" ELSE "next"
  /\ b \in PathBeat /\ b.channel = c /\ b.last = IsLast
  /\ b.sample = IF c = "left" THEN buffer_left[write_idx]
                              ELSE buffer_right[write_idx]
  /\ Len(fifo_out) < OutDepth /\ fifo_out' = Append(fifo_out, b)
  /\ cnt' = AfterBeat(cnt)
  /\ late' = (late \/ (args.tlast_dnum # BlockSize /\ cnt + 1 >= BlockSize))
  /\ UNCHANGED <<buffer_left, buffer_right, write_idx, args, regVars,
                 initVars, bootVars, codecVars, inVars, dmaVars>>

LEMMA SendProperties ==
  ASSUME CoreInv, Send
  PROVE  \E c \in {"left", "right"} : \E b \in PathBeat : Sends(c, b)
<1>1. IsLast \in BOOLEAN
  BY DEF IsLast
<1>2. /\ buffer_left[write_idx] \in 0 .. MaxFrames
      /\ buffer_right[write_idx] \in 0 .. MaxFrames
  BY DEF CoreInv, CallType
<1>3. ASSUME stage \in {"left", "right"}
      PROVE  /\ acc_l[1].smpl = buffer_left[write_idx]
             /\ acc_r[1].smpl = buffer_right[write_idx]
  BY <1>3 DEF CoreInv, AccInv, InCall
<1>4. ASSUME WriteLeft, Result("left", acc_l)
      PROVE  \E b \in PathBeat : Sends("left", b)
  <2> DEFINE b == [channel |-> "left", last |-> IsLast,
                   sample |-> acc_l[1].smpl]
  <2>1. acc_l[1].smpl = buffer_left[write_idx] /\ b \in PathBeat
    BY <1>1, <1>2, <1>3, <1>4 DEF WriteLeft, PathBeat
  <2>2. Sends("left", b)
    BY <1>4, <2>1 DEF WriteLeft, Result, CountBeat, Sends
  <2>3. QED BY <2>1, <2>2
<1>5. ASSUME WriteRight, Result("right", acc_r)
      PROVE  \E b \in PathBeat : Sends("right", b)
  <2> DEFINE b == [channel |-> "right", last |-> IsLast,
                   sample |-> acc_r[1].smpl]
  <2>1. acc_r[1].smpl = buffer_right[write_idx] /\ b \in PathBeat
    BY <1>1, <1>2, <1>3, <1>5 DEF WriteRight, PathBeat
  <2>2. Sends("right", b)
    BY <1>5, <2>1 DEF WriteRight, Result, CountBeat, Sends
  <2>3. QED BY <2>1, <2>2
<1>6. QED BY <1>4, <1>5 DEF Send

LEMMA OutputTypeStep == CoreInv /\ OutputType /\ [Next]_vars => OutputType'
<1> SUFFICES ASSUME CoreInv, OutputType, [Next]_vars PROVE OutputType'
  OBVIOUS
<1>0. <<>> \in Seq(PathBeat) /\ Len(<<>>) = 0 /\ Len(block) \in Nat
      /\ BlockSize \in Nat \ {0} /\ OutDepth \in Nat
      /\ Len(fifo_out) \in Nat
  BY EmptySeq, LenProperties, PathAssumption DEF OutputType
<1>1. StillLost \in Nat
  BY <1>0 DEF StillLost, OutputType
<1>2. CASE Send
  <2>1. PICK c \in {"left", "right"}, b \in PathBeat : Sends(c, b)
    BY <1>2, SendProperties
  <2>2. fifo_out' \in Seq(PathBeat) /\ Len(fifo_out') = Len(fifo_out) + 1
    BY <2>1, AppendOne DEF Sends, OutputType
  <2>3. Len(fifo_out') <= OutDepth
    BY <1>0, <2>1, <2>2 DEF Sends
  <2>4. QED BY <2>1, <2>2, <2>3 DEF Sends, OutputType, dmaVars
<1>3. CASE Receive
  <2>1. fifo_out # <<>> /\ chan = "busy" /\ Len(block) < BlockSize
    BY <1>3 DEF Receive, OutputType
  <2>2. /\ Head(fifo_out) \in PathBeat
        /\ fifo_out' \in Seq(PathBeat) /\ Len(fifo_out') = Len(fifo_out) - 1
    BY <1>3, <2>1, TailOne DEF Receive, OutputType
  <2>3. block' \in Seq(PathBeat) /\ Len(block') = Len(block) + 1
    BY <1>3, <2>2, AppendOne DEF Receive, OutputType
  <2>4. Len(fifo_out') <= OutDepth /\ Len(block') <= BlockSize
    BY <1>0, <2>1, <2>2, <2>3 DEF OutputType
  <2>5. /\ chan' \in {"idle", "busy", "halted"}
        /\ chan' = "busy" => Len(block') < BlockSize
    BY <1>0, <1>3, <2>1, <2>3 DEF Receive
  <2>6. lost' \in Nat /\ late' \in BOOLEAN
    BY <1>3 DEF Receive, OutputType
  <2>7. QED BY <2>2, <2>3, <2>4, <2>5, <2>6 DEF OutputType
<1>4. CASE DmaBoot
  <2>1. CASE chan \in {"off", "idle"}
    BY <1>0, <1>1, <1>4, <2>1 DEF DmaBoot, OutputType
  <2>2. CASE chan \notin {"off", "idle"}
    BY <1>4, <2>2 DEF DmaBoot, OutputType, dmaVars
  <2>3. QED BY <2>1, <2>2
<1>5. CASE DmaItBoot
  BY <1>0, <1>1, <1>5 DEF DmaItBoot, OutputType
<1>6. CASE NextTransfer
  BY <1>0, <1>6 DEF NextTransfer, OutputType
<1>7. CASE Relaunch
  <2>1. lost' \in Nat
    BY <1>7, KeptProperties, FirAssumption DEF Relaunch
  <2>2. QED BY <1>0, <1>7, <2>1 DEF Relaunch, OutputType
<1>8. CASE UNCHANGED <<fifo_out, dmaVars, late>>
  BY <1>8 DEF dmaVars, OutputType
<1>9. QED
  BY <1>2, <1>3, <1>4, <1>5, <1>6, <1>7, <1>8
     DEF Next, vars, Software, Codec, Core, CodecInit, FirBoot, FirBootStep,
         TlastBoot, Restart, StrobeLeft, StrobeRight, TakePair, Filter

LEMMA TypeInvInit == Init => TypeInv
<1> SUFFICES ASSUME Init PROVE TypeInv
  OBVIOUS
<1> USE DEF Init, FirInit
<1>0. /\ \A S : <<>> \in Seq(S)
      /\ Len(<<>>) = 0
  BY EmptySeq
<1>1. BootType
  <2>1. Len(program) \in Nat
    BY PathAssumption, LenProperties
  <2>2. QED BY <2>1, PathAssumption DEF BootType
<1>2. RegType
  BY FirAssumption, ConfigType DEF RegType, Index, Done
<1>3. InputType
  <2>1. /\ <<>> \in Seq(0 .. MaxFrames)
        /\ 0 <= InDepth /\ 0 \in 0 .. MaxFrames
    BY <1>0, PathAssumption
  <2>2. QED BY <1>0, <2>1 DEF InputType
<1>4. CoreInv
  BY <1>0, FirAssumption, PathAssumption
     DEF CoreInv, CallType, AccInv, InCall, ParityInv, Index, Silence
<1>5. OutputType
  <2>1. /\ <<>> \in Seq(PathBeat)
        /\ 0 <= OutDepth /\ 0 <= BlockSize /\ 0 \in Nat
    BY <1>0, PathAssumption
  <2>2. QED BY <1>0, <2>1 DEF OutputType
<1>6. QED BY <1>1, <1>2, <1>3, <1>4, <1>5 DEF TypeInv

LEMMA TypeInvStep == TypeInv /\ [Next]_vars => TypeInv'
BY BootTypeStep, RegTypeStep, InputTypeStep, CoreInvStep, OutputTypeStep
   DEF TypeInv

LEMMA TypeInvInvariant == Spec => []TypeInv
BY TypeInvInit, TypeInvStep, PTL DEF Spec

(* FIFOs, blocks and counters stay within their bounds.                    *)
THEOREM PathTypeCorrect == Spec => []PathTypeOK
<1>1. TypeInv => PathTypeOK
  BY DEF TypeInv, BootType, InputType, OutputType, PathTypeOK
<1>2. QED BY TypeInvInvariant, <1>1, PTL

-----------------------------------------------------------------------------
(***************************************************************************)
(* Packets.  A packet starts behind place p of fifo_out when p is 0 or the *)
(* beat there is a last one; StillLost counts the beats of the first       *)
(* packet that are not in fifo_out any more.  Place(p, q) is then the      *)
(* position of beat q in its packet.  cnt and the beats' TLAST and channel *)
(* agree with it as long as the counter has not wrapped in the packet,     *)
(* which it cannot have if no call was late.                               *)
(***************************************************************************)
Starts(p) == p = 0 \/ fifo_out[p].last
Within(p, q) == \A k \in p + 1 .. q : ~fifo_out[k].last
Place(p, q) == (IF p = 0 THEN StillLost ELSE 0) + q - p

CntInv ==
  \A p \in 0 .. Len(fifo_out) :
    Starts(p) /\ Within(p, Len(fifo_out)) =>
      (Place(p, Len(fifo_out)) < CntMod \/ ~late =>
         cnt = Place(p, Len(fifo_out)))

ChannelAt(place) == IF place % 2 = 1 THEN "left" ELSE "right"

GoodBeat(beat, place) ==
  /\ place < CntMod => /\ beat.last => place = BlockSize
                       /\ beat.channel = ChannelAt(place)
  /\ ~late => place < BlockSize \/ (place = BlockSize /\ beat.last)

BeatInv ==
  \A p \in 0 .. Len(fifo_out) : \A q \in p + 1 .. Len(fifo_out) :
    Starts(p) /\ Within(p, q - 1) => GoodBeat(fifo_out[q], Place(p, q))

BlockInv ==
  /\ \A k \in 1 .. Len(block) :
       k + lost < CntMod => block[k].channel = ChannelAt(k + lost)
  /\ chan = "idle" /\ Len(block) + lost < CntMod =>
       Len(block) + lost = BlockSize

(* Late calls are what halts the channel.                                  *)
LateInv == ~late => cnt < BlockSize /\ StillLost < BlockSize /\ chan # "halted"

PacketInv == CntInv /\ BeatInv /\ BlockInv /\ LateInv

LEMMA StillLostType == OutputType => StillLost \in Nat
BY LenProperties DEF OutputType, StillLost

LEMMA PacketInit == Init => PacketInv
<1> SUFFICES ASSUME Init PROVE PacketInv
  OBVIOUS
<1>1. /\ fifo_out = <<>> /\ Len(fifo_out) = 0 /\ cnt = 0 /\ late = FALSE
      /\ chan = "off" /\ block = <<>> /\ Len(block) = 0 /\ lost = 0
      /\ StillLost = 0
  BY EmptySeq DEF Init, FirInit, StillLost
<1>2. CntInv
  BY <1>1 DEF CntInv, Place
<1>3. BeatInv /\ BlockInv
  BY <1>1 DEF BeatInv, BlockInv
<1>4. LateInv
  BY <1>1, PathAssumption DEF LateInv
<1>5. QED BY <1>2, <1>3, <1>4 DEF PacketInv

(* A beat that is sent continues the packet at the end of fifo_out.        *)
LEMMA SendPacket ==
  ASSUME CoreInv, OutputType, PacketInv, Send
  PROVE  PacketInv'
<1>n. PICK n \in Nat : n = Len(fifo_out)
  BY LenProperties DEF OutputType
<1>0. PICK c \in {"left", "right"}, b \in PathBeat : Sends(c, b)
  BY SendProperties
<1>1. /\ Len(fifo_out') = n + 1
      /\ \A i \in 1 .. n : fifo_out'[i] = fifo_out[i]
      /\ fifo_out'[n + 1] = b
  BY <1>n, <1>0, AppendOne DEF Sends, OutputType
<1>2. /\ CntMod \in Nat \ {0, 1} /\ BlockSize \in Nat \ {0}
      /\ 2 * BlockSize <= CntMod
      /\ cnt \in 0 .. CntMod - 1 /\ args.tlast_dnum \in {0, BlockSize}
      /\ StillLost \in Nat
  BY FirAssumption, PathAssumption, BlockAssumption, StillLostType
     DEF CoreInv, CallType
<1>3. /\ late => late'
      /\ ~late' => args.tlast_dnum = BlockSize \/ cnt + 1 < BlockSize
      /\ ~late => cnt < BlockSize /\ StillLost < BlockSize /\ chan # "halted"
      /\ UNCHANGED <<chan, block, lost>> /\ StillLost' = StillLost
  <2>1. UNCHANGED <<chan, block, lost>> /\ StillLost' = StillLost
    BY <1>0 DEF Sends, dmaVars, StillLost
  <2>2. late' = (late \/ (args.tlast_dnum # BlockSize /\ cnt + 1 >= BlockSize))
    BY <1>0 DEF Sends
  <2>3. ~(cnt + 1 >= BlockSize) => cnt + 1 < BlockSize
    BY <1>2
  <2>4. ~late => cnt < BlockSize /\ StillLost < BlockSize /\ chan # "halted"
    BY DEF PacketInv, LateInv
  <2>5. QED BY <2>1, <2>2, <2>3, <2>4
<1>4. /\ c = "left" => cnt % 2 = 0
      /\ c = "right" => cnt % 2 = 1
  BY <1>0 DEF Sends, CoreInv, ParityInv
<1>5. /\ b.last <=> Increment(cnt, CntMod) = args.tlast_dnum
      /\ cnt + 1 < CntMod => Increment(cnt, CntMod) = cnt + 1
      /\ cnt' = IF b.last THEN 0 ELSE Increment(cnt, CntMod)
      /\ b.channel = c
  BY <1>0, <1>2, CountProperties DEF Sends, IsLast
<1>6. ASSUME NEW p \in 0 .. n
      PROVE  /\ Starts(p)' <=> Starts(p)
             /\ \A q \in p .. n : Within(p, q)' <=> Within(p, q)
             /\ \A q \in Int : Place(p, q)' = Place(p, q)
             /\ Place(p, n) \in Nat /\ Place(p, n + 1) = Place(p, n) + 1
  BY <1>1, <1>2, <1>3 DEF Starts, Within, Place
<1>7. ASSUME NEW p \in 0 .. n, Starts(p), Within(p, n),
             Place(p, n) + 1 < CntMod \/ ~late'
      PROVE  cnt = Place(p, n) /\ cnt + 1 < CntMod
  <2>1. cnt = Place(p, n)
    BY <1>n, <1>1, <1>2, <1>3, <1>6, <1>7 DEF PacketInv, CntInv
  <2>2. QED BY <2>1, <1>2, <1>3, <1>7
<1>8. ASSUME NEW t \in Nat, cnt = t, t + 1 < CntMod
      PROVE  GoodBeat(b, t + 1)'
  <2>1. b.last <=> t + 1 = args.tlast_dnum
    BY <1>5, <1>8
  <2>2. b.last => t + 1 = BlockSize
    BY <2>1, <1>2
  <2>3. b.channel = ChannelAt(t + 1)
    BY <1>0, <1>4, <1>5, <1>8 DEF ChannelAt
  <2>4. ~late' => t + 1 < BlockSize \/ (t + 1 = BlockSize /\ b.last)
    BY <2>1, <1>2, <1>3, <1>8
  <2>5. QED BY <2>2, <2>3, <2>4 DEF GoodBeat, ChannelAt
<1>9. CntInv'
  <2> SUFFICES ASSUME NEW p \in 0 .. n + 1, Starts(p)', Within(p, n + 1)',
                      Place(p, n + 1)' < CntMod \/ ~late'
               PROVE  cnt' = Place(p, n + 1)'
    BY <1>1 DEF CntInv
  <2>1. CASE p = n + 1
    <3>1. b.last /\ Place(p, n + 1)' = 0
      BY <1>1, <2>1 DEF Starts, Place
    <3>2. QED BY <3>1, <1>5
  <2>2. CASE p \in 0 .. n
    <3>1. ~b.last /\ Within(p, n) /\ Starts(p)
      BY <1>1, <1>6, <2>2 DEF Within
    <3>2. Place(p, n + 1)' = Place(p, n) + 1
      BY <1>1, <1>6, <2>2
    <3>3. cnt = Place(p, n) /\ cnt + 1 < CntMod
      BY <1>7, <2>2, <3>1, <3>2
    <3>4. QED BY <1>5, <3>1, <3>2, <3>3
  <2>3. QED BY <2>1, <2>2
<1>10. BeatInv'
  <2> SUFFICES ASSUME NEW p \in 0 .. n + 1, NEW q \in p + 1 .. n + 1,
                      Starts(p)', Within(p, q - 1)'
               PROVE  GoodBeat(fifo_out[q], Place(p, q))'
    BY <1>1 DEF BeatInv
  <2>0. p \in 0 .. n /\ Starts(p) /\ Within(p, q - 1) /\ q \in 1 .. n + 1
        /\ Place(p, q)' = Place(p, q)
    BY <1>1, <1>6
  <2>1. CASE q \in 1 .. n
    <3>1. GoodBeat(fifo_out[q], Place(p, q))
      BY <1>n, <2>0, <2>1 DEF PacketInv, BeatInv
    <3>2. fifo_out'[q] = fifo_out[q]
      BY <1>1, <2>1
    <3>3. QED BY <1>3, <2>0, <3>1, <3>2 DEF GoodBeat
  <2>2. CASE q = n + 1
    <3>0. Within(p, n) /\ fifo_out'[q] = b /\ Place(p, q)' = Place(p, n) + 1
      BY <1>1, <1>6, <2>0, <2>2
    <3>1. CASE Place(p, n) + 1 < CntMod \/ ~late'
      <4>1. cnt = Place(p, n) /\ cnt + 1 < CntMod
        BY <1>7, <2>0, <3>0, <3>1
      <4>2. PICK t \in Nat : t = Place(p, n)
        BY <1>6, <2>0
      <4>3. GoodBeat(b, t + 1)'
        BY <1>8, <4>1, <4>2
      <4>4. QED BY <3>0, <4>2, <4>3 DEF GoodBeat
    <3>2. CASE ~(Place(p, n) + 1 < CntMod) /\ late'
      BY <3>0, <3>2 DEF GoodBeat
    <3>3. QED BY <3>1, <3>2
  <2>3. QED BY <1>1, <2>0, <2>1, <2>2
<1>11. BlockInv'
  BY <1>3 DEF PacketInv, BlockInv, ChannelAt
<1>12. LateInv'
  <2> SUFFICES ASSUME ~late' PROVE cnt' < BlockSize
    BY <1>3 DEF LateInv
  <2>1. cnt + 1 < CntMod /\ cnt < BlockSize
    BY <1>2, <1>3
  <2>2. CASE cnt + 1 < BlockSize
    BY <1>2, <1>5, <2>1, <2>2
  <2>3. CASE cnt + 1 = BlockSize
    BY <1>2, <1>3, <1>5, <2>1, <2>3
  <2>4. QED BY <1>2, <2>1, <2>2, <2>3
<1>13. QED BY <1>9, <1>10, <1>11, <1>12 DEF PacketInv

(* A beat the engine takes moves every place by one.                       *)
LEMMA ReceivePacket ==
  ASSUME OutputType, PacketInv, Receive
  PROVE  PacketInv'
<1>n. PICK n \in Nat : n = Len(fifo_out)
  BY LenProperties DEF OutputType
<1>m. PICK m \in Nat : m = Len(block)
  BY LenProperties DEF OutputType
<1>b. PICK b \in PathBeat : b = fifo_out[1]
  <2>1. fifo_out # <<>> /\ fifo_out \in Seq(PathBeat)
    BY DEF Receive, OutputType
  <2>2. QED BY <2>1, TailOne
<1>1. /\ n > 0 /\ Len(fifo_out') = n - 1
      /\ \A i \in 1 .. n - 1 : fifo_out'[i] = fifo_out[i + 1]
      /\ Head(fifo_out) = b
  BY <1>n, <1>b, TailOne DEF Receive, OutputType
<1>2. /\ Len(block') = m + 1
      /\ \A i \in 1 .. m : block'[i] = block[i]
      /\ block'[m + 1] = b
  BY <1>m, <1>1, AppendOne DEF Receive, OutputType
<1>3. /\ chan = "busy" /\ UNCHANGED <<cnt, lost, late>>
      /\ b.last => chan' = "idle"
      /\ ~b.last => chan' = IF m + 1 = BlockSize THEN "halted" ELSE "busy"
  BY <1>m, <1>1 DEF Receive, firVars, callVars
<1>4. /\ CntMod \in Nat /\ BlockSize \in Nat /\ lost \in Nat
      /\ StillLost = lost + m
      /\ b.last => StillLost' = 0
      /\ ~b.last => StillLost' = StillLost + 1
  BY <1>m, <1>2, <1>3, FirAssumption, PathAssumption DEF StillLost, OutputType
<1>5. GoodBeat(b, StillLost + 1)
  <2>1. Starts(0) /\ Within(0, 0) /\ Place(0, 1) = StillLost + 1
    BY <1>4 DEF Starts, Within, Place
  <2>2. 0 \in 0 .. n /\ 1 \in 0 + 1 .. n /\ 1 - 1 = 0
    BY <1>1
  <2>3. QED BY <1>n, <1>b, <2>1, <2>2 DEF PacketInv, BeatInv
(* Where the packet behind the new place p started before.                 *)
<1>6. ASSUME NEW p \in 0 .. n - 1, Starts(p)'
      PROVE  \E r \in 0 .. n :
               /\ Starts(r) /\ r <= p + 1
               /\ \A q \in p .. n - 1 :
                    /\ Place(p, q)' = Place(r, q + 1)
                    /\ Within(p, q)' => Within(r, q + 1)
  <2>1. CASE p = 0 /\ ~b.last
    <3>1. \A q \in 0 .. n - 1 : Place(0, q)' = Place(0, q + 1)
      BY <1>4, <2>1 DEF Place
    <3>2. ASSUME NEW q \in 0 .. n - 1, Within(0, q)'
          PROVE  Within(0, q + 1)
      <4> SUFFICES ASSUME NEW k \in 1 .. q + 1 PROVE ~fifo_out[k].last
        BY DEF Within
      <4>1. CASE k = 1
        BY <1>b, <2>1, <4>1
      <4>2. CASE k # 1
        <5>1. k - 1 \in 1 .. q /\ k - 1 \in 1 .. n - 1
          BY <4>2
        <5>2. fifo_out'[k - 1] = fifo_out[k]
          BY <1>1, <5>1
        <5>3. QED BY <3>2, <5>1, <5>2 DEF Within
      <4>3. QED BY <4>1, <4>2
    <3>3. QED BY <2>1, <3>1, <3>2 DEF Starts
  <2>2. CASE p # 0 \/ b.last
    <3>1. p + 1 \in 1 .. n /\ Starts(p + 1)
      <4>1. CASE p = 0
        BY <1>1, <1>b, <2>2, <4>1 DEF Starts
      <4>2. CASE p # 0
        BY <1>1, <1>6, <4>2 DEF Starts
      <4>3. QED BY <4>1, <4>2
    <3>2. ASSUME NEW q \in p .. n - 1
          PROVE  Place(p, q)' = Place(p + 1, q + 1)
      BY <1>4, <2>2, <3>1 DEF Place
    <3>3. ASSUME NEW q \in p .. n - 1, Within(p, q)'
          PROVE  Within(p + 1, q + 1)
      <4> SUFFICES ASSUME NEW k \in p + 2 .. q + 1 PROVE ~fifo_out[k].last
        BY DEF Within
      <4>1. k - 1 \in p + 1 .. q /\ k - 1 \in 1 .. n - 1
        OBVIOUS
      <4>2. fifo_out'[k - 1] = fifo_out[k]
        BY <1>1, <4>1
      <4>3. QED BY <3>3, <4>1, <4>2 DEF Within
    <3>4. QED BY <3>1, <3>2, <3>3
  <2>3. QED BY <2>1, <2>2
<1>7. CntInv'
  <2> SUFFICES ASSUME NEW p \in 0 .. n - 1, Starts(p)', Within(p, Len(fifo_out))',
                      Place(p, Len(fifo_out))' < CntMod \/ ~late'
               PROVE  cnt' = Place(p, Len(fifo_out))'
    BY <1>1 DEF CntInv
  <2>1. PICK r \in 0 .. n :
          /\ Starts(r)
          /\ \A q \in p .. n - 1 : /\ Place(p, q)' = Place(r, q + 1)
                                   /\ Within(p, q)' => Within(r, q + 1)
    BY <1>6
  <2>2. n - 1 \in p .. n - 1 /\ n - 1 + 1 = n
    BY <1>1
  <2>3. Place(p, n - 1)' = Place(r, n) /\ Within(p, n - 1)' => Within(r, n)
    BY <2>1, <2>2
  <2>4. QED BY <1>n, <1>1, <1>3, <2>1, <2>3 DEF PacketInv, CntInv
<1>8. BeatInv'
  <2> SUFFICES ASSUME NEW p \in 0 .. n - 1, NEW q \in p + 1 .. n - 1,
                      Starts(p)', Within(p, q - 1)'
               PROVE  GoodBeat(fifo_out[q], Place(p, q))'
    BY <1>1 DEF BeatInv
  <2>1. PICK r \in 0 .. n :
          /\ Starts(r) /\ r <= p + 1
          /\ \A k \in p .. n - 1 : /\ Place(p, k)' = Place(r, k + 1)
                                   /\ Within(p, k)' => Within(r, k + 1)
    BY <1>6
  <2>2. /\ q \in p .. n - 1 /\ q - 1 \in p .. n - 1 /\ q - 1 + 1 = q
        /\ q + 1 \in r + 1 .. n /\ q + 1 - 1 = q
    BY <2>1
  <2>3. Place(p, q)' = Place(r, q + 1) /\ Within(r, q)
    BY <2>1, <2>2
  <2>4. GoodBeat(fifo_out[q + 1], Place(r, q + 1))
    BY <1>n, <2>1, <2>2, <2>3 DEF PacketInv, BeatInv
  <2>5. fifo_out'[q] = fifo_out[q + 1]
    BY <1>1
  <2>6. QED BY <1>3, <2>3, <2>4, <2>5 DEF GoodBeat
<1>9. BlockInv'
  <2>1. ASSUME NEW k \in 1 .. m + 1, k + lost < CntMod
        PROVE  block'[k].channel = ChannelAt(k + lost)
    <3>1. CASE k \in 1 .. m
      BY <1>m, <1>2, <2>1, <3>1 DEF PacketInv, BlockInv
    <3>2. CASE k = m + 1
      <4>1. StillLost + 1 = k + lost
        BY <1>4, <3>2
      <4>2. QED BY <1>2, <1>5, <2>1, <3>2, <4>1 DEF GoodBeat
    <3>3. QED BY <3>1, <3>2
  <2>2. ASSUME chan' = "idle", m + 1 + lost < CntMod
        PROVE  m + 1 + lost = BlockSize
    <3>1. b.last
      BY <1>3, <2>2
    <3>2. StillLost + 1 = m + 1 + lost
      BY <1>4
    <3>3. QED BY <1>5, <2>2, <3>1, <3>2 DEF GoodBeat
  <2>3. QED BY <1>2, <1>3, <2>1, <2>2 DEF BlockInv, ChannelAt
<1>10. LateInv'
  <2> SUFFICES ASSUME ~late
               PROVE  cnt < BlockSize /\ StillLost' < BlockSize
                      /\ chan' # "halted"
    BY <1>3 DEF LateInv
  <2>1. StillLost + 1 < BlockSize \/ (StillLost + 1 = BlockSize /\ b.last)
    BY <1>5 DEF GoodBeat
  <2>2. cnt < BlockSize /\ StillLost < BlockSize
    BY DEF PacketInv, LateInv
  <2>3. CASE b.last
    BY <1>3, <1>4, <2>2, <2>3
  <2>4. CASE ~b.last
    BY <1>3, <1>4, <2>1, <2>2, <2>4
  <2>5. QED BY <2>3, <2>4
<1>11. QED BY <1>7, <1>8, <1>9, <1>10 DEF PacketInv

(* A transfer that is started leaves the packet under way as it is.        *)
LEMMA StartPacket ==
  ASSUME OutputType, PacketInv, UNCHANGED <<cnt, fifo_out, late>>,
         chan' = "busy", block' = <<>>, lost' = StillLost
  PROVE  PacketInv'
<1>1. Len(block') = 0 /\ StillLost' = StillLost
  BY EmptySeq, StillLostType DEF StillLost
<1>2. CntInv'
  BY <1>1 DEF PacketInv, CntInv, Starts, Within, Place
<1>3. BeatInv'
  BY <1>1 DEF PacketInv, BeatInv, Starts, Within, Place, GoodBeat, ChannelAt
<1>4. BlockInv' /\ LateInv'
  BY <1>1 DEF PacketInv, BlockInv, LateInv
<1>5. QED BY <1>2, <1>3, <1>4 DEF PacketInv

(* A call that is lost in a relaunch stays counted, and nothing else.      *)
LEMMA RelaunchPacket ==
  ASSUME CoreInv, PacketInv, Relaunch
  PROVE  PacketInv'
<1>1. /\ fifo_out' = <<>> /\ Len(fifo_out') = 0 /\ block' = <<>>
      /\ Len(block') = 0 /\ chan' = "off" /\ lost' = CntKept /\ cnt' = CntKept
      /\ CntKept \in Nat
  BY KeptProperties, FirAssumption, EmptySeq DEF Relaunch, ResetCore
<1>2. StillLost' = CntKept
  BY <1>1 DEF StillLost
<1>3. CntInv'
  BY <1>1, <1>2 DEF CntInv, Place
<1>4. BeatInv' /\ BlockInv'
  BY <1>1 DEF BeatInv, BlockInv
<1>5. ASSUME ~late' PROVE CntKept < BlockSize
  <2>1. /\ ~late /\ cnt < BlockSize /\ cnt \in 0 .. CntMod - 1
        /\ args.tlast_dnum = BlockSize \/ ~(CntKept >= BlockSize)
    BY <1>5 DEF Relaunch, PacketInv, LateInv, CoreInv, CallType
  <2>2. /\ CntMod \in Nat /\ BlockSize \in Nat \ {0}
        /\ 2 * BlockSize <= CntMod
    BY FirAssumption, PathAssumption, BlockAssumption
  <2>3. ASSUME args.tlast_dnum = BlockSize, NEW c \in 0 .. BlockSize - 1
        PROVE  AfterBeat(c) \in 0 .. BlockSize - 1
    BY <2>2, <2>3 DEF AfterBeat, Increment
  <2>4. CASE args.tlast_dnum = BlockSize
    <3>1. /\ cnt \in 0 .. BlockSize - 1
          /\ AfterBeat(cnt) \in 0 .. BlockSize - 1
          /\ AfterBeat(AfterBeat(cnt)) \in 0 .. BlockSize - 1
      BY <2>1, <2>2, <2>3, <2>4
    <3>2. CntKept \in 0 .. BlockSize - 1
      BY <3>1 DEF CntKept
    <3>3. QED BY <2>2, <3>2
  <2>5. CASE ~(CntKept >= BlockSize)
    BY <1>1, <2>2, <2>5
  <2>6. QED BY <2>1, <2>4, <2>5
<1>6. LateInv'
  BY <1>1, <1>2, <1>5 DEF LateInv
<1>7. QED BY <1>3, <1>4, <1>6 DEF PacketInv

LEMMA PacketStep == TypeInv /\ PacketInv /\ [Next]_vars => PacketInv'
<1> SUFFICES ASSUME TypeInv, PacketInv, [Next]_vars PROVE PacketInv'
  OBVIOUS
<1>0. CoreInv /\ OutputType
  BY DEF TypeInv
<1>1. CASE Send BY <1>0, <1>1, SendPacket
<1>2. CASE Receive BY <1>0, <1>2, ReceivePacket
<1>3. CASE Relaunch BY <1>0, <1>3, RelaunchPacket
<1>4. CASE UNCHANGED <<cnt, fifo_out, dmaVars, late>>
  BY <1>4 DEF dmaVars, StillLost, PacketInv, CntInv, BeatInv, BlockInv,
              LateInv, Starts, Within, Place, GoodBeat, ChannelAt
<1>5. CASE DmaBoot
  <2>1. CASE chan \in {"off", "idle"}
    BY <1>0, <1>5, <2>1, StartPacket DEF DmaBoot, firVars, callVars
  <2>2. CASE chan \notin {"off", "idle"}
    BY <1>4, <1>5, <2>2 DEF DmaBoot, firVars, callVars
  <2>3. QED BY <2>1, <2>2
<1>6. CASE DmaItBoot
  BY <1>0, <1>6, StartPacket DEF DmaItBoot, firVars, callVars
<1>7. CASE NextTransfer
  BY <1>0, <1>7, StartPacket DEF NextTransfer, firVars, callVars, StillLost
<1>8. QED
  BY <1>1, <1>2, <1>3, <1>4, <1>5, <1>6, <1>7
     DEF Next, vars, firVars, callVars, Software, Codec, Core, CodecInit,
         FirBoot, BeginFirInit, FirBootStep, FirInitStep, WriteCoeff,
         SetTapNumM1, SetSmplRdNum, SetTlastDnum, TlastBoot, Restart,
         StrobeLeft, StrobeRight, TakePair, TakeSamples, Filter, AddTap,
         EndCall

-----------------------------------------------------------------------------
(* Nothing is under way before en rises.                                   *)
QuietCore == ~en => fifo_out = <<>> /\ block = <<>> /\ stage = "input"

LEMMA QuietStep ==
  SkewInv /\ CoreInv /\ QuietCore /\ [Next]_vars => QuietCore'
<1> SUFFICES ASSUME SkewInv, CoreInv, QuietCore, [Next]_vars, ~en'
             PROVE  fifo_out' = <<>> /\ block' = <<>> /\ stage' = "input"
  BY DEF QuietCore
<1>1. CASE Relaunch
  BY <1>1 DEF Relaunch, ResetCore
<1>2. CASE ~Relaunch
  <2>1. ~en /\ fifo_l = <<>> /\ ~CodecInit
    <3>1. en' = en \/ CodecInit
      BY <1>2 DEF Next, vars, codecVars, Software, Codec, Core, FirBoot,
         FirBootStep, TlastBoot, DmaBoot, DmaItBoot, Restart, NextTransfer,
         StrobeLeft, StrobeRight, TakePair, Filter, Send, Result, Receive
    <3>2. ~CodecInit
      BY DEF CodecInit
    <3>3. QED BY <3>1, <3>2 DEF SkewInv, Quiet
  <2>2. fifo_out = <<>> /\ block = <<>> /\ stage = "input"
    BY <2>1 DEF QuietCore
  <2>3. ~TakePair /\ ~Send /\ ~Filter /\ ~Receive
    BY <2>1, <2>2
       DEF TakePair, Send, WriteLeft, WriteRight, Filter, AddTap, EndCall,
           Receive
  <2>4. block' \in {block, <<>>} /\ UNCHANGED <<fifo_out, stage>>
    BY <1>2, <2>1, <2>3 DEF Next, vars, firVars, callVars, dmaVars, Software,
       Codec, Core, FirBoot, BeginFirInit, FirBootStep, FirInitStep,
       WriteCoeff, SetTapNumM1, SetSmplRdNum, SetTlastDnum, TlastBoot,
       DmaBoot, DmaItBoot, Restart, NextTransfer, StrobeLeft, StrobeRight
  <2>5. QED BY <2>2, <2>4
<1>3. QED BY <1>1, <1>2

(* In a program that sets tlast_dnum before the codec's samples flow, no   *)
(* call starts with another value.                                         *)
BootInv ==
  FramesBeforeSamples =>
    /\ ~late
    /\ en => tlast_dnum = BlockSize
    /\ stage # "input" => args.tlast_dnum = BlockSize
    /\ \A i \in 1 .. boot - 1 :
         program[i] \in {"fir", "tlast"} /\ fi = Done =>
           tlast_dnum = BlockSize

LEMMA BootStep ==
  SkewInv /\ TypeInv /\ PacketInv /\ BootInv /\ [Next]_vars => BootInv'
<1> SUFFICES ASSUME SkewInv, TypeInv, PacketInv, BootInv, [Next]_vars,
                    FramesBeforeSamples'
             PROVE  BootInv'
  BY DEF BootInv
<1> USE DEF BootInv
<1>0. program' = program
  BY DEF Next, vars, bootVars, Software, Codec, Core, CodecInit, FirBoot,
     FirBootStep, TlastBoot, DmaBoot, DmaItBoot, Restart, Relaunch,
     NextTransfer, StrobeLeft, StrobeRight, TakePair, Filter, Send, Result,
     Receive
<1>1. FramesBeforeSamples
  BY <1>0 DEF FramesBeforeSamples
<1>2. /\ ~late
      /\ en => tlast_dnum = BlockSize
      /\ stage # "input" => args.tlast_dnum = BlockSize
      /\ \A i \in 1 .. boot - 1 :
           program[i] \in {"fir", "tlast"} /\ fi = Done =>
             tlast_dnum = BlockSize
  BY <1>1
<1>3. /\ boot \in Nat /\ BufSize \in Nat \ {0} /\ Done = BufSize + 3
  BY FirAssumption, PathAssumption, LenProperties
     DEF TypeInv, BootType, Done
<1>4. CASE CodecInit
  <2>1. /\ boot \in DOMAIN program /\ program[boot] = "codec" /\ fi = Done
        /\ boot' = boot + 1 /\ UNCHANGED <<firVars, late>>
    BY <1>4 DEF CodecInit, Calls
  <2>2. tlast_dnum = BlockSize
    BY <1>1, <1>2, <2>1 DEF FramesBeforeSamples
  <2>3. QED
    BY <1>0, <1>2, <2>1, <2>2 DEF firVars, regVars, callVars
<1>5. CASE FirBoot
  BY <1>2, <1>3, <1>5 DEF FirBoot, BeginFirInit, regVars, callVars, codecVars
<1>6. CASE FirBootStep
  <2>1. tlast_dnum' = tlast_dnum \/ tlast_dnum' = BlockSize
    BY <1>3, <1>6, BlockAssumption
       DEF FirBootStep, FirInitStep, WriteCoeff, SetTapNumM1, SetSmplRdNum,
           SetTlastDnum, TypeInv, RegType
  <2>2. fi' = Done => tlast_dnum' = BlockSize
    BY <1>3, <1>6, BlockAssumption
       DEF FirBootStep, FirInitStep, WriteCoeff, SetTapNumM1, SetSmplRdNum,
           SetTlastDnum, TypeInv, RegType, Index
  <2>3. UNCHANGED <<late, en, stage, args, boot>>
    BY <1>6 DEF FirBootStep, FirInitStep, WriteCoeff, SetTapNumM1,
       SetSmplRdNum, SetTlastDnum, callVars, codecVars, bootVars
  <2>4. QED BY <1>2, <2>1, <2>2, <2>3
<1>7. CASE TlastBoot
  BY <1>2, <1>7 DEF TlastBoot, callVars, codecVars
<1>8. CASE DmaBoot \/ DmaItBoot
  <2>1. /\ program[boot] \in {"dma", "dma_it"} /\ boot' = boot + 1
        /\ UNCHANGED <<firVars, codecVars, late>>
    BY <1>8 DEF DmaBoot, DmaItBoot, Calls
  <2>2. QED
    BY <1>0, <1>2, <1>3, <2>1
       DEF firVars, regVars, callVars, initVars, codecVars
<1>9. CASE Restart
  BY <1>2, <1>9 DEF Restart, regVars, callVars, codecVars
<1>10. CASE Relaunch
  <2>1. ~late'
    <3>1. CASE stage = "input"
      <4>1. CntKept = cnt /\ cnt < BlockSize
        BY <1>2, <3>1 DEF CntKept, PacketInv, LateInv
      <4>2. cnt \in Int /\ BlockSize \in Int
        BY FirAssumption, PathAssumption DEF TypeInv, CoreInv, CallType
      <4>3. ~(CntKept >= BlockSize)
        BY <4>1, <4>2
      <4>4. QED BY <1>2, <1>10, <4>3 DEF Relaunch
    <3>2. CASE stage # "input"
      BY <1>2, <1>10, <3>2 DEF Relaunch
    <3>3. QED BY <3>1, <3>2
  <2>2. QED BY <1>10, <2>1 DEF Relaunch, ResetCore
<1>11. CASE TakePair
  <2>1. en
    BY <1>11 DEF TakePair, SkewInv, Quiet
  <2>2. QED
    BY <1>2, <1>11, <2>1
       DEF TakePair, TakeSamples, bootVars, codecVars, regVars, initVars
<1>12. CASE Filter
  BY <1>2, <1>12
     DEF Filter, AddTap, EndCall, bootVars, codecVars, regVars, initVars
<1>13. CASE Send
  <2>1. PICK c \in {"left", "right"}, b \in PathBeat : Sends(c, b)
    BY <1>13, SendProperties DEF TypeInv
  <2>2. args.tlast_dnum = BlockSize
    BY <1>2, <2>1 DEF Sends
  <2>3. QED
    BY <1>2, <2>1, <2>2 DEF Sends, bootVars, codecVars, regVars, initVars
<1>14. CASE UNCHANGED <<late, en, stage, args, boot, fi, tlast_dnum>>
  BY <1>0, <1>2, <1>14
<1>15. QED
  BY <1>4, <1>5, <1>6, <1>7, <1>8, <1>9, <1>10, <1>11, <1>12, <1>13, <1>14
     DEF Next, vars, firVars, regVars, callVars, initVars, bootVars,
         codecVars, Software, Codec, Core, NextTransfer, StrobeLeft,
         StrobeRight, Receive

-----------------------------------------------------------------------------
(***************************************************************************)
(* The samples of a channel are in order from the codec to the block: of   *)
(* the frames up to Newest, first those that were sent, then the one the   *)
(* call holds, then those in the input FIFO.                               *)
(***************************************************************************)
Fifo(c) == IF c = "left" THEN fifo_l ELSE fifo_r
Held(c) == IF c = "left" THEN buffer_left[write_idx]
                         ELSE buffer_right[write_idx]
Newest(c) == IF c = "right" /\ half = "right" THEN frame - 1 ELSE frame

(* The call has still to send its result on the channel.                   *)
Owes(c) == stage \in {"loop", "left"} \/ (c = "right" /\ stage = "right")

FifoOrder(c) ==
  /\ \A i \in 1 .. Len(Fifo(c)) : Fifo(c)[i] <= Newest(c)
  /\ \A i, j \in 1 .. Len(Fifo(c)) : i < j => Fifo(c)[i] < Fifo(c)[j]

HeldOrder(c) ==
  stage # "input" =>
    /\ Held(c) <= Newest(c)
    /\ \A i \in 1 .. Len(Fifo(c)) : Held(c) < Fifo(c)[i]

Sent(sample, c) ==
  /\ sample <= Newest(c)
  /\ Owes(c) => sample < Held(c)
  /\ \A i \in 1 .. Len(Fifo(c)) : sample < Fifo(c)[i]

BeatsSent(c) ==
  /\ \A k \in 1 .. Len(block) :
       block[k].channel = c => Sent(block[k].sample, c)
  /\ \A k \in 1 .. Len(fifo_out) :
       fifo_out[k].channel = c => Sent(fifo_out[k].sample, c)

Before(a, b) == a.channel = b.channel => a.sample < b.sample

BeatOrder ==
  /\ \A j, k \in 1 .. Len(block) : j < k => Before(block[j], block[k])
  /\ \A j, k \in 1 .. Len(fifo_out) :
       j < k => Before(fifo_out[j], fifo_out[k])
  /\ \A j \in 1 .. Len(block) : \A k \in 1 .. Len(fifo_out) :
       Before(block[j], fifo_out[k])

OrderInv ==
  /\ \A c \in {"left", "right"} : FifoOrder(c) /\ HeldOrder(c) /\ BeatsSent(c)
  /\ BeatOrder

LEMMA OrderTypes ==
  ASSUME TypeInv, NEW c \in {"left", "right"}
  PROVE  /\ Fifo(c) \in Seq(0 .. MaxFrames) /\ Len(Fifo(c)) \in Nat
         /\ \A i \in 1 .. Len(Fifo(c)) : Fifo(c)[i] \in Nat
         /\ Held(c) \in Nat /\ Newest(c) \in Int
         /\ Len(block) \in Nat /\ Len(fifo_out) \in Nat
         /\ \A k \in 1 .. Len(block) : block[k] \in PathBeat
         /\ \A k \in 1 .. Len(fifo_out) : fifo_out[k] \in PathBeat
<1>1. Fifo(c) \in Seq(0 .. MaxFrames) /\ MaxFrames \in Nat
  BY PathAssumption DEF TypeInv, InputType, Fifo
<1>2. Held(c) \in Nat /\ Newest(c) \in Int
  BY <1>1 DEF TypeInv, InputType, CoreInv, CallType, Held, Newest
<1>3. block \in Seq(PathBeat) /\ fifo_out \in Seq(PathBeat)
  BY DEF TypeInv, OutputType
<1>4. QED BY <1>1, <1>2, <1>3, LenProperties, ElementOfSeq

(* What a step leaves of a channel's order when it leaves the beats alone. *)
LEMMA ChannelStep ==
  ASSUME TypeInv, OrderInv, NEW c \in {"left", "right"},
         UNCHANGED <<fifo_out, block>>,
         FifoOrder(c)', HeldOrder(c)',
         \A sample \in Nat : Sent(sample, c) => Sent(sample, c)'
  PROVE  (FifoOrder(c) /\ HeldOrder(c) /\ BeatsSent(c))'
<1>1. /\ \A k \in 1 .. Len(block) : block[k].sample \in Nat
      /\ \A k \in 1 .. Len(fifo_out) : fifo_out[k].sample \in Nat
  BY OrderTypes, PathAssumption DEF PathBeat
<1>2. BeatsSent(c)'
  BY <1>1 DEF OrderInv, BeatsSent
<1>3. QED BY <1>2

(* A strobe adds the channel's next frame, unless the FIFO refuses it.     *)
LEMMA StrobeOrder ==
  ASSUME TypeInv, OrderInv, StrobeLeft \/ StrobeRight
  PROVE  OrderInv'
<1>0. UNCHANGED <<stage, buffer_left, buffer_right, write_idx, fifo_out, block>>
  BY DEF StrobeLeft, StrobeRight, firVars, callVars, dmaVars
<1>1. ASSUME NEW c \in {"left", "right"}
      PROVE  (FifoOrder(c) /\ HeldOrder(c) /\ BeatsSent(c))'
  <2>1. /\ FifoOrder(c) /\ HeldOrder(c)
        /\ Fifo(c) \in Seq(0 .. MaxFrames) /\ Len(Fifo(c)) \in Nat
        /\ \A i \in 1 .. Len(Fifo(c)) : Fifo(c)[i] \in Nat
        /\ Held(c) \in Nat /\ Newest(c) \in Int /\ frame \in Nat
    BY OrderTypes DEF OrderInv, TypeInv, InputType
  <2>2. Held(c)' = Held(c) /\ (Owes(c)' <=> Owes(c)) /\ stage' = stage
    BY <1>0 DEF Held, Owes
  <2>3. \/ Newest(c)' = Newest(c) /\ Fifo(c)' = Fifo(c)
        \/ /\ Newest(c)' = Newest(c) + 1
           /\ Fifo(c)' = Write(Fifo(c), Newest(c) + 1)
    <3>1. CASE StrobeLeft /\ c = "left"
      BY <2>1, <3>1 DEF StrobeLeft, Newest, Fifo
    <3>2. CASE StrobeLeft /\ c = "right"
      BY <2>1, <3>2 DEF StrobeLeft, Newest, Fifo
    <3>3. CASE StrobeRight /\ c = "left"
      BY <2>1, <3>3 DEF StrobeRight, Newest, Fifo
    <3>4. CASE StrobeRight /\ c = "right"
      BY <2>1, <3>4 DEF StrobeRight, Newest, Fifo
    <3>5. QED BY <3>1, <3>2, <3>3, <3>4
  <2>4. PICK N \in Int : N = Newest(c)
    BY <2>1
  <2>5. PICK f \in Seq(0 .. MaxFrames) : f = Fifo(c)
    BY <2>1
  <2>6. /\ Newest(c)' \in {N, N + 1}
        /\ \/ Fifo(c)' = f
           \/ /\ Newest(c)' = N + 1 /\ Fifo(c)' = Append(f, N + 1)
    BY <2>3, <2>4, <2>5 DEF Write
  <2>7. ASSUME Newest(c)' = N + 1, Fifo(c)' = Append(f, N + 1)
        PROVE  /\ Len(Fifo(c)') = Len(f) + 1
               /\ \A i \in 1 .. Len(f) : Fifo(c)'[i] = f[i]
               /\ Fifo(c)'[Len(f) + 1] = N + 1
    <3>1. f \in Seq(Int)
      <4>1. 0 .. MaxFrames \subseteq Int
        BY PathAssumption
      <4>2. QED BY <4>1, SeqMonotonic
    <3>2. QED BY <2>7, <3>1, AppendOne
  <2>8. FifoOrder(c)'
    <3>1. CASE Fifo(c)' = f
      BY <2>1, <2>4, <2>5, <2>6, <3>1 DEF FifoOrder
    <3>2. CASE Newest(c)' = N + 1 /\ Fifo(c)' = Append(f, N + 1)
      BY <2>1, <2>4, <2>5, <2>7, <3>2 DEF FifoOrder
    <3>3. QED BY <2>6, <3>1, <3>2
  <2>9. ASSUME NEW s \in Nat, s <= N, \A i \in 1 .. Len(f) : s < f[i]
        PROVE  /\ s <= Newest(c)'
               /\ \A i \in 1 .. Len(Fifo(c)') : s < Fifo(c)'[i]
    <3>1. CASE Fifo(c)' = f
      BY <2>6, <2>9, <3>1
    <3>2. CASE Newest(c)' = N + 1 /\ Fifo(c)' = Append(f, N + 1)
      BY <2>1, <2>5, <2>7, <2>9, <3>2
    <3>3. QED BY <2>6, <3>1, <3>2
  <2>10. HeldOrder(c)'
    BY <2>1, <2>2, <2>4, <2>5, <2>9 DEF HeldOrder
  <2>11. ASSUME NEW s \in Nat, Sent(s, c)
         PROVE  Sent(s, c)'
    BY <2>2, <2>4, <2>5, <2>9, <2>11 DEF Sent
  <2>12. QED BY <1>0, <2>8, <2>10, <2>11, ChannelStep
<1>2. BeatOrder'
  BY <1>0 DEF OrderInv, BeatOrder, Before
<1>3. QED BY <1>1, <1>2 DEF OrderInv

(* A call holds the samples at the heads of the FIFOs.                     *)
LEMMA TakePairOrder ==
  ASSUME TypeInv, OrderInv, TakePair
  PROVE  OrderInv'
<1>0. /\ UNCHANGED <<half, frame, fifo_out, block, write_idx>>
      /\ stage = "input"
      /\ buffer_left' = [buffer_left EXCEPT ![write_idx] = Head(fifo_l)]
      /\ buffer_right' = [buffer_right EXCEPT ![write_idx] = Head(fifo_r)]
  BY DEF TakePair, TakeSamples, codecVars, dmaVars
<1>1. ASSUME NEW c \in {"left", "right"}
      PROVE  (FifoOrder(c) /\ HeldOrder(c) /\ BeatsSent(c))'
  <2>1. /\ FifoOrder(c)
        /\ Fifo(c) \in Seq(0 .. MaxFrames) /\ Fifo(c) # <<>>
        /\ \A i \in 1 .. Len(Fifo(c)) : Fifo(c)[i] \in Nat
        /\ Newest(c) \in Int /\ Newest(c)' = Newest(c) /\ ~Owes(c)
        /\ Fifo(c)' = Tail(Fifo(c))
    BY <1>0, OrderTypes DEF OrderInv, TakePair, Fifo, Newest, Owes
  <2>2. /\ Len(Fifo(c)) \in Nat \ {0}
        /\ Head(Fifo(c)) = Fifo(c)[1]
        /\ Len(Fifo(c)') = Len(Fifo(c)) - 1
        /\ \A i \in 1 .. Len(Fifo(c)) - 1 : Fifo(c)'[i] = Fifo(c)[i + 1]
    BY <2>1, TailOne
  <2>3. Held(c)' = Fifo(c)[1]
    <3>1. buffer_left \in [Index -> 0 .. MaxFrames]
          /\ buffer_right \in [Index -> 0 .. MaxFrames] /\ write_idx \in Index
      BY DEF TypeInv, CoreInv, CallType
    <3>2. Held(c)' = Head(Fifo(c))
      BY <1>0, <3>1 DEF Held, Fifo
    <3>3. QED BY <2>2, <3>2
  <2>4. ASSUME NEW i \in 1 .. Len(Fifo(c)')
        PROVE  /\ i + 1 \in 1 .. Len(Fifo(c)) /\ 1 \in 1 .. Len(Fifo(c))
               /\ Fifo(c)'[i] = Fifo(c)[i + 1]
    BY <2>2
  <2>5. FifoOrder(c)'
    <3>1. \A i \in 1 .. Len(Fifo(c)') : Fifo(c)'[i] <= Newest(c)'
      BY <2>1, <2>4 DEF FifoOrder
    <3>2. ASSUME NEW i \in 1 .. Len(Fifo(c)'), NEW j \in 1 .. Len(Fifo(c)'),
                 i < j
          PROVE  Fifo(c)'[i] < Fifo(c)'[j]
      <4>1. /\ i + 1 \in 1 .. Len(Fifo(c)) /\ Fifo(c)'[i] = Fifo(c)[i + 1]
            /\ j + 1 \in 1 .. Len(Fifo(c)) /\ Fifo(c)'[j] = Fifo(c)[j + 1]
            /\ i + 1 < j + 1
        BY <2>2, <2>4, <3>2
      <4>2. QED BY <2>1, <4>1 DEF FifoOrder
    <3>3. QED BY <3>1, <3>2 DEF FifoOrder
  <2>6. /\ Held(c)' <= Newest(c)'
        /\ \A i \in 1 .. Len(Fifo(c)') : Held(c)' < Fifo(c)'[i]
    <3>1. 1 \in 1 .. Len(Fifo(c))
      BY <2>2
    <3>2. Held(c)' <= Newest(c)'
      BY <2>1, <2>3, <3>1 DEF FifoOrder
    <3>3. ASSUME NEW i \in 1 .. Len(Fifo(c)')
          PROVE  Held(c)' < Fifo(c)'[i]
      <4>1. i + 1 \in 1 .. Len(Fifo(c)) /\ Fifo(c)'[i] = Fifo(c)[i + 1]
            /\ 1 < i + 1
        BY <2>2, <2>4
      <4>2. QED BY <2>1, <2>3, <3>1, <4>1 DEF FifoOrder
    <3>4. QED BY <3>2, <3>3
  <2>7. HeldOrder(c)'
    BY <2>6 DEF HeldOrder
  <2>8. ASSUME NEW s \in Nat, Sent(s, c)
        PROVE  Sent(s, c)'
    <3>1. s < Fifo(c)[1]
      BY <2>2, <2>8 DEF Sent
    <3>2. \A i \in 1 .. Len(Fifo(c)') : s < Fifo(c)'[i]
      BY <2>4, <2>8 DEF Sent
    <3>3. QED BY <2>1, <2>3, <2>8, <3>1, <3>2 DEF Sent
  <2>9. QED BY <1>0, <2>5, <2>7, <2>8, ChannelStep
<1>2. BeatOrder'
  BY <1>0 DEF OrderInv, BeatOrder, Before
<1>3. QED BY <1>1, <1>2 DEF OrderInv

(* A beat that is sent is the sample the call holds.                       *)
LEMMA SendOrder ==
  ASSUME TypeInv, OrderInv, Send
  PROVE  OrderInv'
<1>s. PICK d \in {"left", "right"}, b \in PathBeat : Sends(d, b)
  BY SendProperties DEF TypeInv
<1>n. PICK n \in Nat : n = Len(fifo_out)
  BY OrderTypes
<1>1. /\ stage = d /\ stage' \in {"right", "next"}
      /\ stage' = "right" => d = "left"
      /\ b.channel = d /\ b.sample = Held(d) /\ Owes(d) /\ ~Owes(d)'
      /\ \A c \in {"left", "right"} : Owes(c)' => Owes(c)
      /\ UNCHANGED <<half, frame, fifo_l, fifo_r, block, buffer_left,
                     buffer_right, write_idx>>
  BY <1>s DEF Sends, Held, Owes, codecVars, inVars, dmaVars
<1>2. /\ Len(fifo_out') = n + 1
      /\ \A i \in 1 .. n : fifo_out'[i] = fifo_out[i]
      /\ fifo_out'[n + 1] = b
  BY <1>s, <1>n, AppendOne DEF Sends, TypeInv, OutputType
<1>3. ASSUME NEW c \in {"left", "right"}
      PROVE  (FifoOrder(c) /\ HeldOrder(c) /\ BeatsSent(c))'
  <2>1. /\ FifoOrder(c) /\ HeldOrder(c) /\ BeatsSent(c)
        /\ Held(c)' = Held(c) /\ Newest(c)' = Newest(c)
        /\ Fifo(c)' = Fifo(c)
    BY <1>1 DEF OrderInv, Held, Newest, Fifo
  <2>2. FifoOrder(c)'
    BY <2>1 DEF FifoOrder
  <2>3. HeldOrder(c)'
    BY <1>1, <2>1 DEF HeldOrder
  <2> DEFINE P(s) == /\ s <= Newest(c)'
                     /\ Owes(c)' => s < Held(c)'
                     /\ \A i \in 1 .. Len(Fifo(c)') : s < Fifo(c)'[i]
  <2>4. ASSUME NEW s, Sent(s, c) PROVE P(s)
    BY <1>1, <2>1, <2>4 DEF Sent
  <2>5. ASSUME c = d PROVE P(b.sample)
    BY <1>1, <2>1, <2>5 DEF Sent, HeldOrder
  <2>6. \A k \in 1 .. Len(block') :
          block'[k].channel = c => P(block'[k].sample)
    BY <1>1, <2>1, <2>4 DEF BeatsSent
  <2>7. ASSUME NEW k \in 1 .. Len(fifo_out'), fifo_out'[k].channel = c
        PROVE  P(fifo_out'[k].sample)
    <3>1. CASE k \in 1 .. n
      BY <1>n, <1>2, <2>1, <2>4, <2>7, <3>1 DEF BeatsSent
    <3>2. CASE k = n + 1
      BY <1>1, <1>2, <2>5, <2>7, <3>2
    <3>3. QED BY <1>2, <3>1, <3>2
  <2>8. BeatsSent(c)'
    BY <2>6, <2>7 DEF BeatsSent, Sent
  <2>9. QED BY <2>2, <2>3, <2>8
<1>4. /\ \A k \in 1 .. Len(block) : Before(block[k], b)
      /\ \A k \in 1 .. n : Before(fifo_out[k], b)
  BY <1>n, <1>1 DEF OrderInv, BeatsSent, Sent, Before
<1>5. BeatOrder'
  <2>1. ASSUME NEW j \in 1 .. Len(fifo_out'), NEW k \in 1 .. Len(fifo_out'),
               j < k
        PROVE  Before(fifo_out'[j], fifo_out'[k])
    <3>1. j \in 1 .. n /\ fifo_out'[j] = fifo_out[j]
      BY <1>2, <2>1
    <3>2. CASE k \in 1 .. n
      BY <1>n, <1>2, <2>1, <3>1, <3>2 DEF OrderInv, BeatOrder
    <3>3. CASE k = n + 1
      BY <1>2, <1>4, <3>1, <3>3
    <3>4. QED BY <1>2, <3>2, <3>3
  <2>2. ASSUME NEW j \in 1 .. Len(block), NEW k \in 1 .. Len(fifo_out')
        PROVE  Before(block[j], fifo_out'[k])
    <3>1. CASE k \in 1 .. n
      BY <1>n, <1>2, <3>1 DEF OrderInv, BeatOrder
    <3>2. CASE k = n + 1
      BY <1>2, <1>4, <3>2
    <3>3. QED BY <1>2, <3>1, <3>2
  <2>3. \A j, k \in 1 .. Len(block) : j < k => Before(block[j], block[k])
    BY DEF OrderInv, BeatOrder
  <2>4. QED BY <1>1, <2>1, <2>2, <2>3 DEF BeatOrder, Before
<1>6. QED BY <1>3, <1>5 DEF OrderInv

(* The first beat of fifo_out becomes the last one of block.               *)
LEMMA ReceiveOrder ==
  ASSUME TypeInv, OrderInv, Receive
  PROVE  OrderInv'
<1>n. PICK n \in Nat : n = Len(fifo_out)
  BY OrderTypes
<1>m. PICK m \in Nat : m = Len(block)
  BY OrderTypes
<1>1. /\ n > 0 /\ Head(fifo_out) = fifo_out[1] /\ Len(fifo_out') = n - 1
      /\ \A i \in 1 .. n - 1 : fifo_out'[i] = fifo_out[i + 1]
      /\ fifo_out[1] \in PathBeat
  BY <1>n, TailOne DEF Receive, TypeInv, OutputType
<1>2. /\ Len(block') = m + 1
      /\ \A i \in 1 .. m : block'[i] = block[i]
      /\ block'[m + 1] = fifo_out[1]
  BY <1>m, <1>1, AppendOne DEF Receive, TypeInv, OutputType
<1>3. UNCHANGED <<half, frame, fifo_l, fifo_r, stage, buffer_left,
                  buffer_right, write_idx>>
  BY DEF Receive, firVars, callVars, codecVars, inVars
<1>4. ASSUME NEW c \in {"left", "right"}
      PROVE  (FifoOrder(c) /\ HeldOrder(c) /\ BeatsSent(c))'
  <2>1. /\ FifoOrder(c) /\ HeldOrder(c) /\ BeatsSent(c)
        /\ Held(c)' = Held(c) /\ Newest(c)' = Newest(c)
        /\ Fifo(c)' = Fifo(c) /\ (Owes(c)' <=> Owes(c))
    BY <1>3 DEF OrderInv, Held, Newest, Fifo, Owes
  <2>2. FifoOrder(c)'
    BY <2>1 DEF FifoOrder
  <2>3. HeldOrder(c)'
    BY <1>3, <2>1 DEF HeldOrder
  <2> DEFINE P(s) == /\ s <= Newest(c)'
                     /\ Owes(c)' => s < Held(c)'
                     /\ \A i \in 1 .. Len(Fifo(c)') : s < Fifo(c)'[i]
  <2>4. ASSUME NEW s, Sent(s, c) PROVE P(s)
    BY <2>1, <2>4 DEF Sent
  <2>5. ASSUME NEW k \in 1 .. n, fifo_out[k].channel = c
        PROVE  P(fifo_out[k].sample)
    BY <1>n, <2>1, <2>4, <2>5 DEF BeatsSent
  <2>6. ASSUME NEW k \in 1 .. m, block[k].channel = c
        PROVE  P(block[k].sample)
    BY <1>m, <2>1, <2>4, <2>6 DEF BeatsSent
  <2>7. ASSUME NEW k \in 1 .. Len(block'), block'[k].channel = c
        PROVE  P(block'[k].sample)
    <3>1. CASE k \in 1 .. m
      BY <1>2, <2>6, <2>7, <3>1
    <3>2. CASE k = m + 1
      BY <1>1, <1>2, <2>5, <2>7, <3>2
    <3>3. QED BY <1>2, <3>1, <3>2
  <2>8. ASSUME NEW k \in 1 .. Len(fifo_out'), fifo_out'[k].channel = c
        PROVE  P(fifo_out'[k].sample)
    <3>1. k + 1 \in 1 .. n /\ fifo_out'[k] = fifo_out[k + 1]
      BY <1>1
    <3>2. QED BY <2>5, <2>8, <3>1
  <2>9. BeatsSent(c)'
    BY <2>7, <2>8 DEF BeatsSent, Sent
  <2>10. QED BY <2>2, <2>3, <2>9
<1>5. ASSUME NEW k \in 1 .. n - 1
      PROVE  /\ k + 1 \in 1 .. n /\ 1 \in 1 .. n /\ 1 < k + 1
             /\ fifo_out'[k] = fifo_out[k + 1]
  BY <1>1
<1>6. BeatOrder'
  <2>1. ASSUME NEW j \in 1 .. m + 1, NEW k \in 1 .. m + 1, j < k
        PROVE  Before(block'[j], block'[k])
    <3>1. j \in 1 .. m /\ block'[j] = block[j]
      BY <1>2, <2>1
    <3>2. CASE k \in 1 .. m
      BY <1>m, <1>2, <2>1, <3>1, <3>2 DEF OrderInv, BeatOrder
    <3>3. CASE k = m + 1
      <4>1. 1 \in 1 .. n
        BY <1>1
      <4>2. QED BY <1>m, <1>n, <1>2, <3>1, <3>3, <4>1 DEF OrderInv, BeatOrder
    <3>4. QED BY <3>2, <3>3
  <2>2. ASSUME NEW j \in 1 .. n - 1, NEW k \in 1 .. n - 1, j < k
        PROVE  Before(fifo_out'[j], fifo_out'[k])
    <3>1. j + 1 < k + 1
      BY <2>2
    <3>2. QED BY <1>n, <1>5, <3>1 DEF OrderInv, BeatOrder
  <2>3. ASSUME NEW j \in 1 .. m + 1, NEW k \in 1 .. n - 1
        PROVE  Before(block'[j], fifo_out'[k])
    <3>1. CASE j \in 1 .. m
      BY <1>m, <1>n, <1>2, <1>5, <3>1 DEF OrderInv, BeatOrder
    <3>2. CASE j = m + 1
      BY <1>n, <1>2, <1>5, <3>2 DEF OrderInv, BeatOrder
    <3>3. QED BY <3>1, <3>2
  <2>4. QED BY <1>1, <1>2, <2>1, <2>2, <2>3 DEF BeatOrder, Before
<1>7. QED BY <1>4, <1>6 DEF OrderInv

(* A new transfer starts with an empty block.                              *)
LEMMA ClearOrder ==
  ASSUME OrderInv, block' = <<>>,
         UNCHANGED <<half, frame, fifo_l, fifo_r, stage, buffer_left,
                     buffer_right, write_idx, fifo_out>>
  PROVE  OrderInv'
<1>1. Len(block') = 0
  BY EmptySeq
<1>2. ASSUME NEW c \in {"left", "right"}
      PROVE  (FifoOrder(c) /\ HeldOrder(c) /\ BeatsSent(c))'
  <2>1. /\ FifoOrder(c) /\ HeldOrder(c) /\ BeatsSent(c)
        /\ Held(c)' = Held(c) /\ Newest(c)' = Newest(c)
        /\ Fifo(c)' = Fifo(c) /\ (Owes(c)' <=> Owes(c))
    BY DEF OrderInv, Held, Newest, Fifo, Owes
  <2>2. FifoOrder(c)'
    BY <2>1 DEF FifoOrder
  <2>3. HeldOrder(c)'
    BY <2>1 DEF HeldOrder
  <2>4. ASSUME NEW s, Sent(s, c) PROVE Sent(s, c)'
    BY <2>1, <2>4 DEF Sent
  <2>5. QED BY <1>1, <2>1, <2>2, <2>3, <2>4 DEF BeatsSent
<1>3. BeatOrder'
  BY <1>1 DEF OrderInv, BeatOrder, Before
<1>4. QED BY <1>2, <1>3 DEF OrderInv

(* A step of the loop, or the end of a call: what is owed does not grow.   *)
LEMMA FilterOrder ==
  ASSUME OrderInv, AddTap \/ EndCall,
         UNCHANGED <<half, frame, fifo_l, fifo_r, fifo_out, block>>
  PROVE  OrderInv'
<1>1. \/ stage # "input" /\ UNCHANGED <<buffer_left, buffer_right, write_idx>>
      \/ stage' = "input"
  BY DEF AddTap, EndCall
<1>2. ASSUME NEW c \in {"left", "right"}
      PROVE  (FifoOrder(c) /\ HeldOrder(c) /\ BeatsSent(c))'
  <2>1. /\ FifoOrder(c) /\ HeldOrder(c) /\ BeatsSent(c)
        /\ Newest(c)' = Newest(c) /\ Fifo(c)' = Fifo(c)
    BY DEF OrderInv, Newest, Fifo
  <2>2. Owes(c)' => Owes(c) /\ Held(c)' = Held(c)
    BY DEF AddTap, EndCall, Owes, Held
  <2>3. FifoOrder(c)'
    BY <2>1 DEF FifoOrder
  <2>4. HeldOrder(c)'
    BY <1>1, <2>1 DEF HeldOrder, Held
  <2>5. ASSUME NEW s, Sent(s, c) PROVE Sent(s, c)'
    BY <2>1, <2>2, <2>5 DEF Sent
  <2>6. QED BY <2>1, <2>3, <2>4, <2>5 DEF BeatsSent
<1>3. BeatOrder'
  BY DEF OrderInv, BeatOrder, Before
<1>4. QED BY <1>2, <1>3 DEF OrderInv

(* Nothing is out of order where nothing is.                               *)
EmptyPath ==
  /\ fifo_l = <<>> /\ fifo_r = <<>> /\ fifo_out = <<>> /\ block = <<>>
  /\ stage = "input"

LEMMA EmptyOrder == EmptyPath => OrderInv
<1> SUFFICES ASSUME EmptyPath PROVE OrderInv
  OBVIOUS
<1> USE DEF EmptyPath
<1>1. Len(fifo_out) = 0 /\ Len(block) = 0
  BY EmptySeq
<1>2. \A c \in {"left", "right"} : Len(Fifo(c)) = 0
  BY EmptySeq DEF Fifo
<1>3. QED
  BY <1>1, <1>2 DEF OrderInv, FifoOrder, HeldOrder, BeatsSent, BeatOrder

LEMMA OrderStep ==
  SkewInv /\ TypeInv /\ QuietCore /\ OrderInv /\ [Next]_vars => OrderInv'
<1> SUFFICES ASSUME SkewInv, TypeInv, QuietCore, OrderInv, [Next]_vars
             PROVE  OrderInv'
  OBVIOUS
<1>1. CASE StrobeLeft \/ StrobeRight BY <1>1, StrobeOrder
<1>2. CASE TakePair BY <1>2, TakePairOrder
<1>3. CASE Send BY <1>3, SendOrder
<1>4. CASE Receive BY <1>4, ReceiveOrder
<1>5. CASE Filter
  BY <1>5, FilterOrder DEF Filter, codecVars, inVars, dmaVars
<1>6. CASE UNCHANGED <<half, frame, fifo_l, fifo_r, stage, buffer_left,
                       buffer_right, write_idx, fifo_out, block>>
  BY <1>6 DEF OrderInv, FifoOrder, HeldOrder, BeatsSent, BeatOrder, Before,
              Sent, Fifo, Held, Newest, Owes
<1>7. CASE DmaBoot
  <2>1. CASE block' = <<>>
    BY <1>7, <2>1, ClearOrder DEF DmaBoot, firVars, callVars, codecVars, inVars
  <2>2. CASE block' = block
    BY <1>6, <1>7, <2>2 DEF DmaBoot, firVars, callVars, codecVars, inVars
  <2>3. QED BY <1>7, <2>1, <2>2 DEF DmaBoot, dmaVars
<1>8. CASE DmaItBoot \/ NextTransfer
  BY <1>8, ClearOrder
     DEF DmaItBoot, NextTransfer, firVars, callVars, codecVars, inVars
<1>9. CASE CodecInit
  <2>1. UNCHANGED <<fifo_l, fifo_r, stage, buffer_left, buffer_right,
                    write_idx, fifo_out, block, frame>>
    BY <1>9 DEF CodecInit, firVars, callVars, inVars, dmaVars
  <2>2. CASE en
    BY <1>6, <1>9, <2>1, <2>2 DEF CodecInit
  <2>3. CASE ~en
    <3>1. EmptyPath'
      BY <2>1, <2>3 DEF EmptyPath, SkewInv, Quiet, QuietCore
    <3>2. QED BY <3>1, EmptyOrder, PTL
  <2>4. QED BY <2>2, <2>3
<1>10. CASE Relaunch
  <2>1. EmptyPath'
    BY <1>10 DEF EmptyPath, Relaunch, ResetCore
  <2>2. QED BY <2>1, EmptyOrder, PTL
<1>11. QED
  BY <1>1, <1>2, <1>3, <1>4, <1>5, <1>6, <1>7, <1>8, <1>9, <1>10
     DEF Next, vars, firVars, callVars, codecVars, inVars, dmaVars, Software,
         Codec, Core, FirBoot, BeginFirInit, FirBootStep, FirInitStep,
         WriteCoeff, SetTapNumM1, SetSmplRdNum, SetTlastDnum, TlastBoot,
         Restart

-----------------------------------------------------------------------------
PathInv ==
  SkewInv /\ TypeInv /\ PacketInv /\ QuietCore /\ BootInv /\ OrderInv

LEMMA PathInit == Init => PathInv
<1> SUFFICES ASSUME Init PROVE PathInv
  OBVIOUS
<1>1. SkewInv /\ TypeInv /\ PacketInv
  BY InitInv, TypeInvInit, PacketInit
<1>2. QuietCore
  BY DEF QuietCore, Init, FirInit
<1>3. BootInv
  <2>1. /\ 1 .. boot - 1 = {} /\ late = FALSE /\ en = FALSE
        /\ stage = "input"
    BY DEF Init, FirInit
  <2>2. QED BY <2>1 DEF BootInv
<1>4. OrderInv
  BY EmptyOrder DEF EmptyPath, Init, FirInit
<1>5. QED BY <1>1, <1>2, <1>3, <1>4 DEF PathInv

LEMMA PathInvariance == Spec => []PathInv
<1>1. PathInv /\ [Next]_vars => PathInv'
  <2> SUFFICES ASSUME PathInv, [Next]_vars PROVE PathInv'
    OBVIOUS
  <2>1. SkewInv' BY SkewInvStep DEF PathInv
  <2>2. TypeInv' BY TypeInvStep DEF PathInv
  <2>3. PacketInv' BY PacketStep DEF PathInv
  <2>4. QuietCore' BY QuietStep DEF PathInv, TypeInv
  <2>5. BootInv' BY BootStep DEF PathInv
  <2>6. OrderInv' BY OrderStep DEF PathInv
  <2>7. QED BY <2>1, <2>2, <2>3, <2>4, <2>5, <2>6 DEF PathInv
<1>2. QED BY PathInit, <1>1, PTL DEF Spec

(* Every completed transfer is a block of BlockSize beats, less those that *)
(* were lost in a reset: left and right in turn, the samples of each       *)
(* channel in order.  The channel ends a transfer at TLAST alone, so this  *)
(* is about the counter of fir_hw, the FIFO and the engine together.       *)
THEOREM BlocksAreWhole == Spec => []BlocksWhole
<1>1. PathInv => BlocksWhole
  <2> SUFFICES ASSUME PathInv, chan = "idle", lost < BlockSize
               PROVE  /\ Len(block) = BlockSize - lost
                      /\ \A k \in DOMAIN block :
                           /\ block[k].channel =
                                IF (k + lost) % 2 = 1 THEN "left" ELSE "right"
                           /\ k > 2 => block[k].sample > block[k - 2].sample
    BY DEF BlocksWhole
  <2>1. PICK n \in Nat : n = Len(block) /\ DOMAIN block = 1 .. n
    BY LenProperties DEF PathInv, TypeInv, OutputType
  <2>2. /\ lost \in Nat /\ n <= BlockSize
        /\ BlockSize \in Nat \ {0} /\ CntMod \in Nat
        /\ 2 * BlockSize <= CntMod
    BY <2>1, PathAssumption, FirAssumption, BlockAssumption
       DEF PathInv, TypeInv, OutputType
  <2>3. n + lost = BlockSize
    BY <2>1, <2>2 DEF PathInv, PacketInv, BlockInv
  <2>4. ASSUME NEW k \in 1 .. n
        PROVE  block[k].channel = ChannelAt(k + lost)
    <3>1. k + lost < CntMod
      BY <2>2, <2>3
    <3>2. QED BY <2>1, <3>1 DEF PathInv, PacketInv, BlockInv
  <2>5. ASSUME NEW k \in 1 .. n, k > 2
        PROVE  block[k].sample > block[k - 2].sample
    <3>1. k - 2 \in 1 .. n /\ k - 2 < k
      BY <2>5
    <3>2. (k + lost) % 2 = (k - 2 + lost) % 2
      BY <2>2
    <3>3. block[k].channel = block[k - 2].channel
      BY <2>4, <3>1, <3>2 DEF ChannelAt
    <3>4. block[k - 2].sample < block[k].sample
      BY <2>1, <3>1, <3>3 DEF PathInv, OrderInv, BeatOrder, Before
    <3>5. block[k].sample \in Nat /\ block[k - 2].sample \in Nat
      BY <2>1, <3>1, OrderTypes, PathAssumption DEF PathInv, PathBeat
    <3>6. QED BY <3>4, <3>5
  <2>6. Len(block) = BlockSize - lost
    BY <2>1, <2>2, <2>3
  <2>7. ASSUME NEW k \in DOMAIN block
        PROVE  block[k].channel = IF (k + lost) % 2 = 1 THEN "left" ELSE "right"
    BY <2>1, <2>4 DEF ChannelAt
  <2>8. QED BY <2>1, <2>5, <2>6, <2>7
<1>2. QED BY PathInvariance, <1>1, PTL

(* The channel halts only after calls that began before tlast_dnum was     *)
(* set, and such calls there are only in a program that starts the codec   *)
(* before it sets tlast_dnum, as echo_server and dma_test_final do;        *)
(* final_test sets it first.                                               *)
THEOREM HaltsLate == Spec => []HaltsOnlyIfLate
<1>1. PathInv => HaltsOnlyIfLate
  BY DEF PathInv, PacketInv, LateInv, BootInv, HaltsOnlyIfLate
<1>2. QED BY PathInvariance, <1>1, PTL
=============================================================================
