-------------------------- MODULE FirFilterProofs --------------------------
(***************************************************************************)
(* The filter convolves, frames and decimates for every size of its        *)
(* buffers, every width of its counters and every set of configurations;   *)
(* and, after that, the theorems about its arithmetic.                     *)
(***************************************************************************)
EXTENDS FirFilter, FirArithmetic, SequenceTheorems, TLAPS

InCall == stage \in {"loop", "left", "right"}

(* The word before w in the ring, i words back.                            *)
Back(w, i) == IF i <= w THEN w - i ELSE w - i + BufSize
Newest == IF write_idx = 0 THEN BufSize - 1 ELSE write_idx - 1

(* The rings hold the last BufSize samples, newest first: behind write_idx *)
(* between calls, from write_idx on during one.                            *)
RingInv ==
  LET w == IF stage = "input" THEN Newest ELSE write_idx IN
  \A i \in Index : /\ buffer_left[Back(w, i)] = Past(i)
                   /\ buffer_right[Back(w, i)] = 0 - Past(i)

(* What FIR_init has written so far.                                       *)
CoeffInv ==
  /\ \A k \in Index : k < fi => coeff_hw[k] = fi_config
  /\ settled => fi = Done

(* The products summed so far.                                             *)
AccInv ==
  /\ InCall => Len(acc_r) = Len(acc_l)
  /\ stage = "loop" => Len(acc_l) <= args.tap_num_m1
  /\ stage \in {"left", "right"} => Len(acc_l) = args.tap_num_m1 + 1
  /\ InCall => \A i \in 1 .. Len(acc_l) :
       /\ acc_l[i].smpl = Past(i - 1) /\ acc_r[i].smpl = 0 - Past(i - 1)
       /\ settled => acc_l[i].coeff = fi_config /\ acc_r[i].coeff = fi_config

(* cnt is the position in the packet unless a packet was missed.           *)
FrameInv ==
  ~missed => cnt = pos /\ (InCall => pos < args.tlast_dnum)

(* dec_cnt is the number of calls since a result, and below some rate.     *)
GapInv ==
  /\ dec_cnt = gap
  /\ rates \subseteq 0 .. DecMod - 1
  /\ gap > 0 => \E hi \in rates : gap < hi

IInv == TypeOK /\ RingInv /\ CoeffInv /\ AccInv /\ FrameInv /\ GapInv

-----------------------------------------------------------------------------
(* Counting modulo mod stays below mod.                                    *)
LEMMA IncrementType ==
  ASSUME NEW mod \in Nat \ {0}, NEW x \in 0 .. mod - 1
  PROVE  Increment(x, mod) \in 0 .. mod - 1
BY DEF Increment

LEMMA InitInv == Init => IInv
<1> SUFFICES ASSUME Init PROVE IInv
  OBVIOUS
<1> USE FirAssumption DEF Init, FirInit, Index, Silence, Done
<1>1. TypeOK
  <2>1. <<>> \in Seq(Product_)
    BY EmptySeq
  <2>2. /\ Reset.tap_num_m1 \in 0 .. BufSize - 1
        /\ Reset.smpl_rd_num \in 0 .. DecMod - 1
        /\ Reset.tlast_dnum \in 0 .. CntMod - 1
    BY FirAssumption
  <2>3. /\ tlast_dnum \in 0 .. CntMod - 1
        /\ smpl_rd_num \in 0 .. DecMod - 1
        /\ tap_num_m1 \in Index
        /\ coeff_hw \in [Index -> Configs \union {Reset}]
        /\ fi_config \in Configs \union {Reset}
    BY <2>2
  <2>4. /\ buffer_left \in [Index -> Int]
        /\ buffer_right \in [Index -> Int]
        /\ write_idx \in Index
        /\ cnt \in 0 .. CntMod - 1
        /\ dec_cnt \in 0 .. DecMod - 1
        /\ fi \in 0 .. Done
    OBVIOUS
  <2>5. args \in [tlast_dnum : 0 .. CntMod - 1, tap_num_m1 : Index,
                   dec_cnt : 0 .. DecMod - 1]
    OBVIOUS
  <2>6. QED BY <2>1, <2>3, <2>4, <2>5 DEF TypeOK
<1>2. RingInv
  <2> SUFFICES ASSUME NEW i \in Index
               PROVE  /\ buffer_left[Back(Newest, i)] = Past(i)
                      /\ buffer_right[Back(Newest, i)] = 0 - Past(i)
    BY DEF RingInv
  <2>1. Back(Newest, i) \in Index
    BY DEF Back, Newest
  <2>2. Past(i) = 0
    <3>1. ~(n > i)
      OBVIOUS
    <3>2. QED BY <3>1 DEF Past
  <2>3. /\ buffer_left[Back(Newest, i)] = 0
        /\ buffer_right[Back(Newest, i)] = 0
    BY <2>1
  <2>4. QED BY <2>2, <2>3
<1>3. CoeffInv
  BY DEF CoeffInv
<1>4. AccInv /\ FrameInv /\ GapInv
  BY DEF AccInv, FrameInv, GapInv, InCall
<1>5. QED BY <1>1, <1>2, <1>3, <1>4 DEF IInv

-----------------------------------------------------------------------------
(* One lemma per action.                                                   *)
LEMMA CallInv == IInv /\ Call => IInv'
<1> SUFFICES ASSUME IInv, Call PROVE IInv'
  OBVIOUS
<1> USE FirAssumption
<1>t. TypeOK BY DEF IInv
<1>d. Increment(dec_cnt, DecMod) \in 0 .. DecMod - 1
  BY <1>t, IncrementType DEF TypeOK
<1>0. /\ stage = "input" /\ stage' \in {"loop", "next"}
      /\ n' = n + 1 /\ n \in Nat
      /\ buffer_left' = [buffer_left EXCEPT ![write_idx] = n + 1]
      /\ buffer_right' = [buffer_right EXCEPT ![write_idx] = 0 - (n + 1)]
      /\ args' = [tlast_dnum |-> tlast_dnum, tap_num_m1 |-> tap_num_m1,
                  dec_cnt |-> dec_cnt]
      /\ acc_l' = <<>> /\ acc_r' = <<>>
      /\ UNCHANGED <<write_idx, cnt, fi, fi_config, coeff_hw, tlast_dnum,
                     smpl_rd_num, tap_num_m1, inits, pos>>
      /\ settled' = (fi = Done)
      /\ missed' = (missed \/ cnt >= tlast_dnum)
  BY <1>t DEF Call, TakeSamples, regVars, initVars, TypeOK
<1>1. TypeOK'
  <2>1. <<>> \in Seq(Product_)
    BY EmptySeq
  <2>2. dec_cnt' \in 0 .. DecMod - 1
    BY <1>d DEF Call, TakeSamples
  <2>3. gap' \in Nat /\ rates' \subseteq 0 .. DecMod - 1
    <3>1. rates \subseteq 0 .. DecMod - 1 /\ smpl_rd_num \in 0 .. DecMod - 1
          /\ gap \in Nat
      BY <1>t DEF TypeOK
    <3>2. \/ gap' = 0 /\ rates' = {}
          \/ gap' = gap + 1 /\ rates' = rates \union {smpl_rd_num}
      BY DEF Call
    <3>3. CASE gap' = 0 /\ rates' = {}
      BY <3>3
    <3>4. CASE gap' = gap + 1 /\ rates' = rates \union {smpl_rd_num}
      BY <3>1, <3>4
    <3>5. QED BY <3>2, <3>3, <3>4
  <2>4. buffer_left' \in [Index -> Int] /\ buffer_right' \in [Index -> Int]
    <3>1. buffer_left \in [Index -> Int] /\ buffer_right \in [Index -> Int]
      BY <1>t DEF TypeOK
    <3>2. n + 1 \in Int /\ 0 - (n + 1) \in Int
      BY <1>0
    <3>3. QED BY <3>1, <3>2, <1>0
  <2>5. args' \in [tlast_dnum : 0 .. CntMod - 1, tap_num_m1 : Index,
                    dec_cnt : 0 .. DecMod - 1]
    BY <1>t, <1>0 DEF TypeOK
  <2>6. settled' \in BOOLEAN /\ missed' \in BOOLEAN
    BY <1>t, <1>0 DEF TypeOK
  <2>7. n' \in Nat /\ stage' \in {"input", "loop", "left", "right", "next"}
    BY <1>0
  <2>8. QED
    BY <2>1, <2>2, <2>3, <2>4, <2>5, <2>6, <2>7, <1>t, <1>0 DEF TypeOK
<1>2. RingInv'
  <2> SUFFICES ASSUME NEW i \in Index
               PROVE  /\ buffer_left'[Back(write_idx, i)] = Past(i)'
                      /\ buffer_right'[Back(write_idx, i)] = 0 - Past(i)'
    BY <1>0 DEF RingInv, Back
  <2>1. CASE i = 0
    <3>1. Back(write_idx, i) = write_idx
      BY <1>t, <2>1 DEF Back, TypeOK, Index
    <3>2. Past(i)' = n + 1
      <4>1. n' > 0 /\ n' - 0 = n + 1
        BY <1>0
      <4>2. QED BY <4>1, <2>1 DEF Past
    <3>3. QED BY <1>t, <1>0, <3>1, <3>2 DEF TypeOK
  <2>2. CASE i # 0
    <3>1. i - 1 \in Index
      BY <2>2 DEF Index
    <3>2. /\ Back(write_idx, i) \in Index /\ Back(write_idx, i) # write_idx
          /\ Back(write_idx, i) = Back(Newest, i - 1)
      <4>1. write_idx \in 0 .. BufSize - 1 /\ i \in 1 .. BufSize - 1
            /\ BufSize \in Nat
        BY <1>t, <2>2 DEF TypeOK, Index
      <4>2. QED BY <4>1 DEF Back, Newest, Index
    <3>3. /\ buffer_left[Back(Newest, i - 1)] = Past(i - 1)
          /\ buffer_right[Back(Newest, i - 1)] = 0 - Past(i - 1)
      BY <1>0, <3>1 DEF IInv, RingInv
    <3>4. Past(i)' = Past(i - 1)
      BY <1>0, <2>2 DEF Past, Index
    <3>5. QED BY <1>t, <1>0, <3>2, <3>3, <3>4 DEF TypeOK
  <2>3. QED BY <2>1, <2>2
<1>3. CoeffInv'
  BY <1>0 DEF IInv, CoeffInv, Done, Index
<1>4. AccInv'
  <2>1. /\ acc_l' = <<>> /\ acc_r' = <<>> /\ stage' \in {"loop", "next"}
        /\ args'.tap_num_m1 = tap_num_m1
    BY <1>0
  <2>2. tap_num_m1 \in Nat
    BY <1>t DEF TypeOK, Index
  <2>3. QED BY <2>1, <2>2 DEF AccInv, InCall
<1>5. FrameInv'
  <2> SUFFICES ASSUME ~missed'
               PROVE  cnt' = pos' /\ pos' < args'.tlast_dnum
    BY DEF FrameInv
  <2>1. ~missed /\ ~(cnt >= tlast_dnum)
    BY <1>0
  <2>2. cnt = pos
    BY <2>1 DEF IInv, FrameInv
  <2>3. cnt < tlast_dnum
    BY <2>1, <1>t DEF TypeOK
  <2>4. cnt' = cnt /\ pos' = pos /\ args'.tlast_dnum = tlast_dnum
    BY <1>0
  <2>5. QED BY <2>2, <2>3, <2>4
<1>6. GapInv'
  <2>1. CASE Increment(dec_cnt, DecMod) >= smpl_rd_num
    BY <2>1 DEF Call, TakeSamples, GapInv
  <2>2. CASE ~(Increment(dec_cnt, DecMod) >= smpl_rd_num)
    <3>1. dec_cnt' = Increment(dec_cnt, DecMod) /\ stage' = "next"
      BY <2>2 DEF Call, TakeSamples
    <3>2. gap' = gap + 1 /\ rates' = rates \union {smpl_rd_num}
      BY <3>1 DEF Call
    <3>3. dec_cnt + 1 # DecMod
      BY <1>t DEF IInv, GapInv, TypeOK
    <3>4. Increment(dec_cnt, DecMod) = dec_cnt + 1
      BY <3>3 DEF Increment
    <3>5. gap' < smpl_rd_num
      BY <2>2, <3>2, <3>4, <1>t DEF IInv, GapInv, TypeOK
    <3>6. QED BY <1>1, <3>1, <3>2, <3>4, <3>5 DEF IInv, GapInv, TypeOK
  <2>3. QED BY <2>1, <2>2
<1>7. QED BY <1>1, <1>2, <1>3, <1>4, <1>5, <1>6 DEF IInv

LEMMA LoopInv == IInv /\ Loop => IInv'
<1> SUFFICES ASSUME IInv, Loop PROVE IInv'
  OBVIOUS
<1> USE FirAssumption
<1>t. TypeOK BY DEF IInv
<1> DEFINE i == Len(acc_l)
           pl == Product(buffer_left, i)
           pr == Product(buffer_right, i)
<1>0. /\ stage = "loop" /\ stage' \in {"loop", "left"}
      /\ stage' = "left" <=> i = args.tap_num_m1
      /\ acc_l' = Append(acc_l, pl) /\ acc_r' = Append(acc_r, pr)
      /\ UNCHANGED <<buffer_left, buffer_right, write_idx, cnt, dec_cnt, args,
                     regVars, initVars, n, inits, history>>
  BY DEF Loop, AddTap
<1>i. i \in Index /\ i <= args.tap_num_m1 /\ Len(acc_r) = i
  <2>1. i \in Nat
    BY <1>t, LenProperties DEF TypeOK
  <2>2. QED BY <2>1, <1>t, <1>0 DEF IInv, AccInv, InCall, TypeOK, Index
<1>p. pl \in Product_ /\ pr \in Product_
  <2>1. ReadIdx(i) \in Index
    <3>1. /\ i \in 0 .. BufSize - 1 /\ write_idx \in 0 .. BufSize - 1
          /\ BufSize \in Nat
      BY <1>i, <1>t DEF TypeOK, Index
    <3> HIDE DEF i
    <3>2. QED BY <3>1 DEF ReadIdx, Index
  <2>2. QED BY <2>1, <1>i, <1>t DEF Product, Product_, TypeOK
<1>a. /\ acc_l' \in Seq(Product_) /\ Len(acc_l') = i + 1
      /\ acc_r' \in Seq(Product_) /\ Len(acc_r') = i + 1
      /\ \A k \in 1 .. i : acc_l'[k] = acc_l[k] /\ acc_r'[k] = acc_r[k]
      /\ acc_l'[i + 1] = pl /\ acc_r'[i + 1] = pr
  <2>1. acc_l \in Seq(Product_) /\ acc_r \in Seq(Product_)
    BY <1>t DEF TypeOK
  <2> HIDE DEF pl, pr
  <2>2. /\ Append(acc_l, pl) \in Seq(Product_)
        /\ Len(Append(acc_l, pl)) = Len(acc_l) + 1
        /\ \A k \in 1 .. Len(acc_l) : Append(acc_l, pl)[k] = acc_l[k]
        /\ Append(acc_l, pl)[Len(acc_l) + 1] = pl
    BY <2>1, <1>p, AppendProperties
  <2>3. /\ Append(acc_r, pr) \in Seq(Product_)
        /\ Len(Append(acc_r, pr)) = Len(acc_r) + 1
        /\ \A k \in 1 .. Len(acc_r) : Append(acc_r, pr)[k] = acc_r[k]
        /\ Append(acc_r, pr)[Len(acc_r) + 1] = pr
    BY <2>1, <1>p, AppendProperties
  <2>4. QED BY <2>2, <2>3, <1>0, <1>i
<1>1. TypeOK'
  BY <1>0, <1>a, <1>t DEF TypeOK, regVars, initVars, history
<1>2. RingInv' /\ CoeffInv'
  BY <1>0 DEF IInv, RingInv, CoeffInv, Past, Newest, Back,
              regVars, initVars, history
<1>3. AccInv'
  <2>1. /\ pl.smpl = Past(i) /\ pr.smpl = 0 - Past(i)
        /\ settled => pl.coeff = fi_config /\ pr.coeff = fi_config
    <3>1. /\ buffer_left[Back(write_idx, i)] = Past(i)
          /\ buffer_right[Back(write_idx, i)] = 0 - Past(i)
      BY <1>0, <1>i DEF IInv, RingInv
    <3>2. settled => coeff_hw[i] = fi_config
      BY <1>i DEF IInv, CoeffInv, Done, Index
    <3>3. QED BY <3>1, <3>2 DEF Product, ReadIdx, Back
  <2>2. i + 1 - 1 = i
    BY <1>i DEF Index
  <2>3. ASSUME NEW k \in 1 .. i + 1
        PROVE  /\ acc_l'[k].smpl = Past(k - 1)
               /\ acc_r'[k].smpl = 0 - Past(k - 1)
               /\ settled => /\ acc_l'[k].coeff = fi_config
                             /\ acc_r'[k].coeff = fi_config
    <3>1. CASE k = i + 1
      BY <3>1, <2>1, <2>2, <1>a
    <3>2. CASE k # i + 1
      <4>1. k \in 1 .. i
        BY <3>2, <1>i DEF Index
      <4>2. QED BY <4>1, <1>a, <1>0 DEF IInv, AccInv, InCall
    <3>3. QED BY <3>1, <3>2
  <2>4. /\ UNCHANGED <<args, settled, fi_config>>
        /\ \A k \in 1 .. i + 1 : Past(k - 1)' = Past(k - 1)
    BY <1>0 DEF Past, initVars, history
  <2>5. args.tap_num_m1 \in Int
    BY <1>t DEF TypeOK, Index
  <2>6. /\ stage' = "loop" => Len(acc_l') <= args'.tap_num_m1
        /\ stage' = "left" => Len(acc_l') = args'.tap_num_m1 + 1
    BY <1>0, <1>i, <1>a, <2>4, <2>5 DEF Index
  <2>7. QED BY <1>0, <1>a, <2>3, <2>4, <2>6 DEF AccInv, InCall
<1>4. FrameInv' /\ GapInv'
  BY <1>0 DEF IInv, FrameInv, GapInv, InCall, history
<1>5. QED BY <1>1, <1>2, <1>3, <1>4 DEF IInv

(* The step of cnt against that of pos.                                    *)
LEMMA BeatPosition ==
  ASSUME TypeOK, FrameInv, InCall, ~missed
  PROVE  /\ cnt = pos /\ pos < args.tlast_dnum
         /\ IsLast <=> pos + 1 = args.tlast_dnum
         /\ Increment(cnt, CntMod) = pos + 1
<1>1. cnt = pos /\ pos < args.tlast_dnum
  BY DEF FrameInv
<1>2. args.tlast_dnum \in 0 .. CntMod - 1 /\ pos \in Nat /\ CntMod \in Nat
  BY FirAssumption DEF TypeOK
<1>3. Increment(cnt, CntMod) = pos + 1
  BY <1>1, <1>2 DEF Increment
<1>4. QED BY <1>1, <1>3 DEF IsLast

LEMMA OutputInv == IInv /\ Output => IInv'
<1> SUFFICES ASSUME IInv, Output PROVE IInv'
  OBVIOUS
<1> USE FirAssumption
<1>t. TypeOK BY DEF IInv
<1>0. /\ \/ stage = "left" /\ stage' = "right"
         \/ stage = "right" /\ stage' = "next"
      /\ cnt' = IF IsLast THEN 0 ELSE Increment(cnt, CntMod)
      /\ pos' = IF IsLast THEN 0 ELSE pos + 1
      /\ missed' = IF IsLast THEN args.tlast_dnum = 0 ELSE missed
      /\ UNCHANGED <<buffer_left, buffer_right, write_idx, dec_cnt, args,
                     acc_l, acc_r, regVars, initVars, n, inits, settled, gap,
                     rates>>
  BY DEF Output, WriteLeft, WriteRight, CountBeat, AfterBeat, IsLast
<1>1. TypeOK'
  <2>1. Increment(cnt, CntMod) \in 0 .. CntMod - 1
    BY <1>t, IncrementType DEF TypeOK
  <2>2. cnt' \in 0 .. CntMod - 1 /\ pos' \in Nat /\ missed' \in BOOLEAN
    <3>t. pos \in Nat /\ missed \in BOOLEAN
      BY <1>t DEF TypeOK
    <3>1. /\ 0 \in 0 .. CntMod - 1 /\ pos \in Nat /\ pos + 1 \in Nat
          /\ missed \in BOOLEAN
      BY <3>t
    <3>2. CASE IsLast
      BY <3>1, <3>2, <1>0
    <3>3. CASE ~IsLast
      BY <3>1, <3>3, <2>1, <1>0
    <3>4. QED BY <3>2, <3>3
  <2>3. QED BY <1>0, <2>2, <1>t DEF TypeOK, regVars, initVars
<1>2. RingInv' /\ CoeffInv' /\ AccInv' /\ GapInv'
  BY <1>0 DEF IInv, RingInv, CoeffInv, AccInv, GapInv, Past, Newest, Back,
              InCall, regVars, initVars
<1>3. FrameInv'
  <2>1. CASE IsLast
    <3>1. args.tlast_dnum \in Nat
      BY <1>t DEF TypeOK
    <3>2. cnt' = 0 /\ pos' = 0 /\ args' = args
      BY <2>1, <1>0
    <3>3. missed' <=> args.tlast_dnum = 0
      BY <2>1, <1>0
    <3>4. QED BY <3>1, <3>2, <3>3 DEF FrameInv
  <2>2. CASE ~IsLast
    <3> SUFFICES ASSUME ~missed
                 PROVE  cnt' = pos' /\ pos' < args.tlast_dnum
      BY <2>2, <1>0 DEF FrameInv
    <3>1. /\ cnt = pos /\ pos < args.tlast_dnum
          /\ pos + 1 # args.tlast_dnum
          /\ Increment(cnt, CntMod) = pos + 1
      BY <2>2, <1>t, <1>0, BeatPosition DEF IInv, InCall
    <3>2. pos \in Nat /\ args.tlast_dnum \in Nat
      BY <1>t DEF TypeOK
    <3>3. QED BY <2>2, <3>1, <3>2, <1>0
  <2>3. QED BY <2>1, <2>2
<1>4. QED BY <1>1, <1>2, <1>3 DEF IInv

LEMMA ReturnInv == IInv /\ Return => IInv'
<1> SUFFICES ASSUME IInv, Return PROVE IInv'
  OBVIOUS
<1> USE FirAssumption
<1>t. TypeOK BY DEF IInv
<1>0. /\ stage = "next" /\ stage' = "input"
      /\ write_idx' = Increment(write_idx, BufSize)
      /\ UNCHANGED <<buffer_left, buffer_right, cnt, dec_cnt, args, acc_l,
                     acc_r, regVars, initVars, n, inits, history>>
  BY DEF Return, EndCall
<1>1. TypeOK'
  <2>1. write_idx' \in Index
    BY <1>0, <1>t, IncrementType DEF TypeOK, Index
  <2>2. QED BY <1>0, <2>1, <1>t DEF TypeOK, regVars, initVars, history
<1>2. RingInv'
  <2>1. Newest' = write_idx
    <3>1. write_idx \in 0 .. BufSize - 1 /\ BufSize \in Nat
      BY <1>t DEF TypeOK, Index
    <3>2. QED BY <1>0, <3>1 DEF Newest, Increment
  <2>2. QED BY <2>1, <1>0 DEF IInv, RingInv, Past, Back
<1>3. CoeffInv' /\ AccInv' /\ FrameInv' /\ GapInv'
  BY <1>0 DEF IInv, CoeffInv, AccInv, FrameInv, GapInv, InCall,
              regVars, initVars, history
<1>4. QED BY <1>1, <1>2, <1>3 DEF IInv

LEMMA StartFirInitInv == IInv /\ StartFirInit => IInv'
<1> SUFFICES ASSUME IInv, StartFirInit PROVE IInv'
  OBVIOUS
<1> USE FirAssumption
<1>0. /\ fi' = 0 /\ fi_config' \in Configs /\ inits' = inits + 1
      /\ settled' = FALSE
      /\ UNCHANGED <<regVars, callVars, n, pos, missed, gap, rates>>
  BY DEF StartFirInit, BeginFirInit
<1>1. TypeOK'
  <2>1. fi' \in 0 .. Done
    BY <1>0 DEF Done
  <2>2. inits \in Nat
    BY DEF IInv, TypeOK
  <2>3. inits' = inits + 1
    BY <1>0
  <2>4. inits' \in Nat
    BY <2>2, <2>3
  <2>5. QED BY <1>0, <2>1, <2>4 DEF IInv, TypeOK, regVars, callVars
<1>2. RingInv' /\ FrameInv' /\ GapInv'
  BY <1>0 DEF IInv, RingInv, FrameInv, GapInv, InCall, Past, Newest, Back,
              callVars
<1>3. CoeffInv'
  BY <1>0 DEF CoeffInv, Index
<1>4. AccInv'
  BY <1>0 DEF IInv, AccInv, InCall, Past, callVars
<1>5. QED BY <1>1, <1>2, <1>3, <1>4 DEF IInv

LEMMA ProgramInv == IInv /\ Program => IInv'
<1> SUFFICES ASSUME IInv, Program PROVE IInv'
  OBVIOUS
<1> USE FirAssumption
<1>t. TypeOK BY DEF IInv
<1>0. /\ fi \in 0 .. Done - 1 /\ fi' = fi + 1 /\ fi \in Nat
      /\ ~settled
      /\ UNCHANGED <<callVars, fi_config, n, inits, history>>
  <2>1. fi \in 0 .. Done - 1 /\ fi' = fi + 1
    BY DEF Program, FirInitStep, WriteCoeff, SetTapNumM1, SetSmplRdNum,
           SetTlastDnum, Index, Done
  <2>2. UNCHANGED <<callVars, fi_config, n, inits, history>>
    BY DEF Program, FirInitStep, WriteCoeff, SetTapNumM1, SetSmplRdNum,
           SetTlastDnum
  <2>3. QED BY <2>1, <2>2 DEF IInv, CoeffInv, Done
<1>1. /\ tlast_dnum' \in 0 .. CntMod - 1
      /\ smpl_rd_num' \in 0 .. DecMod - 1
      /\ tap_num_m1' \in Index
  <2>1. /\ fi_config.tlast_dnum \in 0 .. CntMod - 1
        /\ fi_config.smpl_rd_num \in 0 .. DecMod - 1
        /\ fi_config.tap_num_m1 \in Index
    BY <1>t DEF TypeOK, Index
  <2>2. QED
    BY <2>1, <1>t DEF Program, FirInitStep, WriteCoeff, SetTapNumM1,
                      SetSmplRdNum, SetTlastDnum, TypeOK
<1>2. /\ coeff_hw' \in [Index -> Configs \union {Reset}]
      /\ \A k \in Index : k < fi + 1 => coeff_hw'[k] = fi_config
  <2>1. CASE WriteCoeff
    <3>1. coeff_hw' = [coeff_hw EXCEPT ![fi] = fi_config]
      BY <2>1 DEF WriteCoeff
    <3>2. /\ coeff_hw \in [Index -> Configs \union {Reset}]
          /\ fi_config \in Configs \union {Reset} /\ fi \in Index
      BY <2>1, <1>t DEF TypeOK, WriteCoeff
    <3>3. ASSUME NEW k \in Index, k < fi + 1
          PROVE  coeff_hw'[k] = fi_config
      <4>1. k = fi \/ k < fi
        BY <1>0, <3>3 DEF Index
      <4>2. QED BY <4>1, <3>1, <3>2 DEF IInv, CoeffInv
    <3>4. QED BY <3>1, <3>2, <3>3
  <2>2. CASE ~WriteCoeff
    <3>1. fi \in Nat /\ fi >= BufSize /\ UNCHANGED coeff_hw
      BY <2>2, <1>0 DEF Program, FirInitStep, SetTapNumM1, SetSmplRdNum,
                        SetTlastDnum
    <3>2. \A k \in Index : k < fi
      BY <3>1 DEF Index
    <3>3. QED BY <3>1, <3>2, <1>t DEF IInv, CoeffInv, TypeOK
  <2>3. QED BY <2>1, <2>2
<1>3. TypeOK'
  <2>1. fi' \in 0 .. Done
    BY <1>0 DEF Done
  <2>2. QED BY <1>0, <1>1, <1>2, <2>1, <1>t DEF TypeOK, callVars, history
<1>4. RingInv' /\ FrameInv' /\ GapInv'
  BY <1>0 DEF IInv, RingInv, FrameInv, GapInv, InCall, Past, Newest, Back,
              callVars, history
<1>5. CoeffInv'
  BY <1>0, <1>2 DEF CoeffInv, history
<1>6. AccInv'
  BY <1>0 DEF IInv, AccInv, InCall, Past, callVars, history
<1>7. QED BY <1>3, <1>4, <1>5, <1>6 DEF IInv

LEMMA StutterInv == IInv /\ UNCHANGED vars => IInv'
BY DEF vars, firVars, regVars, callVars, initVars, history, IInv, TypeOK,
       RingInv, CoeffInv, AccInv, FrameInv, GapInv, InCall, Past, Newest, Back

LEMMA Invariance == Spec => []IInv
<1>1. IInv /\ [Next]_vars => IInv'
  BY CallInv, LoopInv, OutputInv, ReturnInv, StartFirInitInv, ProgramInv,
     StutterInv DEF Next
<1>2. QED BY InitInv, <1>1, PTL DEF Spec

-----------------------------------------------------------------------------
(* Every index stays inside its buffer and every counter in its width.     *)
THEOREM TypeCorrect == Spec => []TypeOK
<1>1. IInv => TypeOK
  BY DEF IInv
<1>2. QED BY Invariance, <1>1, PTL

(* The ring buffer, its wrap and the decimation compute the convolution.   *)
THEOREM Convolution == Spec => []Convolves
<1>1. IInv => Convolves
  <2> SUFFICES ASSUME IInv, stage \in {"left", "right"}
               PROVE  /\ Len(acc_l) = args.tap_num_m1 + 1
                      /\ Len(acc_r) = Len(acc_l)
                      /\ \A i \in 0 .. args.tap_num_m1 :
                           /\ acc_l[i + 1].smpl = Past(i)
                           /\ acc_r[i + 1].smpl = 0 - Past(i)
                           /\ settled => /\ acc_l[i + 1].coeff = fi_config
                                         /\ acc_r[i + 1].coeff = fi_config
    BY DEF Convolves
  <2>1. Len(acc_l) = args.tap_num_m1 + 1 /\ Len(acc_r) = Len(acc_l)
    BY DEF IInv, AccInv, InCall
  <2>2. ASSUME NEW i \in 0 .. args.tap_num_m1
        PROVE  i + 1 \in 1 .. Len(acc_l) /\ i + 1 - 1 = i
    <3>1. args.tap_num_m1 \in Int
      BY FirAssumption DEF IInv, TypeOK, Index
    <3>2. QED BY <3>1, <2>1
  <2>3. ASSUME NEW i \in 0 .. args.tap_num_m1
        PROVE  /\ acc_l[i + 1].smpl = Past(i)
               /\ acc_r[i + 1].smpl = 0 - Past(i)
               /\ settled => /\ acc_l[i + 1].coeff = fi_config
                             /\ acc_r[i + 1].coeff = fi_config
    <3>1. \A k \in 1 .. Len(acc_l) :
            /\ acc_l[k].smpl = Past(k - 1) /\ acc_r[k].smpl = 0 - Past(k - 1)
            /\ settled => /\ acc_l[k].coeff = fi_config
                          /\ acc_r[k].coeff = fi_config
      BY DEF IInv, AccInv, InCall
    <3> HIDE DEF Past
    <3>2. QED BY <3>1, <2>2
  <2>4. QED BY <2>1, <2>3
<1>2. QED BY Invariance, <1>1, PTL

(* TLAST ends exactly the tlast_dnum-th beat of a packet.                  *)
THEOREM Framing == Spec => []FramesExactly
<1>1. IInv => FramesExactly
  BY BeatPosition DEF IInv, FramesExactly, InCall
<1>2. QED BY Invariance, <1>1, PTL

(* Results are as far apart as smpl_rd_num says.                           *)
THEOREM Decimation == Spec => Decimates
<1> USE FirAssumption
<1>1. IInv /\ [Next]_vars =>
        [stage = "input" /\ stage' = "loop" =>
           WithinRates(gap + 1, rates \union {smpl_rd_num})]_vars
  <2> SUFFICES ASSUME IInv, [Next]_vars, stage = "input", stage' = "loop"
               PROVE  WithinRates(gap + 1, rates \union {smpl_rd_num})
    OBVIOUS
  <2>1. Call
    BY DEF Next, vars, firVars, callVars, Loop, AddTap, Output, WriteLeft,
           WriteRight, Return, EndCall, StartFirInit, BeginFirInit, Program,
           FirInitStep, WriteCoeff, SetTapNumM1, SetSmplRdNum, SetTlastDnum
  <2>2. /\ gap \in Nat /\ dec_cnt = gap /\ smpl_rd_num \in 0 .. DecMod - 1
        /\ gap > 0 => \E hi \in rates : gap < hi
        /\ rates \subseteq 0 .. DecMod - 1
    BY DEF IInv, TypeOK, GapInv
  <2>3. Increment(gap, DecMod) = gap + 1
    <3>1. gap + 1 # DecMod
      BY <2>2
    <3>2. QED BY <3>1 DEF Increment
  <2>4. gap + 1 >= smpl_rd_num
    BY <2>1, <2>2, <2>3 DEF Call, TakeSamples
  <2>5. \E hi \in rates \union {smpl_rd_num} :
          gap + 1 <= IF hi = 0 THEN 1 ELSE hi
    <3>1. CASE gap = 0
      BY <3>1, <2>2
    <3>2. CASE gap > 0
      BY <3>2, <2>2
    <3>3. QED BY <3>1, <3>2, <2>2
  <2>6. QED BY <2>2, <2>4, <2>5 DEF WithinRates
<1>2. QED BY Invariance, <1>1, PTL DEF Spec, Decimates

-----------------------------------------------------------------------------
(***************************************************************************)
(* FirArithmetic, for numbers of every width.  The argument: the           *)
(* accumulator always differs from the exact sum by whole turns of acc_t   *)
(* and the truncations so far (InTurns).  A turn of acc_t is a number of   *)
(* turns of dout_t, so the same holds of the result; and two numbers of    *)
(* dout_t that differ by turns are the same.                               *)
(***************************************************************************)
(* Division by a positive number.                                          *)
LEMMA DivMod ==
  ASSUME NEW a \in Int, NEW b \in Nat \ {0}
  PROVE  /\ a \div b \in Int /\ a % b \in 0 .. b - 1
         /\ a = b * (a \div b) + (a % b)
OBVIOUS

(* Quotient and remainder are unique.                                      *)
LEMMA DivUnique ==
  ASSUME NEW a \in Int, NEW b \in Nat \ {0}, NEW q \in Int, NEW r \in Int,
         0 <= r, r < b, a = q * b + r
  PROVE  a \div b = q /\ a % b = r
<1> DEFINE u == a \div b
<1> DEFINE v == a % b
<1>1. u \in Int /\ v \in 0 .. b - 1 /\ a = b * u + v
  BY DivMod
<1> HIDE DEF u, v
<1>2. (q - u) * b = v - r
  BY <1>1
<1>3. CASE q - u >= 1
  <2>1. (q - u) * b >= b
    BY <1>1, <1>3
  <2> QED BY <2>1, <1>1, <1>2
<1>4. CASE q - u <= 0 - 1
  <2>1. (q - u) * b <= 0 - b
    BY <1>1, <1>4
  <2> QED BY <2>1, <1>1, <1>2
<1>5. CASE q = u
  BY <1>1, <1>5 DEF u, v
<1> QED BY <1>1, <1>3, <1>4, <1>5

(* Truncation takes away less than one.                                    *)
LEMMA TruncRemainder ==
  ASSUME NEW x \in Int, NEW d \in Nat \ {0}
  PROVE  /\ Trunc(x, d) \in Int
         /\ \E r \in 0 .. d - 1 : x = Trunc(x, d) * d + r
BY DEF Trunc

(* Wrapping takes away whole turns.                                        *)
LEMMA WrapTurns ==
  ASSUME NEW x \in Int, NEW h \in Nat \ {0}
  PROVE  /\ Wrap(x, 2 * h) \in 0 - h .. h - 1
         /\ \E j \in Int : x = Wrap(x, 2 * h) + j * (2 * h)
<1> DEFINE m == 2 * h
<1> DEFINE j == (x + h) \div m
<1>1. m \in Nat \ {0} /\ m \div 2 = h
  BY DivUnique
<1> DEFINE v == (x + h) % m
<1>2. j \in Int /\ v \in 0 .. m - 1 /\ x + h = m * j + v
  <2>1. x + h \in Int
    BY <1>1
  <2> HIDE DEF m
  <2> QED BY <1>1, <2>1, DivMod
<1>3. Wrap(x, m) = v - h
  BY <1>1 DEF Wrap
<1> HIDE DEF j, v
<1>4. Wrap(x, m) \in 0 - h .. h - 1
  BY <1>1, <1>2, <1>3
<1>5. x = Wrap(x, m) + j * m
  <2>1. m * j = j * m
    BY <1>1, <1>2
  <2> HIDE DEF m
  <2> QED BY <2>1, <1>1, <1>2, <1>3
<1> QED BY <1>2, <1>4, <1>5

(* The widths, named.                                                      *)
LEMMA Widths ==
  /\ AccMod \in Nat \ {0} /\ OutMod \in Nat \ {0}
    /\ \E h \in Nat \ {0} : OutMod = 2 * h /\ OutMod \div 2 = h
    /\ OutMod * OutDrop \in Nat \ {0} /\ AccMod = 2 * (OutMod * OutDrop)
    /\ AccMod \div 2 = OutMod * OutDrop
<1>1. PICK h \in 1 .. OutMod : OutMod = 2 * h
  BY ArithmeticAssumption
<1>2. h \in Nat \ {0} /\ OutMod \in Nat \ {0} /\ OutDrop \in Nat \ {0}
  BY <1>1, ArithmeticAssumption
<1>3. OutMod \div 2 = h
  BY <1>1, <1>2, DivUnique
<1>4. OutMod * OutDrop \in Nat \ {0}
  BY <1>2
<1>5. AccMod = 2 * (OutMod * OutDrop)
  BY DEF AccMod
<1>6. AccMod \in Nat \ {0}
  BY <1>4, <1>5
<1>7. AccMod \div 2 = OutMod * OutDrop
  BY <1>4, <1>5, DivUnique
<1> QED BY <1>1, <1>2, <1>3, <1>4, <1>5, <1>6, <1>7
-----------------------------------------------------------------------------
(* The inductive invariant: the exact sum is the accumulator, whole turns  *)
(* of acc_t, and less than one in acc_t's last place for each tap.         *)
InTurns ==
  \E k \in Int, e \in 0 .. taps * (CoeffOne - 1) :
    exact = (acc_raw + k * AccMod) * CoeffOne + e

ArithInv == ArithTypeOK /\ InTurns /\ RtlAgrees

(* A product is a whole number.                                            *)
LEMMA ProductInt ==
  ASSUME NEW s \in Samples, NEW c \in Coeffs
  PROVE  TapProduct(s, c) \in Int
<1>1. s \in Int /\ c \in Int /\ Pad \in Int
  BY ArithmeticAssumption DEF Samples, Coeffs
<1> QED BY <1>1 DEF TapProduct

(* One tap: the full sum is the new accumulator, whole turns of acc_t and  *)
(* the remainder cut off.                                                  *)
LEMMA OneTap ==
  ASSUME NEW acc \in Int, NEW p \in Int
  PROVE  /\ AccAdd(acc, p) \in 0 - OutMod * OutDrop .. OutMod * OutDrop - 1
         /\ \E j \in Int, r \in 0 .. CoeffOne - 1 :
              acc * CoeffOne + p
                = (AccAdd(acc, p) + j * AccMod) * CoeffOne + r
<1> DEFINE x == acc * CoeffOne + p
<1> DEFINE t == Trunc(x, CoeffOne)
<1>1. CoeffOne \in Nat \ {0} /\ x \in Int
  BY ArithmeticAssumption
<1>2. t \in Int
  BY <1>1, TruncRemainder
<1>3. PICK r \in 0 .. CoeffOne - 1 : x = t * CoeffOne + r
  BY <1>1, TruncRemainder
<1>4. AccAdd(acc, p) = Wrap(t, 2 * (OutMod * OutDrop))
  BY Widths DEF AccAdd
<1> HIDE DEF t, x
<1>5. AccAdd(acc, p) \in 0 - OutMod * OutDrop .. OutMod * OutDrop - 1
  BY <1>2, <1>4, Widths, WrapTurns
<1>6. PICK j \in Int : t = AccAdd(acc, p) + j * AccMod
  BY <1>2, <1>4, Widths, WrapTurns
<1> QED BY <1>3, <1>5, <1>6 DEF x

(* The output is the accumulator but for its low bits and whole turns.     *)
LEMMA OutputTurns ==
  ASSUME NEW acc \in Int
  PROVE  LET q == Trunc(acc, OutDrop)
             y == Wrap(q, OutMod)
         IN /\ q \in Int /\ y \in Int
            /\ 0 - (OutMod \div 2) <= y /\ y < OutMod \div 2
            /\ \E l \in Int : q = y + l * OutMod
            /\ \E r \in 0 .. OutDrop - 1 : acc = q * OutDrop + r
<1> DEFINE q == Trunc(acc, OutDrop)
<1>1. q \in Int /\ \E r \in 0 .. OutDrop - 1 : acc = q * OutDrop + r
  BY TruncRemainder, ArithmeticAssumption
<1>2. PICK h \in Nat \ {0} : OutMod = 2 * h /\ OutMod \div 2 = h
  BY Widths
<1> HIDE DEF q
<1>3. /\ Wrap(q, 2 * h) \in 0 - h .. h - 1
      /\ \E l \in Int : q = Wrap(q, 2 * h) + l * (2 * h)
  BY <1>1, WrapTurns
<1>4. Wrap(q, OutMod) = Wrap(q, 2 * h)
  BY <1>2
<1>5. \E l \in Int : q = Wrap(q, OutMod) + l * OutMod
  BY <1>2, <1>3
<1>6. /\ Wrap(q, OutMod) \in Int
      /\ 0 - (OutMod \div 2) <= Wrap(q, OutMod)
      /\ Wrap(q, OutMod) < OutMod \div 2
  BY <1>2, <1>3, <1>4
<1> QED BY <1>1, <1>5, <1>6 DEF q
-----------------------------------------------------------------------------
LEMMA DataOfZero == 0 = Wrap(Trunc(0, OutDrop), OutMod) % OutMod
<1>1. PICK h \in Nat \ {0} : OutMod = 2 * h /\ OutMod \div 2 = h
  BY Widths
<1>2. Trunc(0, OutDrop) = 0
  BY DivUnique, ArithmeticAssumption DEF Trunc
<1>3. h % OutMod = h /\ 0 % OutMod = 0
  BY <1>1, DivUnique
<1>4. Wrap(0, OutMod) = 0
  BY <1>1, <1>3 DEF Wrap
<1> QED BY <1>2, <1>3, <1>4

LEMMA ArithInitInv == ArithInit => ArithInv
<1> SUFFICES ASSUME ArithInit PROVE ArithInv
  OBVIOUS
<1>1. ArithTypeOK
  BY Widths, ArithmeticAssumption DEF ArithInit, ArithTypeOK
<1>2. InTurns
  <2>1. 0 = (0 + 0 * AccMod) * CoeffOne + 0
    BY Widths, ArithmeticAssumption
  <2>2. 0 \in 0 .. taps * (CoeffOne - 1)
    BY ArithmeticAssumption DEF ArithInit
  <2> QED BY <2>1, <2>2 DEF ArithInit, InTurns
<1>3. RtlAgrees
  <2>1. 0 % AccMod = 0
    BY Widths, DivUnique
  <2> QED BY <2>1, DataOfZero DEF ArithInit, RtlAgrees, Data
<1> QED BY <1>1, <1>2, <1>3 DEF ArithInv

LEMMA NextCallInv == ArithInv /\ NextCall => ArithInv'
<1> SUFFICES ASSUME ArithInv, NextCall PROVE ArithInv'
  OBVIOUS
<1>1. ArithTypeOK'
  BY Widths, ArithmeticAssumption DEF ArithInv, NextCall, ArithTypeOK
<1>2. InTurns'
  <2>1. 0 = (0 + 0 * AccMod) * CoeffOne + 0
    BY Widths, ArithmeticAssumption
  <2>2. 0 \in 0 .. taps' * (CoeffOne - 1)
    BY ArithmeticAssumption DEF NextCall
  <2> QED BY <2>1, <2>2 DEF NextCall, InTurns
<1>3. RtlAgrees'
  <2>1. 0 % AccMod = 0
    BY Widths, DivUnique
  <2> QED BY <2>1, DataOfZero DEF NextCall, RtlAgrees, Data
<1> QED BY <1>1, <1>2, <1>3 DEF ArithInv

(* One tap in the RTL: the sum cut out of 79 bits is the accumulator of    *)
(* fir_hw.cpp in two's complement, and the output bits are its Data.       *)
LEMMA RtlTap ==
  ASSUME NEW acc \in Int, NEW p \in Int,
         NEW rtl \in Int, rtl = acc % AccMod
  PROVE  LET new == AccAdd(acc, p)
             sum == RtlSum(rtl, p)
         IN /\ RtlAcc(sum) = new % AccMod
            /\ RtlOut(sum) = Wrap(Trunc(new, OutDrop), OutMod) % OutMod
<1> DEFINE C == CoeffOne
<1> DEFINE M == AccMod
<1> DEFINE D == OutDrop
<1> DEFINE O == OutMod
<1> DEFINE new == AccAdd(acc, p)
<1> DEFINE w == new % M
<1> DEFINE z == new \div M
<1> DEFINE i == acc \div M
<1> DEFINE sum == RtlSum(rtl, p)
<1>1. /\ C \in Nat \ {0} /\ M \in Nat \ {0} /\ D \in Nat \ {0}
      /\ O \in Nat \ {0} /\ M = 2 * (O * D)
  BY Widths, ArithmeticAssumption
<1>2. new \in Int
  BY OneTap, Widths
<1>3. PICK j \in Int, r \in 0 .. C - 1 :
        acc * C + p = (new + j * M) * C + r
  BY OneTap
<1>4. w \in 0 .. M - 1 /\ z \in Int /\ new = M * z + w
  BY <1>1, <1>2, DivMod
<1>5. i \in Int /\ acc = M * i + rtl
  BY <1>1, DivMod
<1>6. sum = (rtl * C + p) % (M * C)
  BY DEF RtlSum
<1> HIDE DEF C, M, D, O, new, w, z, i, sum
<1>7. sum = w * C + r
  <2> DEFINE t == (z + j) - i
  <2>1. rtl * C + p = t * (M * C) + (w * C + r)
    <3>1. acc * C + p = (M * i) * C + rtl * C + p
      BY <1>1, <1>5
    <3>2. (new + j * M) * C + r = (M * z) * C + (j * M) * C + w * C + r
      BY <1>1, <1>2, <1>4
    <3>3. t * (M * C) = (M * z) * C + (j * M) * C - (M * i) * C
      BY <1>1, <1>4, <1>5
    <3> HIDE DEF t
    <3>4. t \in Int /\ t * (M * C) \in Int
      BY <1>1, <1>4, <1>5 DEF t
    <3>5. /\ (M * z) * C \in Int /\ (j * M) * C \in Int
          /\ (M * i) * C \in Int /\ w * C \in Int /\ rtl * C \in Int
      BY <1>1, <1>4, <1>5
    <3> QED BY <1>3, <3>1, <3>2, <3>3, <3>4, <3>5
  <2>2. M * C \in Nat \ {0}
    BY <1>1
  <2>3. 0 <= w * C + r /\ w * C + r < M * C
    <3>1. w * C >= 0 /\ w * C <= (M - 1) * C
      BY <1>1, <1>4
    <3>2. (M - 1) * C = M * C - C /\ M * C \in Int /\ w * C \in Int
      BY <1>1, <1>4
    <3> QED BY <1>1, <3>1, <3>2
  <2>4. w * C + r \in Int /\ t \in Int /\ rtl * C + p \in Int
    BY <1>1, <1>4, <1>5
  <2> HIDE DEF t
  <2> QED BY <1>6, <2>1, <2>2, <2>3, <2>4, DivUnique
<1>8. RtlAcc(sum) = w
  <2>1. sum \in Int
    BY <1>1, <1>4, <1>7
  <2> QED BY <1>1, <1>4, <1>7, <2>1, DivUnique DEF RtlAcc, C
<1>9. RtlOut(sum) = Wrap(Trunc(new, D), O) % O
  <2> DEFINE q == Trunc(new, D)
  <2> DEFINE y == Wrap(q, O)
  <2>1. PICK l \in Int, r2 \in 0 .. D - 1 :
          /\ q \in Int /\ y \in Int
          /\ q = y + l * O /\ new = q * D + r2
    BY <1>2, OutputTurns DEF D, O
  <2> DEFINE v == y % O
  <2> DEFINE g == y \div O
  <2>2. v \in 0 .. O - 1 /\ g \in Int /\ y = O * g + v
    BY <1>1, <2>1, DivMod
  <2> HIDE DEF q, y, v, g
  <2> DEFINE a == q - z * (2 * O)
  <2>3. a \in Int
    BY <1>1, <1>4, <2>1
  <2>4. w = a * D + r2
    <3>1. M * z = (z * (2 * O)) * D
      BY <1>1, <1>4
    <3>2. a * D = q * D - (z * (2 * O)) * D
      BY <1>1, <1>4, <2>1
    <3>3. (z * (2 * O)) * D \in Int /\ q * D \in Int
      BY <1>1, <1>4, <2>1
    <3> HIDE DEF a
    <3> QED BY <1>4, <2>1, <3>1, <3>2, <3>3
  <2> HIDE DEF a
  <2>5. sum = a * (C * D) + (r2 * C + r)
    BY <1>1, <1>4, <1>7, <2>1, <2>3, <2>4
  <2>6. r2 * C + r \in Int /\ 0 <= r2 * C + r /\ r2 * C + r < C * D
    <3>1. r2 * C >= 0 /\ r2 * C <= (D - 1) * C
      BY <1>1
    <3>2. (D - 1) * C = C * D - C /\ C * D \in Int /\ r2 * C \in Int
      BY <1>1
    <3> QED BY <1>1, <3>1, <3>2
  <2>7. C * D \in Nat \ {0} /\ sum \in Int
    BY <1>1, <1>4, <1>7
  <2>8. sum \div (C * D) = a
    BY <2>3, <2>5, <2>6, <2>7, DivUnique
  <2>9. a % O = v
    <3> DEFINE b == (l + g) - 2 * z
    <3>1. b \in Int /\ a = b * O + v
      BY <1>1, <1>4, <2>1, <2>2 DEF a
    <3> HIDE DEF b
    <3> QED BY <1>1, <2>2, <2>3, <3>1, DivUnique
  <2> QED BY <2>8, <2>9 DEF RtlOut, C, D, O, v, y, q
<1> QED BY <1>8, <1>9 DEF sum, new, w, M, D, O

LEMMA AddTapInv == ArithInv /\ Accumulate => ArithInv'
<1> SUFFICES ASSUME ArithInv, Accumulate PROVE ArithInv'
  OBVIOUS
<1>1. PICK s \in Samples, c \in Coeffs :
        /\ acc_raw' = AccAdd(acc_raw, TapProduct(s, c))
        /\ rtl_acc' = RtlAcc(RtlSum(rtl_acc, TapProduct(s, c)))
        /\ rtl_out' = RtlOut(RtlSum(rtl_acc, TapProduct(s, c)))
        /\ exact' = exact + TapProduct(s, c)
  BY DEF Accumulate
<1> DEFINE p == TapProduct(s, c)
<1>2. p \in Int
  BY ProductInt
<1> HIDE DEF p
<1>3. /\ acc_raw \in Int /\ rtl_acc \in Int /\ exact \in Int
      /\ taps \in Nat /\ taps' = taps + 1 /\ taps' \in 0 .. MaxTaps
      /\ rtl_acc = acc_raw % AccMod
  BY Widths, ArithmeticAssumption
     DEF ArithInv, ArithTypeOK, RtlAgrees, Accumulate
<1>4. acc_raw' \in 0 - (AccMod \div 2) .. (AccMod \div 2) - 1
  BY <1>1, <1>2, <1>3, Widths, OneTap DEF p
<1>5. /\ RtlAcc(RtlSum(rtl_acc, p)) = AccAdd(acc_raw, p) % AccMod
      /\ RtlOut(RtlSum(rtl_acc, p))
           = Wrap(Trunc(AccAdd(acc_raw, p), OutDrop), OutMod) % OutMod
  BY <1>2, <1>3, RtlTap
<1>6. RtlAgrees'
  BY <1>1, <1>5 DEF RtlAgrees, Data, p
<1>7. ArithTypeOK'
  <2>1. acc_raw' \in Int /\ Wrap(Trunc(acc_raw', OutDrop), OutMod) \in Int
    BY <1>4, Widths, OutputTurns
  <2>2. rtl_acc' \in 0 .. AccMod - 1
    BY <1>6, <2>1, Widths, DivMod DEF RtlAgrees
  <2>3. rtl_out' \in 0 .. OutMod - 1
    <3>1. rtl_out' = Wrap(Trunc(acc_raw', OutDrop), OutMod) % OutMod
      BY <1>1, <1>5 DEF p
    <3> QED BY <2>1, <3>1, Widths, DivMod
  <2>4. exact' \in Int
    BY <1>1, <1>2, <1>3 DEF p
  <2> QED BY <1>3, <1>4, <2>2, <2>3, <2>4 DEF ArithTypeOK
<1>8. InTurns'
  <2> DEFINE C == CoeffOne
  <2> DEFINE M == AccMod
  <2>1. C \in Nat \ {0} /\ M \in Nat \ {0}
    BY Widths, ArithmeticAssumption
  <2>2. PICK k \in Int, e \in 0 .. taps * (C - 1) :
          exact = (acc_raw + k * M) * C + e
    BY DEF ArithInv, InTurns
  <2>3. PICK j \in Int, r \in 0 .. C - 1 :
          acc_raw * C + p = (acc_raw' + j * M) * C + r
    <3>1. acc_raw' = AccAdd(acc_raw, p)
      BY <1>1 DEF p
    <3>2. \E j \in Int, r \in 0 .. CoeffOne - 1 : acc_raw * CoeffOne + p
             = (AccAdd(acc_raw, p) + j * AccMod) * CoeffOne + r
      BY <1>2, <1>3, OneTap
    <3> QED BY <3>1, <3>2
  <2>4. exact' = exact + p /\ acc_raw' \in Int
    BY <1>1, <1>4, Widths DEF p
  <2>5. exact' = (acc_raw' + (k + j) * M) * C + (e + r)
    <3> HIDE DEF C, M
    <3>1. (acc_raw + k * M) * C = acc_raw * C + (k * M) * C
      BY <1>3, <2>1
    <3>2. (acc_raw' + (k + j) * M) * C
            = (acc_raw' + j * M) * C + (k * M) * C
      BY <2>1, <2>4
    <3>3. /\ acc_raw * C \in Int /\ (k * M) * C \in Int
          /\ (acc_raw' + j * M) * C \in Int
      BY <1>3, <2>1, <2>4
    <3>4. taps * (C - 1) \in Int
      BY <1>3, <2>1
    <3>5. e \in Int /\ r \in Int
      BY <2>1, <3>4
    <3> DEFINE u == acc_raw * C
    <3> DEFINE v == (k * M) * C
    <3> DEFINE w == (acc_raw' + j * M) * C
    <3>6. exact = u + v + e /\ u + p = w + r
      BY <2>2, <2>3, <3>1
    <3>7. (acc_raw' + (k + j) * M) * C = w + v
      BY <3>2
    <3>8. u \in Int /\ v \in Int /\ w \in Int
      BY <3>3
    <3> HIDE DEF u, v, w
    <3>9. exact + p = (w + v) + (e + r)
      BY <1>2, <3>5, <3>6, <3>8
    <3> QED BY <2>4, <3>7, <3>9
  <2> HIDE DEF C, M
  <2>6. k + j \in Int /\ e + r \in 0 .. taps' * (C - 1)
    <3>1. taps' * (C - 1) = taps * (C - 1) + (C - 1)
      BY <1>3, <2>1
    <3>2. taps * (C - 1) \in Int
      BY <1>3, <2>1
    <3> QED BY <2>1, <2>2, <2>3, <3>1, <3>2
  <2> QED BY <2>5, <2>6 DEF InTurns, C, M
<1> QED BY <1>6, <1>7, <1>8 DEF ArithInv

THEOREM ArithInvariance == ArithSpec => []ArithInv
<1>1. ArithInv /\ [ArithNext]_arithVars => ArithInv'
  <2> SUFFICES ASSUME ArithInv, [ArithNext]_arithVars PROVE ArithInv'
    OBVIOUS
  <2>1. CASE Accumulate
    BY <2>1, AddTapInv
  <2>2. CASE NextCall
    BY <2>2, NextCallInv
  <2>3. CASE UNCHANGED arithVars
    BY <2>3 DEF arithVars, ArithInv, ArithTypeOK, InTurns, RtlAgrees, Data
  <2> QED BY <2>1, <2>2, <2>3 DEF ArithNext
<1> QED BY <1>1, ArithInitInv, PTL DEF ArithSpec

(* The numbers stay within their types.                                    *)
THEOREM ArithTypeCorrect == ArithSpec => []ArithTypeOK
<1>1. ArithInv => ArithTypeOK
  BY DEF ArithInv
<1> QED BY <1>1, ArithInvariance, PTL

(* The RTL's cut of the sum is fir_hw.cpp's arithmetic, bit for bit, at    *)
(* every width.                                                            *)
THEOREM RtlSame == ArithSpec => []RtlAgrees
<1>1. ArithInv => RtlAgrees
  BY DEF ArithInv
<1> QED BY <1>1, ArithInvariance, PTL

(* The exact sum is the result, whole turns of dout_t, and truncation.     *)
LEMMA ResultTurns ==
  ASSUME ArithInv
  PROVE  /\ Ulp \in Nat \ {0} /\ exact \in Int /\ Loss \in Int
         /\ Data \in Int
         /\ 0 - (OutMod \div 2) <= Data /\ Data < OutMod \div 2
         /\ \E t \in Int, d \in 0 .. Loss :
              exact = (Data + t * OutMod) * Ulp + d
<1> DEFINE C == CoeffOne
<1> DEFINE M == AccMod
<1> DEFINE D == OutDrop
<1> DEFINE O == OutMod
<1> DEFINE q == Trunc(acc_raw, D)
<1> DEFINE y == Wrap(q, O)
<1> DEFINE lost == taps * (C - 1)
<1>1. /\ C \in Nat \ {0} /\ M \in Nat \ {0} /\ D \in Nat \ {0}
      /\ O \in Nat \ {0} /\ M = 2 * (O * D)
  BY Widths, ArithmeticAssumption
<1>2. acc_raw \in Int /\ exact \in Int /\ taps \in Nat
  BY Widths, ArithmeticAssumption DEF ArithInv, ArithTypeOK
<1>3. PICK k \in Int, e \in 0 .. lost : exact = (acc_raw + k * M) * C + e
  BY DEF ArithInv, InTurns
<1>4. PICK l \in Int, r \in 0 .. D - 1 :
        /\ q \in Int /\ y \in Int
        /\ 0 - (O \div 2) <= y /\ y < O \div 2
        /\ q = y + l * O /\ acc_raw = q * D + r
  BY <1>2, OutputTurns
<1>5. Data = y
  BY DEF Data
<1>6. Ulp = C * D /\ Loss = lost + (C * D - 1)
  BY DEF Ulp, Loss
<1>7. lost \in Int
  BY <1>1, <1>2
<1> HIDE DEF C, M, D, O, q, y, lost
<1>8. exact = (y + (l + 2 * k) * O) * (C * D) + (r * C + e)
  <2>1. acc_raw + k * M = (y + (l + 2 * k) * O) * D + r
    BY <1>1, <1>2, <1>3, <1>4
  <2> DEFINE a == y + (l + 2 * k) * O
  <2>2. a \in Int
    BY <1>1, <1>3, <1>4
  <2> HIDE DEF a
  <2>3. exact = (a * D + r) * C + e
    BY <1>3, <2>1 DEF a
  <2>4. (a * D + r) * C = a * (C * D) + r * C
    BY <1>1, <1>4, <2>2
  <2>5. a * (C * D) \in Int /\ r * C \in Int
    BY <1>1, <1>4, <2>2
  <2>6. exact = a * (C * D) + (r * C + e)
    BY <1>3, <1>7, <2>3, <2>4, <2>5
  <2> QED BY <2>6 DEF a
<1>9. r * C + e \in 0 .. lost + (C * D - 1)
  <2>1. r * C >= 0 /\ r * C <= (D - 1) * C /\ r * C \in Int
    BY <1>1, <1>4
  <2>2. (D - 1) * C = C * D - C /\ C * D \in Int
    BY <1>1
  <2> QED BY <1>1, <1>3, <1>7, <2>1, <2>2
<1>10. C * D \in Nat \ {0}
  BY <1>1
<1>11. lost + (C * D - 1) \in Int
  BY <1>7, <1>10
<1>12. l + 2 * k \in Int
  BY <1>3, <1>4
<1>13. \E t \in Int, d \in 0 .. Loss :
         exact = (Data + t * O) * Ulp + d
  BY <1>5, <1>6, <1>8, <1>9, <1>12
<1> QED BY <1>2, <1>4, <1>5, <1>6, <1>10, <1>11, <1>13 DEF O

(* A result that does not fit is wrong by whole turns of dout_t only.      *)
THEOREM WrongByTurns == ArithSpec => []OffByTurns
<1>1. ArithInv => OffByTurns
  <2> SUFFICES ASSUME ArithInv PROVE OffByTurns
    OBVIOUS
  <2> DEFINE B == OutMod * Ulp
  <2> DEFINE x == exact - Data * Ulp
  <2>1. PICK t \in Int, d \in 0 .. Loss :
          /\ Ulp \in Nat \ {0} /\ Loss \in Int /\ Data \in Int
          /\ exact = (Data + t * OutMod) * Ulp + d
    BY ResultTurns
  <2>2. OutMod \in Nat \ {0}
    BY Widths
  <2>3. B \in Nat \ {0} /\ x \in Int /\ x = t * B + d
    BY <2>1, <2>2
  <2> HIDE DEF B, x
  <2>4. x % B \in 0 .. B - 1
    BY <2>3, DivMod
  <2>5. CASE d < B
    <3>1. d \in Int /\ 0 <= d
      BY <2>1
    <3>2. x % B = d
      BY <2>1, <2>3, <2>5, <3>1, DivUnique
    <3> QED BY <2>1, <3>2 DEF OffByTurns, x, B
  <2>6. CASE d >= B
    <3>1. x % B <= Loss
      BY <2>1, <2>3, <2>4, <2>6
    <3> QED BY <3>1 DEF OffByTurns, x, B
  <2> QED BY <2>1, <2>3, <2>5, <2>6
<1> QED BY <1>1, ArithInvariance, PTL

(* A result that fits is exact but for truncation, however often the       *)
(* accumulator wrapped on the way.                                         *)
THEOREM ExactIfFits == ArithSpec => []ResultExact
<1>1. ArithInv => ResultExact
  <2> SUFFICES ASSUME ArithInv, Fits
               PROVE  /\ 0 <= exact - Data * Ulp
                      /\ exact - Data * Ulp <= Loss
    BY DEF ResultExact
  <2> DEFINE U == Ulp
  <2>1. PICK t \in Int, d \in 0 .. Loss :
          /\ U \in Nat \ {0} /\ Loss \in Int /\ Data \in Int
          /\ exact \in Int
          /\ 0 - (OutMod \div 2) <= Data /\ Data < OutMod \div 2
          /\ exact = (Data + t * OutMod) * U + d
    BY ResultTurns
  <2>2. PICK h \in Nat \ {0} : OutMod = 2 * h /\ OutMod \div 2 = h
    BY Widths
  <2> DEFINE a == Data + t * OutMod
  <2>3. a \in Int /\ exact = a * U + d /\ a = Data + (2 * t) * h
    BY <2>1, <2>2
  <2>4. exact - Loss >= 0 - (h * U) /\ exact < h * U
    BY <2>2 DEF Fits
  <2> HIDE DEF a, U
  <2>5. a >= 0 - h
    <3> SUFFICES ASSUME a <= (0 - h) - 1 PROVE FALSE
      BY <2>2, <2>3
    <3>1. a * U <= ((0 - h) - 1) * U
      BY <2>1, <2>2, <2>3
    <3>2. ((0 - h) - 1) * U = (0 - (h * U)) - U /\ h * U \in Int
      BY <2>1, <2>2
    <3>3. a * U \in Int
      BY <2>1, <2>3
    <3> QED BY <2>1, <2>3, <2>4, <3>1, <3>2, <3>3
  <2>6. a < h
    <3> SUFFICES ASSUME a >= h PROVE FALSE
      BY <2>2, <2>3
    <3>1. a * U >= h * U /\ h * U \in Int /\ a * U \in Int
      BY <2>1, <2>2, <2>3
    <3> QED BY <2>1, <2>3, <2>4, <3>1
  <2>7. t = 0
    <3>1. CASE t >= 1
      <4>1. (2 * t) * h >= 2 * h /\ (2 * t) * h \in Int
        BY <2>2, <3>1
      <4> QED BY <2>1, <2>2, <2>3, <2>6, <4>1
    <3>2. CASE t <= 0 - 1
      <4>1. (2 * t) * h <= 0 - (2 * h) /\ (2 * t) * h \in Int
        BY <2>2, <3>2
      <4> QED BY <2>1, <2>2, <2>3, <2>5, <4>1
    <3> QED BY <3>1, <3>2
  <2>8. a = Data
    BY <2>1, <2>2, <2>3, <2>7
  <2>9. Data * U \in Int
    BY <2>1
  <2> QED BY <2>1, <2>3, <2>8, <2>9 DEF U
<1> QED BY <1>1, ArithInvariance, PTL
=============================================================================
