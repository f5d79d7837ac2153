----------------------------- MODULE FirFilter -----------------------------
(***************************************************************************)
(* FirHw by itself: both inputs always have a sample, the output stream    *)
(* always has room, and the program runs FIR_init at any time, again after *)
(* a restart that does not reset the logic.  What is checked: the ring     *)
(* buffers convolve, TLAST frames, dec_cnt decimates, whatever is          *)
(* reprogrammed under them.                                                *)
(***************************************************************************)
EXTENDS FirHw

CONSTANTS
  MaxSamples,  \* bound: calls of fir_hw in a behaviour
  MaxInits     \* bound: calls of FIR_init

ASSUME FilterAssumption == MaxSamples \in Nat /\ MaxInits \in Nat

VARIABLES
  n,        \* samples taken: the newest left one is n, right -n
  inits,    \* calls of FIR_init
  settled,  \* history: no FIR_init overlapped the call in progress
  pos,      \* history: beats since the last one with TLAST
  missed,   \* history: tlast_dnum was not above cnt when a call began
  gap,      \* history: calls since the last result
  rates     \* history: smpl_rd_num in those calls

history == <<settled, pos, missed, gap, rates>>
vars == <<firVars, n, inits, history>>

Init ==
  /\ FirInit
  /\ n = 0
  /\ inits = 0
  /\ settled = TRUE
  /\ pos = 0
  /\ missed = FALSE
  /\ gap = 0
  /\ rates = {}

Call ==
  /\ n < MaxSamples
  /\ TakeSamples(n + 1, 0 - (n + 1))
  /\ n' = n + 1
  /\ settled' = (fi = Done)
  /\ missed' = (missed \/ cnt >= tlast_dnum)
  /\ IF stage' = "loop" THEN gap' = 0 /\ rates' = {}
     ELSE gap' = gap + 1 /\ rates' = rates \union {smpl_rd_num}
  /\ UNCHANGED <<inits, pos>>

Loop == AddTap /\ UNCHANGED <<n, inits, history>>

Output ==
  /\ WriteLeft \/ WriteRight
  /\ pos' = IF IsLast THEN 0 ELSE pos + 1
  /\ missed' = IF IsLast THEN args.tlast_dnum = 0 ELSE missed
  /\ UNCHANGED <<n, inits, settled, gap, rates>>

Return == EndCall /\ UNCHANGED <<n, inits, history>>

StartFirInit ==
  /\ inits < MaxInits
  /\ \E config \in Configs : BeginFirInit(config)
  /\ inits' = inits + 1
  /\ settled' = FALSE
  /\ UNCHANGED <<n, pos, missed, gap, rates>>

Program == FirInitStep /\ UNCHANGED <<n, inits, history>>

Next == Call \/ Loop \/ Output \/ Return \/ StartFirInit \/ Program

Spec == Init /\ [][Next]_vars
-----------------------------------------------------------------------------
Product_ == [coeff : Configs \union {Reset}, smpl : Int]

TypeOK ==
  /\ tlast_dnum \in 0 .. CntMod - 1
  /\ smpl_rd_num \in 0 .. DecMod - 1
  /\ tap_num_m1 \in Index
  /\ coeff_hw \in [Index -> Configs \union {Reset}]
  /\ buffer_left \in [Index -> Int]
  /\ buffer_right \in [Index -> Int]
  /\ write_idx \in Index
  /\ cnt \in 0 .. CntMod - 1
  /\ dec_cnt \in 0 .. DecMod - 1
  /\ stage \in {"input", "loop", "left", "right", "next"}
  /\ args \in [tlast_dnum : 0 .. CntMod - 1, tap_num_m1 : Index,
              dec_cnt : 0 .. DecMod - 1]
  /\ acc_l \in Seq(Product_) /\ acc_r \in Seq(Product_)
  /\ fi \in 0 .. Done
  /\ fi_config \in Configs \union {Reset}
  /\ n \in Nat /\ inits \in Nat
  /\ settled \in BOOLEAN /\ missed \in BOOLEAN
  /\ pos \in Nat /\ gap \in Nat
  /\ rates \subseteq 0 .. DecMod - 1

(* The sample i calls ago, Silence before the first.                       *)
Past(i) == IF n > i THEN n - i ELSE Silence

(* The results of a call are the convolution: the product at tap i has the *)
(* sample of i calls ago of its own channel, however often the ring        *)
(* wrapped, and calls without a result count; and unless FIR_init ran      *)
(* meanwhile every coefficient is of the configuration it last wrote.      *)
Convolves ==
  stage \in {"left", "right"} =>
    /\ Len(acc_l) = args.tap_num_m1 + 1 /\ Len(acc_r) = Len(acc_l)
    /\ \A i \in 0 .. args.tap_num_m1 :
         /\ acc_l[i + 1].smpl = Past(i) /\ acc_r[i + 1].smpl = 0 - Past(i)
         /\ settled => /\ acc_l[i + 1].coeff = fi_config
                       /\ acc_r[i + 1].coeff = fi_config

(* A packet ends at its tlast_dnum-th beat, neither before nor after,      *)
(* unless a new tlast_dnum came too late for the packet under way.         *)
FramesExactly ==
  stage \in {"left", "right"} /\ ~missed =>
    /\ pos < args.tlast_dnum
    /\ IsLast <=> pos + 1 = args.tlast_dnum

(* Between two results lie as many calls as smpl_rd_num says, 0 meaning 1, *)
(* and while it changes, between the least and the greatest of its values. *)
WithinRates(calls, R) ==
  /\ \E lo \in R : lo <= calls
  /\ \E hi \in R : calls <= IF hi = 0 THEN 1 ELSE hi

Decimates ==
  [][stage = "input" /\ stage' = "loop" =>
       WithinRates(gap + 1, rates \union {smpl_rd_num})]_vars
=============================================================================
