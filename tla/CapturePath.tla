---------------------------- MODULE CapturePath ----------------------------
(***************************************************************************)
(* The path of a sample through the programmable logic: the strobes of     *)
(* audio_interface.v, the left and the right input FIFO, the FIR core of   *)
(* FirHw, the output FIFO and the S2MM channel of the DMA engine, wired as *)
(* in cpu_system.bd, while a program of vitis/ initialises them.  A restart *)
(* of the program alone resets none of them, though dma_it_init resets the *)
(* DMA engine; a launch that runs psu_init pulses pl_resetn0, and with it  *)
(* every reset of the design.  Neither programs the FPGA again.            *)
(*                                                                         *)
(* A sample is the number of its audio frame: codec_lrclk is high for the  *)
(* left half of a frame, low for the right half, and the strobe comes with *)
(* the edge that ends the half.  The channel is abstracted to packets: see *)
(* DmaController for the ring.                                             *)
(***************************************************************************)
EXTENDS FirHw

CONSTANTS
  Programs,   \* the initialisation calls of each program, in their order
  BlockSize,  \* BLOCK_SIZE: beats of a DMA transfer, and tlast_dnum
  InDepth,    \* 512: depth of the input FIFOs
  OutDepth,   \* 1024: depth of the output FIFO
  MaxFrames,  \* bound: audio frames in a behaviour
  MaxRestarts \* bound: restarts of the program

ASSUME PathAssumption ==
  /\ Programs \subseteq Seq({"codec", "fir", "tlast", "dma", "dma_it"})
  /\ BlockSize \in Nat \ {0}
  /\ InDepth \in Nat \ {0} /\ OutDepth \in Nat \ {0}
  /\ MaxFrames \in Nat /\ MaxRestarts \in Nat

(* BLOCK_SIZE is 256 wherever it is written to tlast_dnum: an even number  *)
(* of beats, and two blocks of them do not exhaust the counter.  A reset   *)
(* clears tlast_dnum.                                                      *)
ASSUME BlockAssumption ==
  /\ BlockSize % 2 = 0 /\ CntMod % 2 = 0 /\ 2 * BlockSize <= CntMod
  /\ \A c \in Configs : c.tlast_dnum = BlockSize
  /\ Reset.tlast_dnum = 0

VARIABLES
  program, boot,   \* the program that runs, and its next initialisation call
  restarts,        \* restarts so far
  en,              \* GPIO bit 0, the strobes' enable
  half, frame,     \* what the codec is sending
  fifo_l, fifo_r,  \* fifo_generator_1 and fifo_generator_2
  fifo_out,        \* fifo_generator_0
  chan, block,     \* the S2MM channel and the beats of its transfer
  lost,            \* history: beats of the packet that were counted and lost
                   \* in a reset of the engine or of the logic
  dropped,         \* history: an input FIFO refused a sample
  rightFirst,      \* history: en rose in the right half of a frame
  late             \* history: calls begun before tlast_dnum was set have
                   \* counted a block's worth of results

bootVars == <<program, boot, restarts>>
codecVars == <<en, half, frame, rightFirst>>
inVars == <<fifo_l, fifo_r, dropped>>
dmaVars == <<chan, block, lost>>
vars == <<firVars, bootVars, codecVars, inVars, fifo_out, dmaVars, late>>

Init ==
  /\ FirInit
  /\ program \in Programs /\ boot = 1 /\ restarts = 0
  /\ en = FALSE /\ half = "left" /\ frame = 0 /\ rightFirst = FALSE
  /\ fifo_l = <<>> /\ fifo_r = <<>> /\ dropped = FALSE
  /\ fifo_out = <<>>
  /\ chan = "off" /\ block = <<>> /\ lost = 0
  /\ late = FALSE

(***************************************************************************)
(* The program.                                                            *)
(***************************************************************************)
Calls(what) == boot \in DOMAIN program /\ program[boot] = what /\ fi = Done

(* codec_init: with its last store samples start to flow, in whichever     *)
(* half of a frame the codec is.                                           *)
CodecInit ==
  /\ Calls("codec") /\ boot' = boot + 1
  /\ en' = TRUE
  /\ IF en THEN UNCHANGED <<half, rightFirst>>
     ELSE half' \in {"left", "right"} /\ rightFirst' = (half' = "right")
  /\ UNCHANGED <<program, restarts, firVars, frame, inVars, fifo_out, dmaVars,
                 late>>

(* FIR_init.                                                               *)
FirBoot ==
  /\ Calls("fir") /\ boot' = boot + 1
  /\ \E config \in Configs : BeginFirInit(config)
  /\ UNCHANGED <<program, restarts, codecVars, inVars, fifo_out, dmaVars, late>>

FirBootStep ==
  /\ FirInitStep
  /\ UNCHANGED <<bootVars, codecVars, inVars, fifo_out, dmaVars, late>>

(* XFir_hw_Set_tlast_dnum(BLOCK_SIZE) alone, as dma_test_final does.       *)
TlastBoot ==
  /\ Calls("tlast") /\ boot' = boot + 1
  /\ tlast_dnum' = BlockSize
  /\ UNCHANGED <<program, restarts, smpl_rd_num, tap_num_m1, coeff_hw,
                 callVars, initVars, codecVars, inVars, fifo_out, dmaVars,
                 late>>

(* A packet that was completed takes its losses with it.                   *)
StillLost == IF chan = "idle" THEN 0 ELSE lost + Len(block)

(* dma_init and the first dma_rcv: a channel that is busy with the old     *)
(* run's transfer ignores them, and a halted one stays halted.             *)
DmaBoot ==
  /\ Calls("dma") /\ boot' = boot + 1
  /\ IF chan \in {"off", "idle"}
     THEN chan' = "busy" /\ block' = <<>> /\ lost' = StillLost
     ELSE UNCHANGED dmaVars
  /\ UNCHANGED <<program, restarts, firVars, codecVars, inVars, fifo_out, late>>

(* dma_it_init: XAxiDma_CfgInitialize resets the engine, which forgets the *)
(* beats of a transfer it was in, and the first transfer starts.           *)
DmaItBoot ==
  /\ Calls("dma_it") /\ boot' = boot + 1
  /\ chan' = "busy" /\ block' = <<>>
  /\ lost' = StillLost
  /\ UNCHANGED <<program, restarts, firVars, codecVars, inVars, fifo_out, late>>

(* The program starts again, wherever it was.                              *)
Restart ==
  /\ restarts < MaxRestarts /\ restarts' = restarts + 1
  /\ boot' = 1 /\ fi' = Done
  /\ UNCHANGED <<program, regVars, callVars, fi_config, codecVars, inVars,
                 fifo_out, dmaVars, late>>

(* A launch with pl_resetn0: proc_sys_reset resets every part.  The FIFOs  *)
(* are empty, the GPIO and the channel off; of fir_hw, ResetCore.          *)
Relaunch ==
  /\ restarts < MaxRestarts /\ restarts' = restarts + 1
  /\ boot' = 1
  /\ ResetCore
  /\ en' = FALSE /\ half' = "left" /\ rightFirst' = FALSE
  /\ fifo_l' = <<>> /\ fifo_r' = <<>> /\ dropped' = FALSE
  /\ fifo_out' = <<>>
  /\ chan' = "off" /\ block' = <<>> /\ lost' = CntKept
  /\ late' = (late \/ (args.tlast_dnum # BlockSize /\ CntKept >= BlockSize))
  /\ UNCHANGED <<program, frame>>

NextTransfer_NotIdle ==  \* mutant: waits for another state of the channel
  /\ chan = "off" /\ boot > Len(program)
  /\ chan' = "busy" /\ block' = <<>> /\ lost' = 0
  /\ UNCHANGED <<firVars, bootVars, codecVars, inVars, fifo_out, late>>

(* RxIntrHandler, or dma_rcv_wait and the next dma_rcv: a transfer after   *)
(* each completed one.                                                     *)
NextTransfer ==
  /\ chan = "idle" /\ boot > Len(program)
  /\ chan' = "busy" /\ block' = <<>> /\ lost' = 0
  /\ UNCHANGED <<firVars, bootVars, codecVars, inVars, fifo_out, late>>

(***************************************************************************)
(* The logic.                                                              *)
(***************************************************************************)
Write_NoLimit(fifo, sample) == Append(fifo, sample)  \* mutant: never full

(* A write to a full FIFO is lost.                                         *)
Write(fifo, sample) ==
  IF Len(fifo) < InDepth THEN Append(fifo, sample) ELSE fifo

(* adc_valid_l at the falling edge of codec_lrclk, adc_valid_r at the      *)
(* rising one; the pair of edges belongs to one frame.                     *)
StrobeLeft ==
  /\ en /\ half = "left" /\ frame < MaxFrames
  /\ half' = "right" /\ frame' = frame + 1
  /\ fifo_l' = Write(fifo_l, frame')
  /\ dropped' = (dropped \/ Len(fifo_l) = InDepth)
  /\ UNCHANGED <<firVars, bootVars, en, rightFirst, fifo_r, fifo_out, dmaVars,
                 late>>

StrobeRight ==
  /\ en /\ half = "right"
  /\ half' = "left"
  /\ fifo_r' = Write(fifo_r, frame)
  /\ dropped' = (dropped \/ Len(fifo_r) = InDepth)
  /\ UNCHANGED <<firVars, bootVars, en, frame, rightFirst, fifo_l, fifo_out,
                 dmaVars, late>>

TakePair_EitherValid ==  \* mutant: does not wait for the right sample
  /\ fifo_l # <<>>
  /\ LET r == IF fifo_r = <<>> THEN 0 ELSE Head(fifo_r)
     IN TakeSamples(Head(fifo_l), r)
  /\ fifo_l' = Tail(fifo_l)
  /\ fifo_r' = IF fifo_r = <<>> THEN <<>> ELSE Tail(fifo_r)
  /\ UNCHANGED <<bootVars, codecVars, dropped, fifo_out, dmaVars, late>>

TakePair_LeftTwice ==  \* mutant: *input_l is read twice in a call
  /\ Len(fifo_l) > 1 /\ fifo_r # <<>>
  /\ TakeSamples(Head(fifo_l), Head(fifo_r))
  /\ fifo_l' = Tail(Tail(fifo_l)) /\ fifo_r' = Tail(fifo_r)
  /\ UNCHANGED <<bootVars, codecVars, dropped, fifo_out, dmaVars, late>>

(* The core acknowledges both FIFOs at once, when both hold a sample.      *)
TakePair ==
  /\ fifo_l # <<>> /\ fifo_r # <<>>
  /\ TakeSamples(Head(fifo_l), Head(fifo_r))
  /\ fifo_l' = Tail(fifo_l) /\ fifo_r' = Tail(fifo_r)
  /\ UNCHANGED <<bootVars, codecVars, dropped, fifo_out, dmaVars, late>>

Filter ==
  /\ AddTap \/ EndCall
  /\ UNCHANGED <<bootVars, codecVars, inVars, fifo_out, dmaVars, late>>

(* res.write waits for room in the output FIFO.                            *)
Result(channel, acc) ==
  /\ Len(fifo_out) < OutDepth
  /\ fifo_out' = Append(fifo_out, [channel |-> channel, last |-> IsLast,
                                   sample |-> acc[1].smpl])
  /\ late' = (late \/ (args.tlast_dnum # BlockSize /\ cnt + 1 >= BlockSize))
  /\ UNCHANGED <<bootVars, codecVars, inVars, dmaVars>>

Send == \/ WriteLeft /\ Result("left", acc_l)
        \/ WriteRight /\ Result("right", acc_r)

(* The engine writes a beat.  TLAST completes the transfer; a transfer     *)
(* that is full without TLAST is an error, and the channel halts.          *)
Receive ==
  LET beat == Head(fifo_out) IN
  /\ chan = "busy" /\ fifo_out # <<>>
  /\ fifo_out' = Tail(fifo_out)
  /\ block' = Append(block, beat)
  /\ chan' = CASE beat.last -> "idle"
               [] ~beat.last /\ Len(block) + 1 = BlockSize -> "halted"
               [] OTHER -> "busy"
  /\ UNCHANGED <<firVars, bootVars, codecVars, inVars, lost, late>>

Software ==
  \/ CodecInit \/ FirBoot \/ FirBootStep \/ TlastBoot
  \/ DmaBoot \/ DmaItBoot
Codec == StrobeLeft \/ StrobeRight
Core == TakePair \/ Filter \/ Send

Next ==
  Software \/ Restart \/ Relaunch \/ NextTransfer \/ Codec \/ Core \/ Receive

Spec == Init /\ [][Next]_vars

(* The program and the logic run; the codec's clocks are not assumed.      *)
FairSpec ==
  /\ Spec
  /\ WF_vars(Software) /\ WF_vars(NextTransfer)
  /\ WF_vars(Core) /\ WF_vars(Receive)
-----------------------------------------------------------------------------
PathBeat ==
  [channel : {"left", "right"}, last : BOOLEAN, sample : 0 .. MaxFrames]

PathTypeOK ==
  /\ program \in Programs /\ boot \in 1 .. Len(program) + 1
  /\ restarts \in 0 .. MaxRestarts
  /\ en \in BOOLEAN /\ half \in {"left", "right"} /\ frame \in 0 .. MaxFrames
  /\ fifo_l \in Seq(0 .. MaxFrames) /\ Len(fifo_l) <= InDepth
  /\ fifo_r \in Seq(0 .. MaxFrames) /\ Len(fifo_r) <= InDepth
  /\ fifo_out \in Seq(PathBeat) /\ Len(fifo_out) <= OutDepth
  /\ chan \in {"off", "idle", "busy", "halted"}
  /\ block \in Seq(PathBeat) /\ Len(block) <= BlockSize
  /\ lost \in Nat
  /\ dropped \in BOOLEAN /\ rightFirst \in BOOLEAN /\ late \in BOOLEAN

Pairs == (1 .. Len(fifo_l)) \intersect (1 .. Len(fifo_r))

(* The FIFOs lose samples independently, and en may rise in mid-frame; yet *)
(* a pair the core takes is of one frame, or has the left sample of the    *)
(* very next one.  The skew never accumulates.                             *)
SkewAtMostOne == \A i \in Pairs : fifo_l[i] - fifo_r[i] \in {0, 1}

(* Without an overflow, and with en raised in a left half, every pair is   *)
(* of one frame.                                                           *)
PairsOfOneFrame ==
  ~dropped /\ ~rightFirst => \A i \in Pairs : fifo_l[i] = fifo_r[i]

(* A completed transfer is a whole block: BlockSize beats that start with  *)
(* the left channel and alternate, the samples in order.  The first block  *)
(* after a restart lacks just the beats that were counted before a reset,  *)
(* of the engine or of the logic, and lost in it.                          *)
BlocksWhole ==
  chan = "idle" /\ lost < BlockSize =>
    /\ Len(block) = BlockSize - lost
    /\ \A k \in DOMAIN block :
         /\ block[k].channel = IF (k + lost) % 2 = 1 THEN "left" ELSE "right"
         /\ k > 2 => block[k].sample > block[k - 2].sample

(* No call of codec_init comes before tlast_dnum is set.                   *)
FramesBeforeSamples ==
  \A j \in DOMAIN program : program[j] = "codec" =>
    \E i \in 1 .. j - 1 : program[i] \in {"fir", "tlast"}

(* The channel halts only if calls that began before FIR_init set          *)
(* tlast_dnum had counted a whole block's worth of results; so never in a  *)
(* program that sets tlast_dnum before codec_init, whenever restarted.     *)
HaltsOnlyIfLate == chan = "halted" => late /\ ~FramesBeforeSamples

(* The chain of FIFOs does not lock up: unless the channel halted, pairs   *)
(* that wait are taken.                                                    *)
InputDrains ==
  fifo_l # <<>> /\ fifo_r # <<>> ~>
    fifo_l = <<>> \/ fifo_r = <<>> \/ chan = "halted"
=============================================================================
