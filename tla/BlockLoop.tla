----------------------------- MODULE BlockLoop -----------------------------
(***************************************************************************)
(* The main loops of final_test and dma_test_final: one transfer at a time *)
(* into a ring of blocks, by the helpers of PolledDma.  The core sends     *)
(* packets of a block each; a packet is its number, in every line of it.   *)
(*                                                                         *)
(* The program may be stopped and started again at any step, which clears  *)
(* its buffer, in the cache, and leaves the engine as it is.               *)
(***************************************************************************)
EXTENDS PolledDma

CONSTANTS
  Programs,     \* of "final_test" and "dma_test_final"
  BLOCK_SIZE,   \* lines of a block
  MaxPackets,   \* bound: packets in a behaviour
  MaxRestarts,  \* bound: restarts of the program
  Faults        \* whether the channel may meet an error

(* DMA_BUFFER_SIZE.                                                        *)
DMA_BUFFER_SIZE == MemLines

ASSUME LoopAssumption ==
  /\ Programs \subseteq {"final_test", "dma_test_final"}
  /\ BLOCK_SIZE \in Nat \ {0}
  /\ MemLines \in Nat /\ BLOCK_SIZE <= MemLines
  /\ MaxPackets \in Nat /\ MaxRestarts \in Nat
  /\ Faults \in BOOLEAN

VARIABLES
  program, pc, offs,  \* the program, its place, and its offset
  packets,            \* history: packets received
  seen,               \* history: packets received when the last block was
                      \* processed, or the program started
  restarts,           \* history: restarts of the program
  mine,               \* history: the transfer is one this run asked for
  first               \* history: no block was processed in this run

dmaVars == <<mem, cache, tx, rx>>
runVars == <<program, restarts>>
histVars == <<packets, seen, mine, first>>
vars == <<dmaVars, runVars, histVars, pc, offs>>

(* The start-up code clears dma_rx_buf, with the cache on.                 *)
Cleared == cache' = [l \in Lines |-> Dirty(0)]

Init ==
  /\ mem = [l \in Lines |-> 0] /\ cache = [l \in Lines |-> Dirty(0)]
  /\ tx = ChanOff /\ rx = ChanOff
  /\ program \in Programs /\ pc = "init" /\ offs = 0
  /\ packets = 0 /\ seen = 0 /\ restarts = 0 /\ mine = FALSE /\ first = TRUE

Goto(from, to) == pc = from /\ pc' = to

CallInit ==
  /\ Goto("init", "rcv")
  /\ offs' = 0
  /\ DmaInit
  /\ UNCHANGED <<runVars, histVars>>

(* dma_rcv(dma_rx_buf + offs, BLOCK_SIZE * DATA_LENGTH).                   *)
CallRcv ==
  \/ /\ Goto("rcv", "addr")
     /\ RcvInvalidate(offs, BLOCK_SIZE)
     /\ UNCHANGED <<runVars, histVars, offs>>
  \/ /\ Goto("addr", "length")
     /\ RcvAddr(offs)
     /\ UNCHANGED <<runVars, histVars, offs>>
  \/ /\ Goto("length", "wait")
     /\ RcvLength(BLOCK_SIZE)
     /\ mine' = (rx.state \in {"ready", "idle"})
     /\ UNCHANGED <<runVars, packets, seen, first, offs>>

(* dma_rcv_wait.                                                           *)
CallWait ==
  /\ Goto("wait", IF program = "final_test" THEN "again" ELSE "process")
  /\ RcvWait
  /\ UNCHANGED <<runVars, histVars, offs>>

InvalidateAgain_Skipped ==  \* mutant: final_test without its second call
  /\ Goto("again", "process")
  /\ UNCHANGED <<dmaVars, runVars, histVars, offs>>

(* final_test invalidates the block once more.                             *)
InvalidateAgain ==
  /\ Goto("again", "process")
  /\ DCacheInvalidateRange(Span(offs, BLOCK_SIZE))
  /\ UNCHANGED <<tx, rx, runVars, histVars, offs>>

NextOffs_WrapLate(o) ==  \* mutant: wraps only when the offset is behind
  IF o + BLOCK_SIZE > DMA_BUFFER_SIZE THEN 0 ELSE o + BLOCK_SIZE

NextOffs(o) ==
  IF o + BLOCK_SIZE + BLOCK_SIZE >= DMA_BUFFER_SIZE THEN 0 ELSE o + BLOCK_SIZE

(* "We can process it": the rest of the loop's body.                       *)
Process ==
  /\ Goto("process", "rcv")
  /\ offs' = NextOffs(offs)
  /\ seen' = packets
  /\ first' = FALSE
  /\ UNCHANGED <<dmaVars, runVars, packets, mine>>

Restart ==
  /\ restarts < MaxRestarts
  /\ restarts' = restarts + 1
  /\ pc' = "init" /\ offs' = 0
  /\ Cleared
  /\ seen' = packets /\ mine' = FALSE /\ first' = TRUE
  /\ UNCHANGED <<mem, tx, rx, program, packets>>

(* The engine, and the cache on its own account.                           *)
Engine ==
  /\ \/ packets < MaxPackets /\ RxMove(packets + 1) /\ UNCHANGED packets
     \/ RxDone /\ packets' = packets + 1
     \/ Faults /\ RxError /\ UNCHANGED packets
  /\ UNCHANGED <<runVars, seen, mine, first, pc, offs>>

Cache ==
  /\ \E l \in Lines : CacheFill(l) \/ CacheEvict(l)
  /\ UNCHANGED <<tx, rx, runVars, histVars, pc, offs>>

Main ==
  CallInit \/ CallRcv \/ CallWait \/ InvalidateAgain \/ Process

Next == Main \/ Restart \/ Engine \/ Cache

Spec == Init /\ [][Next]_vars

(* The program runs, and the core keeps the engine supplied.               *)
FairSpec == Spec /\ WF_vars(Main) /\ WF_vars(Engine)
-----------------------------------------------------------------------------
Block == Span(offs, BLOCK_SIZE)

TypeOK ==
  /\ PolledTypeOK(0 .. MaxPackets)
  /\ program \in Programs
  /\ pc \in {"init", "rcv", "addr", "length", "wait", "again", "process"}
  /\ offs \in Lines /\ restarts \in 0 .. MaxRestarts
  /\ packets \in 0 .. MaxPackets /\ seen \in 0 .. MaxPackets
  /\ mine \in BOOLEAN /\ first \in BOOLEAN

(* The engine never writes outside dma_rx_buf, and a transfer this run     *)
(* asked for stays in its block.                                           *)
WritesInBlock ==
  rx.state = "busy" =>
    /\ 0 <= rx.at /\ rx.at + rx.left <= DMA_BUFFER_SIZE
    /\ mine => offs <= rx.at /\ rx.at + rx.left = offs + BLOCK_SIZE

(* "Data is now in DDR": when dma_rcv_wait has returned, the block holds   *)
(* the packet just received, not what start-up wrote to it, although that  *)
(* may have been in the cache until late.                                  *)
InMemory ==
  pc \in {"again", "process"} /\ mine => \A l \in Block : mem[l] = packets

(* In final_test, whose second invalidation removes what was loaded during *)
(* the transfer, that packet is also what the processor sees.              *)
FreshInFinalTest ==
  program = "final_test" /\ pc = "process" /\ mine =>
    \A l \in Block : Visible(l) = packets

(* Every block the loop processes stands for a packet of its own, and none *)
(* is left out, except before the first one of a run: dma_init does not    *)
(* reset the engine, which may go on for a packet while the program starts *)
(* and give it a block that the run before was waiting for.  That one is   *)
(* the first of the run, and the only one it did not ask for.              *)
EachPacketOnce ==
  pc \in {"again", "process"} =>
    /\ packets > seen /\ (first \/ packets = seen + 1)
    /\ ~mine => first /\ restarts > 0

(* "We can process it" (dma_test_final/src/main.cpp:93).                   *)
FreshAlways ==
  pc = "process" /\ mine => \A l \in Block : Visible(l) = packets

(* A wait ends, unless the channel has met an error; the other bound is    *)
(* that of the model.                                                      *)
WaitEnds ==
  pc = "wait" ~> pc # "wait" \/ rx.state = "error" \/ packets = MaxPackets

(* No one looks at the error bits: after an error nothing is received ever *)
(* again, in this run and in those after it.                               *)
ErrorIsFinal ==
  [][rx.state = "error" =>
       /\ packets' = packets
       /\ pc = "wait" => pc' \in {"wait", "init"}
       /\ rx'.state = "error"]_vars
=============================================================================
