----------------------------- MODULE PolledDma -----------------------------
(***************************************************************************)
(* The polled DMA helpers (dma_init, dma_snd, dma_rcv and the two waits),  *)
(* which init.cpp, final_test, dma_test_final and dma_test have in common, *)
(* with both channels of the AXI DMA engine in direct register mode, the   *)
(* memory and the data cache in front of it.  The engine's ports do not    *)
(* snoop the cache.                                                        *)
(*                                                                         *)
(* Memory is counted in cache lines.  A helper takes several steps: the    *)
(* cache maintenance, the address registers, the LENGTH register; between  *)
(* them the engine and the cache go on.                                    *)
(***************************************************************************)
EXTENDS Integers

CONSTANT MemLines  \* the cache lines of the buffers

VARIABLES
  mem,    \* the content of each line in DDR
  cache,  \* the line's copy in the data cache
  tx, rx  \* the MM2S and the S2MM channel

Lines == 0 .. MemLines - 1

(* The n lines from a on.                                                  *)
Span(a, n) == {l \in Lines : a <= l /\ l < a + n}

Absent == [state |-> "absent", val |-> 0]
Clean(v) == [state |-> "clean", val |-> v]
Dirty(v) == [state |-> "dirty", val |-> v]

(* What a load of the processor returns.                                   *)
Visible(l) == IF cache[l] = Absent THEN mem[l] ELSE cache[l].val

ChanOff == [state |-> "off", addr |-> 0, at |-> 0, left |-> 0]

(***************************************************************************)
(* The data cache.                                                         *)
(***************************************************************************)
(* A load, which may be speculative, brings a line in; a line may leave at *)
(* any time, and is written back if it is dirty.                           *)
CacheFill(l) ==
  /\ cache[l] = Absent
  /\ cache' = [cache EXCEPT ![l] = Clean(mem[l])]
  /\ UNCHANGED mem

WrittenBack(s) ==
  [l \in Lines |-> IF l \in s /\ cache[l].state = "dirty"
                   THEN cache[l].val ELSE mem[l]]

CacheDrop(s) == cache' = [l \in Lines |-> IF l \in s THEN Absent ELSE cache[l]]

CacheEvict(l) ==
  /\ cache[l] # Absent
  /\ CacheDrop({l})
  /\ mem' = WrittenBack({l})

(* Xil_DCacheFlushRange.                                                   *)
DCacheFlushRange(s) == CacheDrop(s) /\ mem' = WrittenBack(s)

(* Xil_DCacheInvalidateRange.  Whether it writes dirty lines back before   *)
(* it drops them depends on the library's version, so either may happen.   *)
DCacheInvalidateRange(s) ==
  /\ CacheDrop(s)
  /\ mem' = mem \/ mem' = WrittenBack(s)

(***************************************************************************)
(* The registers of a channel c.                                           *)
(***************************************************************************)
(* RUNSTOP.  A channel that met an error needs a reset, which no helper    *)
(* makes.                                                                  *)
RunStop(c) == IF c.state = "off" THEN [c EXCEPT !.state = "ready"] ELSE c

SetAddr(c, a) == [c EXCEPT !.addr = a]

(* LENGTH starts a transfer; a busy or halted channel ignores it.  IDLE is *)
(* 0 before the first transfer, during one, and after an error.            *)
SetLength(c, n) ==
  IF c.state \in {"ready", "idle"}
  THEN [c EXCEPT !.state = "busy", !.at = c.addr, !.left = n]
  ELSE c

Idle(c) == c.state = "idle"

DmaInit_TxOnly ==  \* mutant: RUNSTOP of one channel only
  /\ tx' = RunStop(tx) /\ UNCHANGED rx
  /\ UNCHANGED <<mem, cache>>

(* dma_init.                                                               *)
DmaInit ==
  /\ tx' = RunStop(tx) /\ rx' = RunStop(rx)
  /\ UNCHANGED <<mem, cache>>

(* dma_snd and dma_rcv, in three steps each.                               *)
SndFlush_Skipped(src, n) ==  \* mutant: no flush
  UNCHANGED <<mem, cache, tx, rx>>

SndFlush(src, n) ==
  DCacheFlushRange(Span(src, n)) /\ UNCHANGED <<tx, rx>>

SndAddr(src) == tx' = SetAddr(tx, src) /\ UNCHANGED <<mem, cache, rx>>
SndLength(n) == tx' = SetLength(tx, n) /\ UNCHANGED <<mem, cache, rx>>

RcvInvalidate_Skipped(dst, n) ==  \* mutant: no invalidation
  UNCHANGED <<mem, cache, tx, rx>>

RcvInvalidate(dst, n) ==
  DCacheInvalidateRange(Span(dst, n)) /\ UNCHANGED <<tx, rx>>

RcvAddr(dst) == rx' = SetAddr(rx, dst) /\ UNCHANGED <<mem, cache, tx>>
RcvLength(n) == rx' = SetLength(rx, n) /\ UNCHANGED <<mem, cache, tx>>

(* dma_snd_wait and dma_rcv_wait: the test of IDLE that ends the loop.     *)
SndWait == Idle(tx) /\ UNCHANGED <<mem, cache, tx, rx>>

RcvWait_NotBusy ==  \* mutant: waits for the end of a transfer by another bit
  rx.state # "busy" /\ UNCHANGED <<mem, cache, tx, rx>>

RcvWait == Idle(rx) /\ UNCHANGED <<mem, cache, tx, rx>>

(***************************************************************************)
(* The engine moves a line, and sets IDLE when no more are left.  An error *)
(* (a transfer that is full without TLAST, a refused access) halts the     *)
(* channel.                                                                *)
(***************************************************************************)
Moved(c) == [c EXCEPT !.at = c.at + 1, !.left = c.left - 1]

RxMove(v) ==
  /\ rx.state = "busy" /\ rx.left > 0
  /\ mem' = [mem EXCEPT ![rx.at] = v]
  /\ rx' = Moved(rx)
  /\ UNCHANGED <<cache, tx>>

RxDone ==
  /\ rx.state = "busy" /\ rx.left = 0
  /\ rx' = [rx EXCEPT !.state = "idle"]
  /\ UNCHANGED <<mem, cache, tx>>

RxError ==
  /\ rx.state = "busy"
  /\ rx' = [rx EXCEPT !.state = "error"]
  /\ UNCHANGED <<mem, cache, tx>>

TxMove ==
  /\ tx.state = "busy" /\ tx.left > 0
  /\ tx' = Moved(tx)
  /\ UNCHANGED <<mem, cache, rx>>

TxDone ==
  /\ tx.state = "busy" /\ tx.left = 0
  /\ tx' = [tx EXCEPT !.state = "idle"]
  /\ UNCHANGED <<mem, cache, rx>>

-----------------------------------------------------------------------------
CachedLine(vals) ==
  {Absent} \union [state : {"clean", "dirty"}, val : vals]

Channel ==
  [state : {"off", "ready", "busy", "idle", "error"}, addr : Int, at : Int,
   left : Nat]

PolledTypeOK(vals) ==
  /\ mem \in [Lines -> vals]
  /\ cache \in [Lines -> CachedLine(vals)]
  /\ tx \in Channel /\ rx \in Channel
=============================================================================
