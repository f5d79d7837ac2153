--------------------------- MODULE LoopbackTest ---------------------------
(***************************************************************************)
(* main of dma_test: three transfers from dma_tx_buf to dma_rx_buf through *)
(* a stream that loops MM2S back to S2MM, each compared by mem_cmp.  A     *)
(* block is a cache line here; the pattern is that of every second block   *)
(* (bytes count modulo 256, a block has 128).                              *)
(***************************************************************************)
EXTENDS PolledDma, Sequences

CONSTANTS
  N,           \* 8: blocks of 128 bytes in the 1024 that are compared
  StreamDepth  \* bound: lines the loop holds between the channels

ASSUME LoopbackAssumption ==
  N \in Nat \ {0} /\ StreamDepth \in Nat \ {0}

(* PolledDma's memory is the two buffers.                                  *)
TwoBuffers == MemLines = 2 * N

VARIABLES
  place, test,  \* the place in main, and the test
  turn,         \* its loop counter, i in the source
  stream,       \* lines between the channels
  pending,      \* history: lines a dma_rcv has invalidated for a transfer and
                \* the engine has not written yet
  early         \* history: lines loaded while they were pending

loads == <<pending, early>>
testVars == <<mem, cache, tx, rx, place, test, turn, stream, loads>>

(* dma_rx_buf has the lines from 0 on, dma_tx_buf those from N on.         *)
RxBuf == 0
TxBuf == N
Pattern(k) == 1 + (k % 2)

(* After main's first loop, which filled the buffers through the cache.    *)
TestInit ==
  /\ mem = [l \in Lines |-> 0]
  /\ cache = [l \in Lines |-> Dirty(IF l < N THEN 0 ELSE Pattern(l - N))]
  /\ tx = RunStop(ChanOff) /\ rx = RunStop(ChanOff)
  /\ place = "snd" /\ test = 1 /\ turn = 0 /\ stream = <<>>
  /\ pending = {} /\ early = {}

TestGoto(from, to) == place = from /\ place' = to /\ UNCHANGED <<test, turn>>

(* Where and how long the transfers of a test are.                         *)
At == IF test = 2 THEN turn ELSE 0
Length == IF test = 3 THEN N ELSE 1

CallDmaSnd ==
  /\ \/ TestGoto("snd", "snd_addr") /\ SndFlush(TxBuf + At, Length)
     \/ TestGoto("snd_addr", "snd_length") /\ SndAddr(TxBuf + At)
     \/ TestGoto("snd_length", "rcv") /\ SndLength(Length)
  /\ UNCHANGED <<stream, loads>>

CallDmaRcv_AfterSndWait ==  \* mutant: dma_snd_wait comes before dma_rcv
  /\ TestGoto("rcv", "snd_wait") /\ Idle(tx)
  /\ DCacheInvalidateRange(Span(RxBuf + At, Length))
  /\ rx' = SetLength(SetAddr(rx, RxBuf + At), Length)
  /\ UNCHANGED <<tx, stream, loads>>

CallDmaRcv ==
  \/ /\ TestGoto("rcv", "rcv_addr")
     /\ RcvInvalidate(RxBuf + At, Length)
     /\ pending' = Span(RxBuf + At, Length)
     /\ early' = early \ Span(RxBuf + At, Length)
     /\ UNCHANGED stream
  \/ /\ TestGoto("rcv_addr", "rcv_length") /\ RcvAddr(RxBuf + At)
     /\ UNCHANGED <<stream, loads>>
  \/ /\ TestGoto("rcv_length", "snd_wait") /\ RcvLength(Length)
     /\ UNCHANGED <<stream, loads>>

CallDmaSndWait ==
  /\ TestGoto("snd_wait", "rcv_wait") /\ SndWait
  /\ UNCHANGED <<stream, loads>>

(* dma_rcv_wait, then the next turn of the second test's loop, or mem_cmp. *)
CallDmaRcvWait ==
  /\ place = "rcv_wait" /\ RcvWait
  /\ IF test = 2 /\ turn + 1 < N
     THEN place' = "snd" /\ turn' = turn + 1
     ELSE place' = "cmp" /\ turn' = turn
  /\ UNCHANGED <<test, stream, loads>>

(* mem_cmp, which loads what it compares, and what main does before the    *)
(* next test: before the second it flushes and invalidates both buffers.   *)
Compare ==
  /\ place = "cmp"
  /\ IF test = 3
     THEN place' = "done" /\ test' = 3
     ELSE place' = (IF test = 1 THEN "flush" ELSE "snd") /\ test' = test + 1
  /\ turn' = 0
  /\ UNCHANGED <<mem, cache, tx, rx, stream, loads>>

FlushAll ==
  /\ TestGoto("flush", "invalidate")
  /\ SndFlush(TxBuf, N)
  /\ UNCHANGED <<stream, loads>>

InvalidateAll ==
  /\ TestGoto("invalidate", "snd")
  /\ RcvInvalidate(RxBuf, N)
  /\ early' = early \ Span(RxBuf, N)
  /\ UNCHANGED <<stream, pending>>

(* The loop.                                                               *)
Loopback ==
  \/ /\ Len(stream) < StreamDepth /\ TxMove
     /\ stream' = Append(stream, mem[tx.at])
     /\ UNCHANGED <<place, test, turn, loads>>
  \/ /\ stream # <<>> /\ RxMove(Head(stream))
     /\ stream' = Tail(stream)
     /\ pending' = pending \ {rx.at}
     /\ UNCHANGED <<place, test, turn, early>>
  \/ (TxDone \/ RxDone) /\ UNCHANGED <<place, test, turn, stream, loads>>

TestCache ==
  /\ \E l \in Lines :
       \/ CacheFill(l) /\ early' = early \union ({l} \intersect pending)
       \/ CacheEvict(l) /\ early' = early \ {l}
  /\ UNCHANGED <<tx, rx, place, test, turn, stream, pending>>

TestMain ==
  \/ CallDmaSnd \/ CallDmaRcv \/ CallDmaSndWait \/ CallDmaRcvWait
  \/ Compare \/ FlushAll \/ InvalidateAll

TestNext == TestMain \/ Loopback \/ TestCache

TestSpec == TestInit /\ [][TestNext]_testVars

TestFairSpec == TestSpec /\ WF_testVars(TestMain) /\ WF_testVars(Loopback)
-----------------------------------------------------------------------------
Compared == IF test = 1 THEN {0} ELSE 0 .. N - 1

(* What main wrote to dma_tx_buf through the cache is in dma_rx_buf, in    *)
(* memory, when it is compared: it was written back before it was sent,    *)
(* and the zeros of dma_rx_buf did not come back after it was received.    *)
Delivered ==
  place = "cmp" => \A k \in Compared : mem[RxBuf + k] = Pattern(k)

(* dma_test does not invalidate after a transfer: mem_cmp may report an    *)
(* error although all was received, but only for a line that was loaded    *)
(* between dma_rcv's invalidation and the engine's write, and never in the *)
(* third test, whose data were there before it.                            *)
ErrorOnlyIfEarly ==
  place = "cmp" => \A k \in Compared :
    Visible(RxBuf + k) # Pattern(k) => RxBuf + k \in early /\ test # 3

(* The order of the calls does not lock up: dma_snd may fill the loop long *)
(* before dma_rcv, and waits only after it.                                *)
Ends == <>(place = "done")
=============================================================================
