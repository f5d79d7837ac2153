-------------------------- MODULE PolledDmaProofs --------------------------
(***************************************************************************)
(* Proofs about the programs on PolledDma: BlockLoop, for every size of    *)
(* block and of buffer, any number of packets and restarts, and both       *)
(* programs, and after it LoopbackTest.                                    *)
(***************************************************************************)
EXTENDS BlockLoop, LoopbackTest, SequenceTheorems, TLAPS

Waited == {"again", "process"}
Started == {"wait", "again", "process"}
Preparing == {"rcv", "addr", "length"}

(* The offset is that of a whole block, which dma_rcv passes on.           *)
OffsInv ==
  /\ offs + BLOCK_SIZE <= MemLines
  /\ pc = "length" => rx.addr = offs

(* A running transfer stays in the buffer, and a packet is left for it.    *)
BusyInv ==
  rx.state = "busy" =>
    /\ 0 <= rx.at /\ rx.at + rx.left <= MemLines
    /\ rx.left = 0 => packets < MaxPackets

(* Where a transfer of this run is.                                        *)
MineInv ==
  /\ pc \in Waited => rx.state = "idle"
  /\ mine => /\ pc # "init"
             /\ pc \in Preparing => rx.state = "idle"
             /\ pc \in Started =>
                  /\ rx.state \in {"busy", "idle", "error"}
                  /\ offs <= rx.at /\ rx.at + rx.left = offs + BLOCK_SIZE
                  /\ rx.state = "idle" => rx.left = 0

(* The lines it has written so far.                                        *)
Packet == IF rx.state = "idle" THEN packets ELSE packets + 1

MemInv ==
  mine /\ pc \in Started /\ rx.state # "error" =>
    \A l \in Block : l < rx.at => mem[l] = Packet

(* From dma_rcv's invalidation on there is no dirty line in the block.     *)
NotDirty ==
  pc \in {"addr", "length"} \union Started =>
    \A l \in Block : cache[l].state # "dirty"

(* After the second invalidation the cache agrees with memory.             *)
Agrees ==
  program = "final_test" /\ pc = "process" /\ mine =>
    \A l \in Block : cache[l] # Absent => cache[l].val = mem[l]

(* What was received since the last block was processed.                   *)
SeenInv ==
  /\ seen <= packets
  /\ pc = "wait" /\ rx.state = "idle" => packets > seen
  /\ pc \in Waited => packets > seen
  /\ ~first => /\ pc # "init"
               /\ pc \in Preparing => rx.state = "idle" /\ packets = seen
               /\ pc = "wait" =>
                    packets = (IF rx.state = "idle" THEN seen + 1 ELSE seen)
               /\ pc \in Waited => packets = seen + 1

(* Only a restart meets a channel that is not ready.                       *)
StrayInv ==
  /\ restarts = 0 => /\ pc = "init" => rx.state = "off"
                     /\ first /\ pc \in Preparing => rx.state = "ready"
  /\ pc \in Started /\ ~mine => first /\ restarts > 0

IInv ==
  /\ TypeOK /\ OffsInv /\ BusyInv /\ MineInv /\ MemInv
  /\ NotDirty /\ Agrees /\ SeenInv /\ StrayInv

(***************************************************************************)
(* The cache.                                                              *)
(***************************************************************************)
(* Writing lines back leaves the types alone, and lines that are not       *)
(* dirty.                                                                  *)
LEMMA WrittenBackType ==
  ASSUME TypeOK, NEW s
  PROVE  /\ WrittenBack(s) \in [Lines -> 0 .. MaxPackets]
         /\ \A l \in Lines :
              cache[l].state # "dirty" => WrittenBack(s)[l] = mem[l]
<1>1. \A l \in Lines : /\ mem[l] \in 0 .. MaxPackets
                       /\ cache[l].state = "dirty" =>
                            cache[l].val \in 0 .. MaxPackets
  BY DEF TypeOK, PolledTypeOK, CachedLine, Absent
<1> QED BY <1>1 DEF WrittenBack

(* Dropping lines leaves a cache, without them.                            *)
LEMMA CacheDropType ==
  ASSUME TypeOK, NEW s, CacheDrop(s)
  PROVE  /\ cache' \in [Lines -> CachedLine(0 .. MaxPackets)]
         /\ \A l \in Lines : cache'[l] = IF l \in s THEN Absent ELSE cache[l]
BY DEF CacheDrop, TypeOK, PolledTypeOK, CachedLine

LEMMA ChannelType ==
  TypeOK => /\ rx \in Channel /\ tx \in Channel
            /\ rx.at \in Int /\ rx.left \in Nat /\ rx.addr \in Int
BY DEF TypeOK, PolledTypeOK, Channel

LEMMA AbsentNotDirty == Absent.state # "dirty"
BY DEF Absent

LEMMA BlockInLines == Block \subseteq Lines
BY DEF Block, Span

LEMMA InitIInv == Init => IInv
<1> SUFFICES ASSUME Init PROVE IInv
  OBVIOUS
<1> USE LoopAssumption
<1>1. TypeOK
  <2>1. mem \in [Lines -> 0 .. MaxPackets]
    BY DEF Init
  <2>2. cache \in [Lines -> CachedLine(0 .. MaxPackets)]
    BY DEF Init, CachedLine, Dirty
  <2>3. tx \in Channel /\ rx \in Channel
    BY DEF Init, ChanOff, Channel
  <2>4. /\ offs \in Lines /\ packets \in 0 .. MaxPackets
        /\ seen \in 0 .. MaxPackets /\ restarts \in 0 .. MaxRestarts
    BY DEF Init, Lines
  <2> QED BY <2>1, <2>2, <2>3, <2>4 DEF Init, TypeOK, PolledTypeOK
<1>2. OffsInv /\ BusyInv /\ MineInv /\ SeenInv /\ StrayInv
  BY DEF Init, OffsInv, BusyInv, MineInv, SeenInv, StrayInv, ChanOff,
         Waited, Preparing, Started
<1>3. MemInv /\ NotDirty /\ Agrees
  BY DEF Init, MemInv, NotDirty, Agrees, Started
<1> QED BY <1>1, <1>2, <1>3 DEF IInv

(***************************************************************************)
(* The program's steps.                                                    *)
(***************************************************************************)
LEMMA CallInitIInv == IInv /\ CallInit => IInv'
<1> SUFFICES ASSUME IInv, CallInit PROVE IInv'
  OBVIOUS
<1> USE LoopAssumption DEF IInv, CallInit, Goto, DmaInit, runVars, histVars
<1>1. /\ tx' \in Channel /\ rx' \in Channel
      /\ rx' = IF rx.state = "off" THEN [rx EXCEPT !.state = "ready"] ELSE rx
  BY DEF RunStop, TypeOK, PolledTypeOK, Channel
<1>2. TypeOK'
  BY <1>1 DEF TypeOK, PolledTypeOK, Lines
<1>3. ~mine /\ first
  BY DEF MineInv, SeenInv
<1>4. /\ rx'.at = rx.at /\ rx'.left = rx.left
      /\ rx'.state = IF rx.state = "off" THEN "ready" ELSE rx.state
  BY <1>1 DEF TypeOK, PolledTypeOK, Channel
<1>5. OffsInv' /\ BusyInv'
  BY <1>4 DEF OffsInv, BusyInv
<1>6. MineInv' /\ MemInv' /\ NotDirty' /\ Agrees'
  BY <1>3 DEF MineInv, MemInv, NotDirty, Agrees, Started, Waited
<1>7. SeenInv'
  BY <1>3 DEF SeenInv, Waited
<1>8. StrayInv'
  BY <1>3, <1>4 DEF StrayInv, Started, Preparing
<1> QED BY <1>2, <1>5, <1>6, <1>7, <1>8

LEMMA CallRcvIInv == IInv /\ CallRcv => IInv'
<1> SUFFICES ASSUME IInv, CallRcv PROVE IInv'
  OBVIOUS
<1> USE LoopAssumption DEF IInv, Goto, runVars, histVars
<1>1. CASE /\ Goto("rcv", "addr")
           /\ RcvInvalidate(offs, BLOCK_SIZE)
           /\ UNCHANGED <<runVars, histVars, offs>>
  <2> USE <1>1
  <2>1. /\ cache' \in [Lines -> CachedLine(0 .. MaxPackets)]
        /\ \A l \in Block : cache'[l] = Absent
    BY CacheDropType, BlockInLines
       DEF RcvInvalidate, DCacheInvalidateRange, Block
  <2>2. mem' \in [Lines -> 0 .. MaxPackets]
    BY WrittenBackType DEF RcvInvalidate, DCacheInvalidateRange, TypeOK,
                           PolledTypeOK
  <2>3. TypeOK'
    BY <2>1, <2>2 DEF TypeOK, PolledTypeOK, RcvInvalidate
  <2>4. NotDirty'
    BY <2>1, AbsentNotDirty DEF NotDirty, Block, Span, Lines
  <2>5. OffsInv' /\ BusyInv' /\ MineInv' /\ SeenInv' /\ StrayInv'
    BY DEF OffsInv, BusyInv, MineInv, SeenInv, StrayInv, RcvInvalidate,
           Waited, Preparing, Started
  <2>6. MemInv' /\ Agrees'
    BY DEF MemInv, Agrees, Started
  <2> QED BY <2>3, <2>4, <2>5, <2>6
<1>2. CASE /\ Goto("addr", "length")
           /\ RcvAddr(offs)
           /\ UNCHANGED <<runVars, histVars, offs>>
  <2> USE <1>2
  <2>1. /\ rx' \in Channel /\ rx'.addr = offs
        /\ rx'.state = rx.state /\ rx'.at = rx.at /\ rx'.left = rx.left
    <3>1. offs \in Int
      BY DEF TypeOK, Lines
    <3> QED BY <3>1, ChannelType DEF RcvAddr, SetAddr, Channel
  <2>2. TypeOK'
    BY <2>1 DEF TypeOK, PolledTypeOK, RcvAddr
  <2>3. OffsInv' /\ BusyInv' /\ MineInv' /\ SeenInv' /\ StrayInv'
    BY <2>1 DEF OffsInv, BusyInv, MineInv, SeenInv, StrayInv,
                Waited, Preparing, Started
  <2>4. MemInv' /\ Agrees'
    BY DEF MemInv, Agrees, Started
  <2>5. NotDirty'
    BY DEF NotDirty, RcvAddr, Block, Span, Lines
  <2> QED BY <2>2, <2>3, <2>4, <2>5
<1>3. CASE /\ Goto("length", "wait")
           /\ RcvLength(BLOCK_SIZE)
           /\ mine' = (rx.state \in {"ready", "idle"})
           /\ UNCHANGED <<runVars, packets, seen, first, offs>>
  <2> USE <1>3
  <2>1. CASE rx.state \in {"ready", "idle"}
    <3>1. /\ rx' \in Channel /\ rx'.state = "busy"
          /\ rx'.at = offs /\ rx'.left = BLOCK_SIZE
      BY <2>1 DEF RcvLength, SetLength, OffsInv, TypeOK, PolledTypeOK,
                  Channel
    <3>2. TypeOK'
      BY <3>1, <2>1 DEF TypeOK, PolledTypeOK, RcvLength
    <3>3. OffsInv' /\ BusyInv' /\ MineInv'
      BY <3>1, <2>1 DEF OffsInv, BusyInv, MineInv, TypeOK, Lines, Waited,
                        Preparing, Started
    <3>4. SeenInv' /\ StrayInv'
      BY <3>1, <2>1 DEF SeenInv, StrayInv, Waited, Preparing, Started
    <3>5. MemInv'
      BY <3>1 DEF MemInv, Block, Span, Lines, TypeOK
    <3>6. NotDirty' /\ Agrees'
      BY DEF NotDirty, Agrees, RcvLength, Block, Span, Lines, Started
    <3> QED BY <3>2, <3>3, <3>4, <3>5, <3>6
  <2>2. CASE rx.state \notin {"ready", "idle"}
    <3>1. rx' = rx /\ ~mine'
      BY <2>2 DEF RcvLength, SetLength
    <3>2. TypeOK'
      BY <3>1 DEF TypeOK, PolledTypeOK, RcvLength
    <3>3. OffsInv' /\ BusyInv' /\ MineInv'
      BY <3>1 DEF OffsInv, BusyInv, MineInv, Waited
    <3>4. SeenInv' /\ StrayInv'
      BY <3>1, <2>2 DEF SeenInv, StrayInv, TypeOK, Waited, Preparing, Started
    <3>5. MemInv' /\ Agrees'
      BY <3>1 DEF MemInv, Agrees
    <3>6. NotDirty'
      BY DEF NotDirty, RcvLength, Block, Span, Lines, Started
    <3> QED BY <3>2, <3>3, <3>4, <3>5, <3>6
  <2> QED BY <2>1, <2>2
<1> QED BY <1>1, <1>2, <1>3 DEF CallRcv

LEMMA CallWaitIInv == IInv /\ CallWait => IInv'
<1> SUFFICES ASSUME IInv, CallWait PROVE IInv'
  OBVIOUS
<1> USE DEF IInv, CallWait, Goto, RcvWait, Idle, runVars, histVars
<1>1. TypeOK'
  BY DEF TypeOK, PolledTypeOK
<1>2. OffsInv' /\ BusyInv' /\ MineInv' /\ SeenInv' /\ StrayInv'
  BY DEF OffsInv, BusyInv, MineInv, SeenInv, StrayInv, Waited, Preparing,
         Started
<1>3. NotDirty' /\ MemInv'
  BY DEF NotDirty, MemInv, Packet, Block, Span, Lines, Started
<1>4. Agrees'
  BY DEF Agrees
<1> QED BY <1>1, <1>2, <1>3, <1>4

LEMMA InvalidateAgainIInv == IInv /\ InvalidateAgain => IInv'
<1> SUFFICES ASSUME IInv, InvalidateAgain PROVE IInv'
  OBVIOUS
<1> USE DEF IInv, InvalidateAgain, Goto, runVars, histVars
<1>1. /\ cache' \in [Lines -> CachedLine(0 .. MaxPackets)]
      /\ \A l \in Block : cache'[l] = Absent
  BY CacheDropType, BlockInLines DEF DCacheInvalidateRange, Block
<1>2. /\ mem' \in [Lines -> 0 .. MaxPackets]
      /\ \A l \in Block : mem'[l] = mem[l]
  BY WrittenBackType, BlockInLines
     DEF DCacheInvalidateRange, NotDirty, Started, TypeOK, PolledTypeOK
<1>3. TypeOK'
  BY <1>1, <1>2 DEF TypeOK, PolledTypeOK
<1>4. OffsInv' /\ BusyInv' /\ MineInv' /\ SeenInv' /\ StrayInv'
  BY DEF OffsInv, BusyInv, MineInv, SeenInv, StrayInv, Waited, Preparing,
         Started
<1>5. Block' = Block
  BY DEF Block, Span, Lines
<1>6. MemInv'
  BY <1>2, <1>5 DEF MemInv, Packet, Started
<1>7. NotDirty' /\ Agrees'
  BY <1>1, <1>5, AbsentNotDirty DEF NotDirty, Agrees
<1> QED BY <1>3, <1>4, <1>6, <1>7

LEMMA ProcessIInv == IInv /\ Process => IInv'
<1> SUFFICES ASSUME IInv, Process PROVE IInv'
  OBVIOUS
<1> USE LoopAssumption DEF IInv, Process, Goto, dmaVars, runVars
<1>1. offs' \in Lines /\ offs' + BLOCK_SIZE <= MemLines
  BY DEF NextOffs, DMA_BUFFER_SIZE, TypeOK, OffsInv, Lines
<1>2. TypeOK'
  BY <1>1 DEF TypeOK, PolledTypeOK
<1>3. OffsInv' /\ BusyInv' /\ MineInv'
  BY <1>1 DEF OffsInv, BusyInv, MineInv, Waited, Started
<1>4. SeenInv' /\ StrayInv'
  BY DEF SeenInv, StrayInv, MineInv, TypeOK, Waited, Preparing, Started
<1>5. MemInv' /\ NotDirty' /\ Agrees'
  BY DEF MemInv, NotDirty, Agrees, Started
<1> QED BY <1>2, <1>3, <1>4, <1>5

LEMMA RestartIInv == IInv /\ Restart => IInv'
<1> SUFFICES ASSUME IInv, Restart PROVE IInv'
  OBVIOUS
<1> USE LoopAssumption DEF IInv, Restart
<1>1. cache' \in [Lines -> CachedLine(0 .. MaxPackets)]
  BY DEF Cleared, CachedLine, Dirty
<1>2. TypeOK'
  <2>1. offs' \in Lines /\ seen' \in 0 .. MaxPackets
        /\ restarts' \in 0 .. MaxRestarts
    BY DEF TypeOK, Lines
  <2> QED BY <1>1, <2>1 DEF TypeOK, PolledTypeOK
<1>3. OffsInv' /\ BusyInv' /\ MineInv' /\ SeenInv' /\ StrayInv'
  BY DEF OffsInv, BusyInv, MineInv, SeenInv, StrayInv, TypeOK, Waited,
         Preparing, Started
<1>4. MemInv' /\ NotDirty' /\ Agrees'
  BY DEF MemInv, NotDirty, Agrees, Started
<1> QED BY <1>2, <1>3, <1>4

(***************************************************************************)
(* The engine and the cache.                                               *)
(***************************************************************************)
LEMMA RxMoveIInv ==
  ASSUME IInv, packets < MaxPackets, RxMove(packets + 1),
         UNCHANGED <<packets, runVars, seen, mine, first, pc, offs>>
  PROVE  IInv'
<1> USE LoopAssumption DEF IInv, RxMove, Moved, runVars
<1>1. /\ rx.at \in Lines /\ rx.left \in Nat /\ rx.at \in Int
      /\ rx' \in Channel /\ rx'.state = "busy" /\ rx'.addr = rx.addr
      /\ rx'.at = rx.at + 1 /\ rx'.left = rx.left - 1
  <2>1. rx.at \in Lines
    BY ChannelType DEF BusyInv, Lines
  <2>2. /\ rx' \in Channel /\ rx'.state = "busy" /\ rx'.addr = rx.addr
        /\ rx'.at = rx.at + 1 /\ rx'.left = rx.left - 1
    <3>1. rx.at + 1 \in Int /\ rx.left - 1 \in Nat /\ rx.state = "busy"
      BY ChannelType
    <3>2. rx' = [rx EXCEPT !.at = rx.at + 1, !.left = rx.left - 1]
      OBVIOUS
    <3>3. rx \in Channel
      BY ChannelType
    <3> HIDE DEF RxMove, Moved, IInv
    <3> QED BY <3>1, <3>2, <3>3 DEF Channel
  <2> QED BY <2>1, <2>2, ChannelType
<1>2. /\ mem' \in [Lines -> 0 .. MaxPackets]
      /\ mem'[rx.at] = packets + 1
      /\ \A l \in Lines : l # rx.at => mem'[l] = mem[l]
  BY <1>1 DEF TypeOK, PolledTypeOK
<1>3. TypeOK'
  BY <1>1, <1>2 DEF TypeOK, PolledTypeOK
<1>4. OffsInv' /\ BusyInv'
  BY <1>1 DEF OffsInv, BusyInv, TypeOK, Lines
<1>10. MineInv'
  <2>1. offs \in Int
    BY DEF TypeOK, Lines
  <2> QED BY <1>1, <2>1 DEF MineInv, Waited, Preparing, Started
<1>5. SeenInv' /\ StrayInv'
  BY <1>1 DEF SeenInv, StrayInv, Waited, Preparing, Started
<1>6. Block' = Block /\ Block \subseteq Lines
  BY BlockInLines DEF Block, Span, Lines
<1>7. MemInv'
  <2> SUFFICES ASSUME mine', pc' \in Started, NEW l \in Block, l < rx'.at
               PROVE  mem'[l] = packets + 1
    BY <1>1, <1>6 DEF MemInv, Packet
  <2>1. l \in Lines /\ l \in Int
    BY <1>6 DEF Lines
  <2>2. CASE l = rx.at
    BY <2>2, <1>2
  <2>3. CASE l # rx.at
    <3>1. l < rx.at
      BY <1>1, <2>1, <2>3
    <3> QED BY <3>1, <1>2, <2>1, <2>3 DEF MemInv, Packet
  <2> QED BY <2>2, <2>3
<1>8. NotDirty'
  BY <1>6 DEF NotDirty
<1>9. Agrees'
  BY DEF Agrees, MineInv, Waited
<1> QED BY <1>3, <1>4, <1>10, <1>5, <1>7, <1>8, <1>9

LEMMA RxStopIInv ==
  ASSUME IInv, UNCHANGED <<runVars, seen, mine, first, pc, offs>>,
         \/ RxDone /\ packets' = packets + 1
         \/ RxError /\ UNCHANGED packets
  PROVE  IInv'
<1> USE LoopAssumption DEF IInv, runVars
<1>1. /\ rx.state = "busy" /\ UNCHANGED <<mem, cache, tx>>
      /\ rx' \in Channel /\ rx'.addr = rx.addr
      /\ rx'.at = rx.at /\ rx'.left = rx.left
      /\ \/ rx'.state = "idle" /\ packets' = packets + 1 /\ rx.left = 0
         \/ rx'.state = "error" /\ packets' = packets
  BY DEF RxDone, RxError, TypeOK, PolledTypeOK, Channel
<1>2. TypeOK'
  BY <1>1 DEF TypeOK, PolledTypeOK, BusyInv
<1>3. OffsInv' /\ BusyInv' /\ MineInv'
  BY <1>1 DEF OffsInv, BusyInv, MineInv, Waited, Preparing, Started
<1>4. SeenInv' /\ StrayInv'
  BY <1>1 DEF SeenInv, StrayInv, MineInv, TypeOK, Waited, Preparing, Started
<1>5. Block' = Block
  BY DEF Block, Span, Lines
<1>6. MemInv'
  BY <1>1, <1>5 DEF MemInv, Packet
<1>7. NotDirty'
  BY <1>1, <1>5 DEF NotDirty
<1>8. Agrees'
  BY <1>1 DEF Agrees, MineInv, Waited
<1> QED BY <1>2, <1>3, <1>4, <1>6, <1>7, <1>8

LEMMA CacheIInv == IInv /\ Cache => IInv'
<1> SUFFICES ASSUME IInv, Cache PROVE IInv'
  OBVIOUS
<1> USE DEF IInv, Cache, runVars, histVars
<1>1. PICK k \in Lines : CacheFill(k) \/ CacheEvict(k)
  OBVIOUS
<1>2. /\ mem' \in [Lines -> 0 .. MaxPackets]
      /\ cache' \in [Lines -> CachedLine(0 .. MaxPackets)]
      /\ \A l \in Lines :
           /\ cache[l].state # "dirty" => /\ mem'[l] = mem[l]
                                          /\ cache'[l].state # "dirty"
           /\ cache'[l] \in {cache[l], Absent, Clean(mem[l])}
  <2>1. CASE CacheFill(k)
    <3>1. /\ mem[k] \in 0 .. MaxPackets
          /\ Clean(mem[k]) \in CachedLine(0 .. MaxPackets)
          /\ Clean(mem[k]).state # "dirty"
      BY DEF TypeOK, PolledTypeOK, CachedLine, Clean
    <3> QED BY <2>1, <3>1 DEF CacheFill, TypeOK, PolledTypeOK
  <2>2. CASE CacheEvict(k)
    <3>1. CacheDrop({k}) /\ mem' = WrittenBack({k})
      BY <2>2 DEF CacheEvict
    <3> QED BY <3>1, WrittenBackType, CacheDropType, AbsentNotDirty
  <2> QED BY <1>1, <2>1, <2>2
<1>3. TypeOK'
  BY <1>2 DEF TypeOK, PolledTypeOK
<1>4. OffsInv' /\ BusyInv' /\ MineInv' /\ SeenInv' /\ StrayInv'
  BY DEF OffsInv, BusyInv, MineInv, SeenInv, StrayInv
<1>5. Block' = Block /\ Block \subseteq Lines
  BY BlockInLines DEF Block, Span, Lines
<1>6. NotDirty'
  BY <1>2, <1>5 DEF NotDirty
<1>7. MemInv'
  BY <1>2, <1>5 DEF MemInv, NotDirty, Packet
<1>8. Agrees'
  BY <1>2, <1>5 DEF Agrees, NotDirty, Started, Clean
<1> QED BY <1>3, <1>4, <1>6, <1>7, <1>8

LEMMA NextIInv == IInv /\ [Next]_vars => IInv'
<1> SUFFICES ASSUME IInv, [Next]_vars PROVE IInv'
  OBVIOUS
<1>1. CASE Main
  BY <1>1, CallInitIInv, CallRcvIInv, CallWaitIInv, InvalidateAgainIInv,
     ProcessIInv DEF Main
<1>2. CASE Restart \/ Cache
  BY <1>2, RestartIInv, CacheIInv
<1>3. CASE Engine
  BY <1>3, RxMoveIInv, RxStopIInv DEF Engine
<1>4. CASE UNCHANGED vars
  <2>1. Block' = Block
    BY <1>4 DEF Block, Span, Lines, vars
  <2> QED
    BY <1>4, <2>1 DEF IInv, vars, dmaVars, runVars, histVars, TypeOK,
       PolledTypeOK, OffsInv, BusyInv, MineInv, MemInv, NotDirty, Agrees,
       SeenInv, StrayInv, Packet
<1> QED BY <1>1, <1>2, <1>3, <1>4 DEF Next

THEOREM Invariance == Spec => []IInv
<1> QED BY InitIInv, NextIInv, PTL DEF Spec

(***************************************************************************)
(* The properties.                                                         *)
(***************************************************************************)
(* The variables have their types.                                         *)
THEOREM TypeCorrect == Spec => []TypeOK
<1>1. IInv => TypeOK
  BY DEF IInv
<1> QED BY <1>1, Invariance, PTL

(* The engine writes inside dma_rx_buf, for every size of buffer and block *)
(* that fit (main's wrap test).                                            *)
THEOREM InBuffer == Spec => []WritesInBlock
<1>1. IInv => WritesInBlock
  BY LoopAssumption DEF IInv, BusyInv, MineInv, WritesInBlock, TypeOK,
     DMA_BUFFER_SIZE, Started, Preparing, Waited
<1> QED BY <1>1, Invariance, PTL

(* When dma_rcv_wait has returned, the packet is in memory.                *)
THEOREM PacketInMemory == Spec => []InMemory
<1>1. IInv => InMemory
  BY DEF IInv, InMemory, MemInv, MineInv, Packet, Started, Waited, Block,
     Span, Lines, TypeOK, PolledTypeOK, Channel
<1> QED BY <1>1, Invariance, PTL

(* final_test's processor sees it.                                         *)
THEOREM ReadFresh == Spec => []FreshInFinalTest
<1>1. IInv => InMemory
  BY DEF IInv, InMemory, MemInv, MineInv, Packet, Started, Waited, Block,
     Span, Lines, TypeOK, PolledTypeOK, Channel
<1>2. IInv => FreshInFinalTest
  BY <1>1 DEF IInv, InMemory, Agrees, FreshInFinalTest, Visible
<1> QED BY <1>2, Invariance, PTL

(* Every block processed is a new packet, and one that was not asked for   *)
(* comes only first, after a restart.                                      *)
THEOREM OncePerPacket == Spec => []EachPacketOnce
<1>1. IInv => EachPacketOnce
  BY DEF IInv, SeenInv, StrayInv, EachPacketOnce, Waited, Started
<1> QED BY <1>1, Invariance, PTL

(* No step leads out of an error: not of the program, nor a restart.       *)
THEOREM ErrorStays == Spec => ErrorIsFinal
<1>1. IInv /\ [Next]_vars =>
        [rx.state = "error" =>
           /\ packets' = packets
           /\ pc = "wait" => pc' \in {"wait", "init"}
           /\ rx'.state = "error"]_vars
  <2> SUFFICES ASSUME IInv, Next, rx.state = "error"
      PROVE  /\ packets' = packets
             /\ pc = "wait" => pc' \in {"wait", "init"}
             /\ rx'.state = "error"
    OBVIOUS
  <2>1. CASE Main
    BY <2>1 DEF Main, CallInit, CallRcv, CallWait, InvalidateAgain, Process,
       Goto, DmaInit, RunStop, RcvInvalidate, RcvAddr, RcvLength, SetAddr,
       SetLength, RcvWait, Idle, dmaVars, histVars, IInv, TypeOK,
       PolledTypeOK, Channel
  <2>2. CASE Restart \/ Engine \/ Cache
    BY <2>2 DEF Restart, Engine, Cache, RxMove, RxDone, RxError, histVars
  <2> QED BY <2>1, <2>2 DEF Next
<1> QED BY <1>1, Invariance, PTL DEF Spec, ErrorIsFinal

-----------------------------------------------------------------------------
(***************************************************************************)
(* dma_test, for every number of blocks and every depth of the loop that   *)
(* joins the channels.                                                     *)
(***************************************************************************)
Sizes ==
  N \in Nat \ {0} /\ StreamDepth \in Nat \ {0} /\ TwoBuffers

(* The lines of the two buffers.                                           *)
Rx == 0 .. N - 1

Sending == {"rcv", "rcv_addr", "rcv_length", "snd_wait", "rcv_wait"}
Receiving == {"snd_wait", "rcv_wait"}
Flushed == {"snd_addr", "snd_length"} \union Sending
Invalidated == {"rcv_addr", "rcv_length"} \union Receiving

(* Lines of the transfer that were sent, and received.                     *)
SentLines ==
  IF place \notin Sending THEN 0
  ELSE IF tx.state = "busy" THEN Length - tx.left ELSE Length
ReceivedLines ==
  IF place \notin Receiving THEN 0
  ELSE IF rx.state = "busy" THEN Length - rx.left ELSE Length

TestTypes ==
  /\ Sizes
  /\ mem \in [Lines -> 0 .. 2]
  /\ cache \in [Lines -> CachedLine(0 .. 2)]
  /\ tx \in Channel /\ rx \in Channel
  /\ place \in {"snd", "snd_addr", "snd_length", "cmp", "flush", "invalidate",
             "done"} \union Sending
  /\ test \in 1 .. 3 /\ turn \in Rx
  /\ stream \in Seq(0 .. 2)
  /\ pending \in SUBSET Rx /\ early \in SUBSET Rx
  /\ place \in {"flush", "invalidate"} => test = 2 /\ turn = 0

(* Where the channels are in a transfer.                                   *)
TestChannels ==
  /\ tx.state \in {"ready", "idle", "busy"}
  /\ rx.state \in {"ready", "idle", "busy"}
  /\ place \notin Sending => tx.state # "busy"
  /\ place \in Sending => tx.state # "ready"
  /\ place = "rcv_wait" => tx.state = "idle"
  /\ place \notin Receiving => rx.state # "busy"
  /\ place \in Receiving => rx.state # "ready"
  /\ place = "snd_length" => tx.addr = TxBuf + At
  /\ place = "rcv_length" => rx.addr = RxBuf + At
  /\ tx.state = "busy" =>
       tx.left <= Length /\ tx.at = TxBuf + At + SentLines
  /\ rx.state = "busy" =>
       rx.left <= Length /\ rx.at = RxBuf + At + ReceivedLines

(* The stream has what was sent and not received yet, in order.            *)
TestStream ==
  /\ Len(stream) = SentLines - ReceivedLines
  /\ \A k \in 1 .. Len(stream) :
       stream[k] = Pattern(At + ReceivedLines + k - 1)

(* What main wrote to dma_tx_buf is in the cache or was written back; what *)
(* dma_snd flushed is in memory.                                           *)
TestSource ==
  /\ \A k \in Rx : Visible(TxBuf + k) = Pattern(k)
  /\ place \in Flushed =>
       \A k \in Rx : At <= k /\ k < At + Length =>
         cache[TxBuf + k].state # "dirty"

(* The lines of dma_rx_buf that no line of the cache can overwrite.        *)
Target ==
  IF test = 1 THEN (IF place \in Invalidated \union {"cmp"} THEN {0} ELSE {})
  ELSE IF place \in {"flush", "invalidate"} THEN {} ELSE Rx
TestTarget == \A k \in Target : cache[k].state # "dirty"

(* The lines of dma_rx_buf that this test, or the one before, has filled.  *)
Filled ==
  IF test = 1 THEN (IF place = "cmp" THEN {0} ELSE 0 .. ReceivedLines - 1)
  ELSE IF test = 2
       THEN (IF place = "cmp" THEN Rx ELSE 0 .. turn + ReceivedLines - 1)
       ELSE Rx
TestFilled == \A k \in Filled : mem[k] = Pattern(k)

(* A copy that differs from memory was loaded too early.                   *)
TestStale ==
  /\ \A l \in Lines :
       cache[l].state = "clean" /\ cache[l].val # mem[l] => l \in early
  /\ \A l \in pending : cache[l] # Absent => l \in early
  /\ place \in Invalidated =>
       \A k \in Rx :
         At + ReceivedLines <= k /\ k < At + Length => k \in pending
  /\ test = 3 /\ place \in Invalidated \union {"cmp"} =>
       \A k \in Rx : cache[k] # Absent => cache[k].val = Pattern(k)

TestInv ==
  /\ TestTypes /\ TestChannels /\ TestStream /\ TestSource
  /\ TestTarget /\ TestFilled /\ TestStale

-----------------------------------------------------------------------------
(* The lines of a transfer are lines of the buffers.                       *)
LEMMA TransferInBuffers ==
  ASSUME TestTypes
  PROVE  /\ N \in Nat /\ 0 < N /\ Lines = 0 .. 2 * N - 1
         /\ RxBuf = 0 /\ TxBuf = N
         /\ At \in Rx /\ Length \in 1 .. N /\ At + Length <= N
         /\ \A k \in Int : Pattern(k) \in 0 .. 2
BY DEF TestTypes, Sizes, TwoBuffers, Lines, RxBuf, TxBuf, At, Length, Rx,
       Pattern

(* What is received was sent, and is not below a dirty line.               *)
LEMMA LinesCounted ==
  ASSUME TestInv
  PROVE  /\ SentLines \in 0 .. Length /\ ReceivedLines \in 0 .. SentLines
         /\ Target \subseteq Rx /\ Filled \subseteq Target
<1>1. TestTypes
  BY DEF TestInv
<1>2. Length \in 1 .. N /\ tx.left \in Nat /\ rx.left \in Nat
  BY <1>1, TransferInBuffers DEF TestTypes, Channel
<1>3. SentLines \in 0 .. Length /\ ReceivedLines \in Int
  BY <1>2 DEF TestInv, TestChannels, SentLines, ReceivedLines
<1>4. ReceivedLines \in 0 .. SentLines
  <2>1. Len(stream) \in Nat /\ Len(stream) = SentLines - ReceivedLines
    BY <1>1 DEF TestInv, TestTypes, TestStream
  <2>2. 0 <= ReceivedLines
    BY <1>2 DEF TestInv, TestChannels, ReceivedLines
  <2> QED BY <1>3, <2>1, <2>2
<1>5. Target \subseteq Rx
  BY <1>1 DEF TestTypes, Sizes, Target, Rx
<1>6. Filled \subseteq Target
  <2>1. CASE test = 1
    <3>1. Length = 1 /\ (ReceivedLines # 0 => place \in Receiving)
      BY <2>1 DEF Length, ReceivedLines
    <3> QED BY <1>3, <1>4, <2>1, <3>1 DEF Filled, Target, Invalidated
  <2>2. CASE test = 2
    <3>1. Length = 1 /\ (ReceivedLines # 0 => place \in Receiving)
      BY <2>2 DEF Length, ReceivedLines
    <3>2. CASE place \in {"flush", "invalidate"}
      BY <1>1, <2>2, <3>1, <3>2 DEF TestTypes, Filled, Receiving
    <3>3. CASE place \notin {"flush", "invalidate"}
      BY <1>1, <1>3, <1>4, <2>2, <3>1, <3>3
         DEF TestTypes, Sizes, Filled, Target, Rx
    <3> QED BY <3>2, <3>3
  <2>3. CASE test = 3
    BY <1>1, <2>3 DEF TestTypes, Filled, Target
  <2> QED BY <1>1, <2>1, <2>2, <2>3 DEF TestTypes
<1> QED BY <1>3, <1>4, <1>5, <1>6

(* Fields of a channel that is set, started, moved on or done.             *)
LEMMA ChannelFields ==
  ASSUME NEW c \in Channel
  PROVE  /\ c.at \in Int /\ c.left \in Nat /\ c.addr \in Int
         /\ \A a \in Int : /\ SetAddr(c, a) \in Channel
                           /\ SetAddr(c, a).addr = a
                           /\ SetAddr(c, a).state = c.state
                           /\ SetAddr(c, a).left = c.left
                           /\ SetAddr(c, a).at = c.at
         /\ c.state \in {"ready", "idle"} => \A n \in Nat :
              /\ SetLength(c, n) \in Channel
              /\ SetLength(c, n).state = "busy"
              /\ SetLength(c, n).at = c.addr /\ SetLength(c, n).left = n
         /\ c.left > 0 => Moved(c) \in Channel
         /\ Moved(c).state = c.state /\ Moved(c).at = c.at + 1
         /\ Moved(c).left = c.left - 1 /\ Moved(c).addr = c.addr
         /\ [c EXCEPT !.state = "idle"] \in Channel
<1>1. /\ c.at \in Int /\ c.left \in Nat /\ c.addr \in Int
      /\ [c EXCEPT !.state = "idle"] \in Channel
  BY DEF Channel
<1>2. ASSUME NEW a \in Int
      PROVE  /\ SetAddr(c, a) \in Channel /\ SetAddr(c, a).addr = a
             /\ SetAddr(c, a).state = c.state
             /\ SetAddr(c, a).left = c.left /\ SetAddr(c, a).at = c.at
  BY DEF Channel, SetAddr
<1>3. ASSUME NEW n \in Nat, c.state \in {"ready", "idle"}
      PROVE  /\ SetLength(c, n) \in Channel
             /\ SetLength(c, n).state = "busy"
             /\ SetLength(c, n).at = c.addr /\ SetLength(c, n).left = n
  BY <1>3 DEF Channel, SetLength
<1>4. /\ Moved(c).state = c.state /\ Moved(c).at = c.at + 1
      /\ Moved(c).left = c.left - 1 /\ Moved(c).addr = c.addr
  BY DEF Channel, Moved
<1>5. ASSUME c.left > 0 PROVE Moved(c) \in Channel
  <2>1. c.at + 1 \in Int /\ c.left - 1 \in Nat
    BY <1>1, <1>5
  <2> QED BY <2>1 DEF Channel, Moved
<1> QED BY <1>1, <1>2, <1>3, <1>4, <1>5

(* Lines that are dropped, and may be written back: no copy is left, and   *)
(* memory changes only where it was dirty.                                 *)
LEMMA Maintained ==
  ASSUME TestTypes, NEW s, CacheDrop(s),
         mem' = mem \/ mem' = WrittenBack(s)
  PROVE  /\ mem' \in [Lines -> 0 .. 2]
         /\ cache' \in [Lines -> CachedLine(0 .. 2)]
         /\ \A l \in Lines :
              /\ l \in s => cache'[l] = Absent
              /\ l \notin s => cache'[l] = cache[l] /\ mem'[l] = mem[l]
              /\ cache[l].state # "dirty" => mem'[l] = mem[l]
              /\ mem' = WrittenBack(s) =>
                   mem'[l] = (IF l \in s /\ cache[l].state = "dirty"
                              THEN cache[l].val ELSE mem[l])
BY DEF TestTypes, CacheDrop, WrittenBack, CachedLine, Absent

(* So the invariants of the data hold on, if only dma_rx_buf loses what    *)
(* was written to it.                                                      *)
LEMMA MaintainedInv ==
  ASSUME TestInv, NEW s, CacheDrop(s),
         mem' = WrittenBack(s) \/ (mem' = mem /\ s \subseteq Rx)
  PROVE  /\ \A k \in Rx :
              IF cache'[TxBuf + k] = Absent
              THEN mem'[TxBuf + k] = Pattern(k)
              ELSE cache'[TxBuf + k].val = Pattern(k)
         /\ \A l \in Lines : cache'[l] # Absent => cache'[l] = cache[l]
         /\ \A l \in Lines : cache[l].state # "dirty" =>
              mem'[l] = mem[l] /\ cache'[l].state # "dirty"
         /\ \A l \in Lines : cache'[l].state = "clean" =>
              l \notin s /\ cache[l].state = "clean" /\ mem'[l] = mem[l]
         /\ \A k \in Target : cache'[k].state # "dirty"
         /\ \A k \in Filled : mem'[k] = Pattern(k)
<1>1. TestTypes
  BY DEF TestInv
<1>2. /\ N \in Nat /\ 0 < N /\ Lines = 0 .. 2 * N - 1
      /\ TxBuf = N
  BY <1>1, TransferInBuffers
<1>3. \A l \in Lines :
        /\ l \in s => cache'[l] = Absent
        /\ l \notin s => cache'[l] = cache[l] /\ mem'[l] = mem[l]
        /\ cache[l].state # "dirty" => mem'[l] = mem[l]
        /\ mem' = WrittenBack(s) =>
             mem'[l] = (IF l \in s /\ cache[l].state = "dirty"
                        THEN cache[l].val ELSE mem[l])
  BY <1>1, Maintained
<1>4. ASSUME NEW k \in Rx
      PROVE  IF cache'[TxBuf + k] = Absent
             THEN mem'[TxBuf + k] = Pattern(k)
             ELSE cache'[TxBuf + k].val = Pattern(k)
  <2>1. TxBuf + k \in Lines /\ TxBuf + k \notin Rx
    BY <1>2 DEF Rx
  <2>2. IF cache[TxBuf + k] = Absent THEN mem[TxBuf + k] = Pattern(k)
        ELSE cache[TxBuf + k].val = Pattern(k)
    BY DEF TestInv, TestSource, Visible
  <2>3. cache[TxBuf + k] # Absent /\ cache[TxBuf + k].state # "dirty" =>
          cache[TxBuf + k].val = mem[TxBuf + k]
    BY <1>1, <2>1 DEF TestInv, TestStale, TestTypes, CachedLine
  <2>4. CASE TxBuf + k \notin s
    BY <1>3, <2>1, <2>2, <2>4
  <2>5. CASE TxBuf + k \in s
    <3>1. mem' = WrittenBack(s)
      BY <2>1, <2>5
    <3>2. CASE cache[TxBuf + k].state = "dirty"
      BY <1>3, <2>1, <2>2, <2>5, <3>1, <3>2 DEF Absent
    <3>3. CASE cache[TxBuf + k].state # "dirty"
      BY <1>3, <2>1, <2>2, <2>3, <2>5, <3>3
    <3> QED BY <3>2, <3>3
  <2> QED BY <2>4, <2>5
<1>5. /\ \A k \in Target : k \in Lines /\ cache[k].state # "dirty"
      /\ \A k \in Filled : k \in Target /\ mem[k] = Pattern(k)
  BY <1>2, LinesCounted DEF TestInv, TestTarget, TestFilled, Rx
<1>6. \A l \in Lines : cache[l].state # "dirty" =>
        mem'[l] = mem[l] /\ cache'[l].state # "dirty"
  BY <1>3 DEF Absent
<1> QED BY <1>3, <1>4, <1>5, <1>6 DEF Absent

-----------------------------------------------------------------------------
LEMMA TestInitInv == Sizes /\ TestInit => TestInv
<1> SUFFICES ASSUME Sizes, TestInit PROVE TestInv
  OBVIOUS
<1>1. TestTypes
  BY DEF Sizes, TestInit, TestTypes, Lines, CachedLine, Dirty, Absent,
         Pattern, Channel, ChanOff, RunStop, Rx
<1>2. TestChannels /\ SentLines = 0 /\ ReceivedLines = 0
  BY DEF TestInit, TestChannels, RunStop, ChanOff, Sending, Receiving,
         SentLines, ReceivedLines
<1>3. TestStream
  BY <1>2 DEF TestInit, TestStream
<1>4. TestSource
  BY DEF Sizes, TwoBuffers, TestInit, TestSource, Flushed, Sending,
         Visible, Dirty, Absent, TxBuf, Rx, Lines
<1>5. TestTarget /\ TestFilled
  BY <1>2
     DEF TestInit, TestTarget, TestFilled, Target, Filled, Invalidated,
         Receiving
<1>6. TestStale
  BY DEF TestInit, TestStale, Dirty, Invalidated, Receiving
<1> QED BY <1>1, <1>2, <1>3, <1>4, <1>5, <1>6 DEF TestInv

(* dma_snd: the flush, and the two registers.                              *)
LEMMA SndFlushInv ==
  TestInv /\ TestGoto("snd", "snd_addr") /\ SndFlush(TxBuf + At, Length)
    /\ UNCHANGED <<stream, loads>>
  => TestInv'
<1> SUFFICES ASSUME TestInv, TestGoto("snd", "snd_addr"),
                    SndFlush(TxBuf + At, Length),
                    UNCHANGED <<stream, loads>>
             PROVE  TestInv'
  OBVIOUS
<1> DEFINE s == Span(TxBuf + At, Length)
<1>1. TestTypes
  BY DEF TestInv
<1>2. /\ CacheDrop(s) /\ mem' = WrittenBack(s)
      /\ tx' = tx /\ rx' = rx /\ place = "snd" /\ place' = "snd_addr"
      /\ test' = test /\ turn' = turn
      /\ stream' = stream /\ pending' = pending /\ early' = early
  BY DEF SndFlush, DCacheFlushRange, TestGoto, loads
<1>3. TestTypes'
  BY <1>1, <1>2, Maintained DEF TestTypes, Sending
<1>4. /\ At' = At /\ Length' = Length
      /\ SentLines = 0 /\ ReceivedLines = 0
      /\ SentLines' = 0 /\ ReceivedLines' = 0
  BY <1>2 DEF At, Length, SentLines, ReceivedLines, Sending, Receiving
<1>5. TestChannels'
  BY <1>2, <1>4 DEF TestInv, TestChannels, Sending, Receiving
<1>6. TestStream'
  BY <1>2, <1>4 DEF TestInv, TestStream
<1> HIDE DEF s
<1>7. /\ \A k \in Rx :
           IF cache'[TxBuf + k] = Absent
           THEN mem'[TxBuf + k] = Pattern(k)
           ELSE cache'[TxBuf + k].val = Pattern(k)
      /\ \A l \in Lines : cache'[l] # Absent => cache'[l] = cache[l]
      /\ \A l \in Lines : cache'[l].state = "clean" => mem'[l] = mem[l]
      /\ \A k \in Target : cache'[k].state # "dirty"
      /\ \A k \in Filled : mem'[k] = Pattern(k)
  BY <1>2, MaintainedInv
<1>8. Rx \subseteq Lines /\ \A k \in Rx : TxBuf + k \in Lines
  BY <1>1, TransferInBuffers DEF Rx
<1>9. TestSource'
  <2>1. \A l \in s : cache'[l] = Absent
    BY <1>1, <1>2, Maintained DEF s, Span
  <2>2. \A k \in Rx : At <= k /\ k < At + Length => TxBuf + k \in s
    BY <1>1, <1>8, TransferInBuffers DEF s, Span, Rx
  <2> QED BY <1>2, <1>4, <1>7, <2>1, <2>2 DEF TestSource, Visible, Absent
<1>10. TestTarget' /\ TestFilled'
  <2>1. Target' = Target /\ Filled' = Filled
    BY <1>2, <1>4 DEF Target, Filled, Invalidated, Receiving
  <2> QED BY <1>7, <2>1 DEF TestTarget, TestFilled
<1>11. TestStale'
  <2>1. \A l \in Lines :
          cache'[l].state = "clean" /\ cache'[l].val # mem'[l] => l \in early'
    BY <1>2, <1>7 DEF TestInv, TestStale, Absent
  <2>2. \A l \in pending' : cache'[l] # Absent => l \in early'
    BY <1>1, <1>2, <1>7, <1>8 DEF TestInv, TestStale, TestTypes
  <2>3. place' \notin Invalidated \union {"cmp"}
    BY <1>2 DEF Invalidated, Receiving
  <2> QED BY <2>1, <2>2, <2>3 DEF TestStale
<1> QED BY <1>3, <1>5, <1>6, <1>9, <1>10, <1>11 DEF TestInv

(* A step of the control alone.                                            *)
LEMMA DataKept ==
  ASSUME TestInv, UNCHANGED <<mem, cache, pending, early>>,
         place' \in Flushed =>
           place \in Flushed /\ At' = At /\ Length' = Length,
         place' \in Invalidated =>
           /\ place \in Invalidated /\ At' = At /\ Length' = Length
           /\ ReceivedLines' = ReceivedLines,
         test' = 3 /\ place' \in Invalidated \union {"cmp"} =>
           test = 3 /\ place \in Invalidated \union {"cmp"},
         Target' \subseteq Target, Filled' \subseteq Filled
  PROVE  TestSource' /\ TestTarget' /\ TestFilled' /\ TestStale'
<1>1. TestSource'
  BY DEF TestInv, TestSource, Visible
<1>2. TestTarget' /\ TestFilled'
  BY DEF TestInv, TestTarget, TestFilled
<1>3. TestStale'
  BY DEF TestInv, TestStale
<1> QED BY <1>1, <1>2, <1>3

LEMMA SndAddrInv ==
  TestInv /\ TestGoto("snd_addr", "snd_length") /\ SndAddr(TxBuf + At)
    /\ UNCHANGED <<stream, loads>>
  => TestInv'
<1> SUFFICES ASSUME TestInv, TestGoto("snd_addr", "snd_length"),
                    SndAddr(TxBuf + At), UNCHANGED <<stream, loads>>
             PROVE  TestInv'
  OBVIOUS
<1>1. TestTypes
  BY DEF TestInv
<1>2. /\ mem' = mem /\ cache' = cache
      /\ tx' = SetAddr(tx, TxBuf + At) /\ rx' = rx
      /\ place = "snd_addr" /\ place' = "snd_length"
      /\ test' = test /\ turn' = turn
      /\ stream' = stream /\ pending' = pending /\ early' = early
  BY DEF SndAddr, TestGoto, loads
<1>3. TxBuf + At \in Int
  BY <1>1, TransferInBuffers DEF Rx
<1>4. /\ tx' \in Channel /\ tx'.addr = TxBuf + At /\ tx'.state = tx.state
  BY <1>1, <1>2, <1>3, ChannelFields DEF TestTypes
<1>5. TestTypes'
  BY <1>1, <1>2, <1>4 DEF TestTypes, Sending
<1>6. /\ At' = At /\ Length' = Length /\ TxBuf' = TxBuf
      /\ SentLines = 0 /\ ReceivedLines = 0
      /\ SentLines' = 0 /\ ReceivedLines' = 0
  BY <1>2
     DEF At, Length, SentLines, ReceivedLines, Sending, Receiving, TxBuf
<1>7. TestChannels'
  BY <1>2, <1>4, <1>6 DEF TestInv, TestChannels, Sending, Receiving
<1>8. TestStream'
  BY <1>2, <1>6 DEF TestInv, TestStream
<1>9. Target' = Target /\ Filled' = Filled
  BY <1>2, <1>6 DEF Target, Filled, Invalidated, Receiving
<1>10. TestSource' /\ TestTarget' /\ TestFilled' /\ TestStale'
  BY <1>2, <1>6, <1>9, DataKept DEF Flushed, Invalidated, Receiving
<1> QED BY <1>5, <1>7, <1>8, <1>10 DEF TestInv

LEMMA SndLengthInv ==
  TestInv /\ TestGoto("snd_length", "rcv") /\ SndLength(Length)
    /\ UNCHANGED <<stream, loads>>
  => TestInv'
<1> SUFFICES ASSUME TestInv, TestGoto("snd_length", "rcv"),
                    SndLength(Length), UNCHANGED <<stream, loads>>
             PROVE  TestInv'
  OBVIOUS
<1>1. TestTypes
  BY DEF TestInv
<1>2. /\ mem' = mem /\ cache' = cache
      /\ tx' = SetLength(tx, Length) /\ rx' = rx
      /\ place = "snd_length" /\ place' = "rcv"
      /\ test' = test /\ turn' = turn
      /\ stream' = stream /\ pending' = pending /\ early' = early
  BY DEF SndLength, TestGoto, loads
<1>3. Length \in 1 .. N /\ At \in Rx /\ N \in Nat /\ TxBuf = N
  BY <1>1, TransferInBuffers
<1>4. /\ tx' \in Channel /\ tx'.state = "busy"
      /\ tx'.at = TxBuf + At /\ tx'.left = Length
  <2>1. tx.state \in {"ready", "idle"} /\ tx.addr = TxBuf + At
    BY <1>2 DEF TestInv, TestChannels, Sending
  <2>2. tx \in Channel /\ Length \in Nat
    BY <1>1, <1>3 DEF TestTypes
  <2> QED BY <1>2, <2>1, <2>2, ChannelFields
<1>5. TestTypes'
  BY <1>1, <1>2, <1>4 DEF TestTypes, Sending
<1>6. /\ At' = At /\ Length' = Length /\ TxBuf' = TxBuf
      /\ SentLines = 0 /\ ReceivedLines = 0 /\ ReceivedLines' = 0
  BY <1>2
     DEF At, Length, SentLines, ReceivedLines, Sending, Receiving, TxBuf
<1>7. SentLines' = 0
  BY <1>2, <1>3, <1>4, <1>6 DEF SentLines, Sending
<1>8. TestChannels'
  BY <1>2, <1>3, <1>4, <1>6, <1>7
     DEF TestInv, TestChannels, Sending, Receiving, Rx
<1>9. TestStream'
  BY <1>2, <1>6, <1>7 DEF TestInv, TestStream
<1>10. Target' = Target /\ Filled' = Filled
  BY <1>2, <1>6 DEF Target, Filled, Invalidated, Receiving
<1>11. TestSource' /\ TestTarget' /\ TestFilled' /\ TestStale'
  BY <1>2, <1>6, <1>10, DataKept DEF Flushed, Invalidated, Receiving
<1> QED BY <1>5, <1>8, <1>9, <1>11 DEF TestInv

(* dma_rcv: the invalidation, and the two registers.                       *)
LEMMA RcvInvalidateInv ==
  TestInv /\ TestGoto("rcv", "rcv_addr")
    /\ RcvInvalidate(RxBuf + At, Length)
    /\ pending' = Span(RxBuf + At, Length)
    /\ early' = early \ Span(RxBuf + At, Length)
    /\ UNCHANGED stream
  => TestInv'
<1> SUFFICES ASSUME TestInv, TestGoto("rcv", "rcv_addr"),
                    RcvInvalidate(RxBuf + At, Length),
                    pending' = Span(RxBuf + At, Length),
                    early' = early \ Span(RxBuf + At, Length),
                    UNCHANGED stream
             PROVE  TestInv'
  OBVIOUS
<1> DEFINE s == Span(RxBuf + At, Length)
<1>1. TestTypes
  BY DEF TestInv
<1>2. /\ CacheDrop(s) /\ (mem' = mem \/ mem' = WrittenBack(s))
      /\ tx' = tx /\ rx' = rx /\ place = "rcv" /\ place' = "rcv_addr"
      /\ test' = test /\ turn' = turn
      /\ stream' = stream /\ pending' = s /\ early' = early \ s
  BY DEF RcvInvalidate, DCacheInvalidateRange, TestGoto
<1>3. /\ s \subseteq Rx
      /\ \A k \in Rx : At <= k /\ k < At + Length => k \in s
      /\ Rx \subseteq Lines /\ \A k \in Rx : TxBuf + k \in Lines \ s
  BY <1>1, TransferInBuffers DEF Span, Rx
<1>4. /\ test = 1 => 0 \in s
      /\ test = 3 => \A k \in Rx : k \in s
  BY <1>1, TransferInBuffers DEF At, Length, Span, Rx
<1> HIDE DEF s
<1>5. TestTypes'
  BY <1>1, <1>2, <1>3, Maintained DEF TestTypes, Sending
<1>6. /\ At' = At /\ Length' = Length /\ SentLines' = SentLines
      /\ ReceivedLines = 0 /\ ReceivedLines' = 0
  BY <1>2 DEF At, Length, SentLines, ReceivedLines, Sending, Receiving
<1>7. TestChannels'
  BY <1>2, <1>6 DEF TestInv, TestChannels, Sending, Receiving
<1>8. TestStream'
  BY <1>2, <1>6 DEF TestInv, TestStream
<1>9. /\ \A k \in Rx :
           IF cache'[TxBuf + k] = Absent
           THEN mem'[TxBuf + k] = Pattern(k)
           ELSE cache'[TxBuf + k].val = Pattern(k)
      /\ \A l \in Lines : cache'[l] # Absent => cache'[l] = cache[l]
      /\ \A l \in Lines : cache'[l].state = "clean" => mem'[l] = mem[l]
      /\ \A l \in Lines :
           cache[l].state # "dirty" => cache'[l].state # "dirty"
      /\ \A k \in Target : cache'[k].state # "dirty"
      /\ \A k \in Filled : mem'[k] = Pattern(k)
  BY <1>2, <1>3, MaintainedInv
<1>10. \A l \in s : cache'[l] = Absent
  BY <1>1, <1>2, <1>3, Maintained
<1>11. TestSource'
  BY <1>2, <1>3, <1>6, <1>9
     DEF TestInv, TestSource, Visible, Flushed, Sending
<1>12. TestTarget'
  <2>1. Target' \subseteq Target \union s
    BY <1>2, <1>4 DEF Target, Invalidated
  <2> QED BY <1>9, <1>10, <2>1 DEF TestTarget, Absent
<1>13. TestFilled'
  <2>1. Filled' = Filled
    BY <1>2, <1>6 DEF Filled
  <2> QED BY <1>9, <2>1 DEF TestFilled
<1>14. TestStale'
  <2>1. \A l \in Lines :
          cache'[l].state = "clean" /\ cache'[l].val # mem'[l] => l \in early'
    BY <1>2, <1>9, <1>10 DEF TestInv, TestStale, Absent
  <2>2. \A l \in pending' : cache'[l] # Absent => l \in early'
    BY <1>2, <1>10
  <2>3. \A k \in Rx : At' + ReceivedLines' <= k /\ k < At' + Length'
          => k \in pending'
    BY <1>1, <1>2, <1>3, <1>6, TransferInBuffers DEF Rx
  <2>4. test' = 3 => \A k \in Rx : cache'[k] = Absent
    BY <1>2, <1>4, <1>10
  <2> QED BY <2>1, <2>2, <2>3, <2>4 DEF TestStale
<1> QED BY <1>5, <1>7, <1>8, <1>11, <1>12, <1>13, <1>14 DEF TestInv

LEMMA RcvAddrInv ==
  TestInv /\ TestGoto("rcv_addr", "rcv_length") /\ RcvAddr(RxBuf + At)
    /\ UNCHANGED <<stream, loads>>
  => TestInv'
<1> SUFFICES ASSUME TestInv, TestGoto("rcv_addr", "rcv_length"),
                    RcvAddr(RxBuf + At), UNCHANGED <<stream, loads>>
             PROVE  TestInv'
  OBVIOUS
<1>1. TestTypes
  BY DEF TestInv
<1>2. /\ mem' = mem /\ cache' = cache
      /\ rx' = SetAddr(rx, RxBuf + At) /\ tx' = tx
      /\ place = "rcv_addr" /\ place' = "rcv_length"
      /\ test' = test /\ turn' = turn
      /\ stream' = stream /\ pending' = pending /\ early' = early
  BY DEF RcvAddr, TestGoto, loads
<1>3. RxBuf + At \in Int
  BY <1>1, TransferInBuffers DEF Rx
<1>4. /\ rx' \in Channel /\ rx'.addr = RxBuf + At /\ rx'.state = rx.state
  BY <1>1, <1>2, <1>3, ChannelFields DEF TestTypes
<1>5. TestTypes'
  BY <1>1, <1>2, <1>4 DEF TestTypes, Sending
<1>6. /\ At' = At /\ Length' = Length /\ RxBuf' = RxBuf
      /\ SentLines' = SentLines /\ ReceivedLines = 0 /\ ReceivedLines' = 0
  BY <1>2
     DEF At, Length, SentLines, ReceivedLines, Sending, Receiving, RxBuf
<1>7. TestChannels'
  BY <1>2, <1>4, <1>6 DEF TestInv, TestChannels, Sending, Receiving
<1>8. TestStream'
  BY <1>2, <1>6 DEF TestInv, TestStream
<1>9. Target' = Target /\ Filled' = Filled
  BY <1>2, <1>6 DEF Target, Filled, Invalidated
<1>10. TestSource' /\ TestTarget' /\ TestFilled' /\ TestStale'
  BY <1>2, <1>6, <1>9, DataKept DEF Flushed, Sending, Invalidated
<1> QED BY <1>5, <1>7, <1>8, <1>10 DEF TestInv

LEMMA RcvLengthInv ==
  TestInv /\ TestGoto("rcv_length", "snd_wait") /\ RcvLength(Length)
    /\ UNCHANGED <<stream, loads>>
  => TestInv'
<1> SUFFICES ASSUME TestInv, TestGoto("rcv_length", "snd_wait"),
                    RcvLength(Length), UNCHANGED <<stream, loads>>
             PROVE  TestInv'
  OBVIOUS
<1>1. TestTypes
  BY DEF TestInv
<1>2. /\ mem' = mem /\ cache' = cache
      /\ rx' = SetLength(rx, Length) /\ tx' = tx
      /\ place = "rcv_length" /\ place' = "snd_wait"
      /\ test' = test /\ turn' = turn
      /\ stream' = stream /\ pending' = pending /\ early' = early
  BY DEF RcvLength, TestGoto, loads
<1>3. Length \in 1 .. N /\ At \in Rx /\ N \in Nat /\ RxBuf = 0
  BY <1>1, TransferInBuffers
<1>4. /\ rx' \in Channel /\ rx'.state = "busy"
      /\ rx'.at = RxBuf + At /\ rx'.left = Length
  <2>1. rx.state \in {"ready", "idle"} /\ rx.addr = RxBuf + At
    BY <1>2 DEF TestInv, TestChannels, Receiving
  <2>2. rx \in Channel /\ Length \in Nat
    BY <1>1, <1>3 DEF TestTypes
  <2> QED BY <1>2, <2>1, <2>2, ChannelFields
<1>5. TestTypes'
  BY <1>1, <1>2, <1>4 DEF TestTypes, Sending
<1>6. /\ At' = At /\ Length' = Length /\ RxBuf' = RxBuf
      /\ SentLines' = SentLines /\ ReceivedLines = 0
  BY <1>2
     DEF At, Length, SentLines, ReceivedLines, Sending, Receiving, RxBuf
<1>7. ReceivedLines' = 0
  BY <1>2, <1>3, <1>4, <1>6 DEF ReceivedLines, Receiving
<1>8. TestChannels'
  BY <1>2, <1>3, <1>4, <1>6, <1>7
     DEF TestInv, TestChannels, Sending, Receiving, Rx
<1>9. TestStream'
  BY <1>2, <1>6, <1>7 DEF TestInv, TestStream
<1>10. Target' = Target /\ Filled' = Filled
  BY <1>2, <1>6, <1>7 DEF Target, Filled, Invalidated, Receiving
<1>11. TestSource' /\ TestTarget' /\ TestFilled' /\ TestStale'
  BY <1>2, <1>6, <1>7, <1>10, DataKept
     DEF Flushed, Sending, Invalidated, Receiving
<1> QED BY <1>5, <1>8, <1>9, <1>11 DEF TestInv

(* The waits, and the turn of the loop or the comparison after them.       *)
LEMMA SndWaitInv == TestInv /\ CallDmaSndWait => TestInv'
<1> SUFFICES ASSUME TestInv, CallDmaSndWait PROVE TestInv'
  OBVIOUS
<1>1. /\ mem' = mem /\ cache' = cache /\ tx' = tx /\ rx' = rx
      /\ tx.state = "idle"
      /\ place = "snd_wait" /\ place' = "rcv_wait"
      /\ test' = test /\ turn' = turn
      /\ stream' = stream /\ pending' = pending /\ early' = early
  BY DEF CallDmaSndWait, SndWait, Idle, TestGoto, loads
<1>2. TestTypes'
  BY <1>1 DEF TestInv, TestTypes, Sending
<1>3. /\ At' = At /\ Length' = Length
      /\ SentLines' = SentLines /\ ReceivedLines' = ReceivedLines
  BY <1>1 DEF At, Length, SentLines, ReceivedLines, Sending, Receiving
<1>4. TestChannels'
  BY <1>1, <1>3 DEF TestInv, TestChannels, Sending, Receiving, TxBuf, RxBuf
<1>5. TestStream'
  BY <1>1, <1>3 DEF TestInv, TestStream
<1>6. Target' = Target /\ Filled' = Filled
  BY <1>1, <1>3 DEF Target, Filled, Invalidated, Receiving
<1>7. TestSource' /\ TestTarget' /\ TestFilled' /\ TestStale'
  BY <1>1, <1>3, <1>6, DataKept DEF Flushed, Sending, Invalidated, Receiving
<1> QED BY <1>2, <1>4, <1>5, <1>7 DEF TestInv

LEMMA RcvWaitInv == TestInv /\ CallDmaRcvWait => TestInv'
<1> SUFFICES ASSUME TestInv, CallDmaRcvWait PROVE TestInv'
  OBVIOUS
<1>1. TestTypes
  BY DEF TestInv
<1>2. /\ mem' = mem /\ cache' = cache /\ tx' = tx /\ rx' = rx
      /\ rx.state = "idle" /\ place = "rcv_wait" /\ test' = test
      /\ stream' = stream /\ pending' = pending /\ early' = early
      /\ IF test = 2 /\ turn + 1 < N
         THEN place' = "snd" /\ turn' = turn + 1
          ELSE place' = "cmp" /\ turn' = turn
  BY DEF CallDmaRcvWait, RcvWait, Idle, loads
<1>3. tx.state = "idle" /\ SentLines = Length /\ ReceivedLines = Length
  BY <1>2
     DEF TestInv, TestChannels, SentLines, ReceivedLines, Sending, Receiving
<1>4. SentLines' = 0 /\ ReceivedLines' = 0
  BY <1>2 DEF SentLines, ReceivedLines, Sending, Receiving
<1>5. TestTypes'
  BY <1>1, <1>2 DEF TestTypes, Sizes, Rx
<1>6. TestChannels'
  BY <1>2, <1>3 DEF TestInv, TestChannels, Sending, Receiving
<1>7. TestStream'
  <2>1. Length \in Nat /\ Len(stream) = 0
    BY <1>1, <1>3, TransferInBuffers DEF TestInv, TestStream
  <2> QED BY <1>2, <1>4, <2>1 DEF TestStream
<1>8. Target' \subseteq Target
  BY <1>2 DEF Target, Invalidated, Receiving
<1>9. Filled' \subseteq Filled
  <2>1. turn \in 0 .. N - 1 /\ N \in Nat /\ test \in 1 .. 3
    BY <1>1 DEF TestTypes, Sizes, Rx
  <2>2. CASE test = 1
    BY <1>2, <1>3, <2>2 DEF Filled, Length
  <2>3. CASE test = 2
    <3>1. Length = 1
      BY <2>3 DEF Length
    <3>2. CASE turn + 1 < N
      BY <1>2, <1>3, <1>4, <2>1, <2>3, <3>1, <3>2 DEF Filled
    <3>3. CASE ~(turn + 1 < N)
      BY <1>2, <1>3, <1>4, <2>1, <2>3, <3>1, <3>3 DEF Filled, Rx
    <3> QED BY <3>2, <3>3
  <2>4. CASE test = 3
    BY <1>2, <2>4 DEF Filled, Rx
  <2> QED BY <2>1, <2>2, <2>3, <2>4
<1>10. TestSource' /\ TestTarget' /\ TestFilled' /\ TestStale'
  BY <1>2, <1>8, <1>9, DataKept DEF Flushed, Sending, Invalidated, Receiving
<1> QED BY <1>5, <1>6, <1>7, <1>10 DEF TestInv

LEMMA CompareInv == TestInv /\ Compare => TestInv'
<1> SUFFICES ASSUME TestInv, Compare PROVE TestInv'
  OBVIOUS
<1>1. TestTypes
  BY DEF TestInv
<1>2. /\ mem' = mem /\ cache' = cache /\ tx' = tx /\ rx' = rx
      /\ place = "cmp" /\ turn' = 0
      /\ stream' = stream /\ pending' = pending /\ early' = early
      /\ \/ test = 3 /\ test' = 3 /\ place' = "done"
         \/ test = 2 /\ test' = 3 /\ place' = "snd"
         \/ test = 1 /\ test' = 2 /\ place' = "flush"
  BY <1>1 DEF Compare, loads, TestTypes
<1>3. /\ SentLines = 0 /\ ReceivedLines = 0
      /\ SentLines' = 0 /\ ReceivedLines' = 0
  BY <1>2 DEF SentLines, ReceivedLines, Sending, Receiving
<1>4. TestTypes'
  BY <1>1, <1>2 DEF TestTypes, Sizes, Rx
<1>5. TestChannels'
  BY <1>2 DEF TestInv, TestChannels, Sending, Receiving
<1>6. TestStream'
  BY <1>2, <1>3 DEF TestInv, TestStream
<1>7. Target' \subseteq Target /\ Filled' \subseteq Filled
  BY <1>2, <1>3 DEF Target, Filled
<1>8. TestSource' /\ TestTarget' /\ TestFilled' /\ TestStale'
  BY <1>2, <1>7, DataKept DEF Flushed, Sending, Invalidated, Receiving
<1> QED BY <1>4, <1>5, <1>6, <1>8 DEF TestInv

(* What main does before the second test.                                  *)
LEMMA FlushAllInv == TestInv /\ FlushAll => TestInv'
<1> SUFFICES ASSUME TestInv, FlushAll PROVE TestInv'
  OBVIOUS
<1> DEFINE s == Span(TxBuf, N)
<1>1. TestTypes
  BY DEF TestInv
<1>2. /\ CacheDrop(s) /\ mem' = WrittenBack(s)
      /\ tx' = tx /\ rx' = rx /\ place = "flush" /\ place' = "invalidate"
      /\ test' = test /\ turn' = turn
      /\ stream' = stream /\ pending' = pending /\ early' = early
  BY DEF FlushAll, SndFlush, DCacheFlushRange, TestGoto, loads
<1> HIDE DEF s
<1>3. TestTypes'
  BY <1>1, <1>2, Maintained DEF TestTypes, Sending
<1>4. /\ SentLines = 0 /\ ReceivedLines = 0
      /\ SentLines' = 0 /\ ReceivedLines' = 0
  BY <1>2 DEF SentLines, ReceivedLines, Sending, Receiving
<1>5. TestChannels'
  BY <1>2 DEF TestInv, TestChannels, Sending, Receiving
<1>6. TestStream'
  BY <1>2, <1>4 DEF TestInv, TestStream
<1>7. /\ \A k \in Rx :
           IF cache'[TxBuf + k] = Absent
           THEN mem'[TxBuf + k] = Pattern(k)
           ELSE cache'[TxBuf + k].val = Pattern(k)
      /\ \A l \in Lines : cache'[l] # Absent => cache'[l] = cache[l]
      /\ \A l \in Lines : cache'[l].state = "clean" => mem'[l] = mem[l]
      /\ \A k \in Filled : mem'[k] = Pattern(k)
  BY <1>2, MaintainedInv
<1>8. Rx \subseteq Lines
  BY <1>1, TransferInBuffers DEF Rx
<1>9. TestSource'
  BY <1>2, <1>7 DEF TestSource, Visible, Flushed, Sending
<1>10. TestTarget' /\ TestFilled'
  <2>1. Target' = {} /\ Filled' = Filled
    BY <1>1, <1>2, <1>4 DEF Target, Filled, TestTypes
  <2> QED BY <1>7, <2>1 DEF TestTarget, TestFilled
<1>11. TestStale'
  <2>1. \A l \in Lines :
          cache'[l].state = "clean" /\ cache'[l].val # mem'[l] => l \in early'
    BY <1>2, <1>7 DEF TestInv, TestStale, Absent
  <2>2. \A l \in pending' : cache'[l] # Absent => l \in early'
    BY <1>1, <1>2, <1>7, <1>8 DEF TestInv, TestStale, TestTypes
  <2>3. place' \notin Invalidated \union {"cmp"}
    BY <1>2 DEF Invalidated, Receiving
  <2> QED BY <2>1, <2>2, <2>3 DEF TestStale
<1> QED BY <1>3, <1>5, <1>6, <1>9, <1>10, <1>11 DEF TestInv

LEMMA InvalidateAllInv == TestInv /\ InvalidateAll => TestInv'
<1> SUFFICES ASSUME TestInv, InvalidateAll PROVE TestInv'
  OBVIOUS
<1> DEFINE s == Span(RxBuf, N)
<1>1. TestTypes
  BY DEF TestInv
<1>2. /\ CacheDrop(s) /\ (mem' = mem \/ mem' = WrittenBack(s))
      /\ tx' = tx /\ rx' = rx /\ place = "invalidate" /\ place' = "snd"
      /\ test' = test /\ turn' = turn
      /\ stream' = stream /\ pending' = pending /\ early' = early \ s
  BY DEF InvalidateAll, RcvInvalidate, DCacheInvalidateRange, TestGoto
<1>3. /\ s = Rx /\ Rx \subseteq Lines
  BY <1>1, TransferInBuffers DEF Span, Rx
<1> HIDE DEF s
<1>4. TestTypes'
  BY <1>1, <1>2, Maintained DEF TestTypes, Sending
<1>5. /\ SentLines = 0 /\ ReceivedLines = 0
      /\ SentLines' = 0 /\ ReceivedLines' = 0
  BY <1>2 DEF SentLines, ReceivedLines, Sending, Receiving
<1>6. TestChannels'
  BY <1>2 DEF TestInv, TestChannels, Sending, Receiving
<1>7. TestStream'
  BY <1>2, <1>5 DEF TestInv, TestStream
<1>8. /\ \A k \in Rx :
           IF cache'[TxBuf + k] = Absent
           THEN mem'[TxBuf + k] = Pattern(k)
           ELSE cache'[TxBuf + k].val = Pattern(k)
      /\ \A l \in Lines : cache'[l] # Absent => cache'[l] = cache[l]
      /\ \A l \in Lines : cache'[l].state = "clean" => mem'[l] = mem[l]
      /\ \A k \in Filled : mem'[k] = Pattern(k)
  BY <1>2, <1>3, MaintainedInv
<1>9. \A l \in Rx : cache'[l] = Absent
  BY <1>1, <1>2, <1>3, Maintained
<1>10. TestSource'
  BY <1>2, <1>8 DEF TestSource, Visible, Flushed, Sending
<1>11. TestTarget' /\ TestFilled'
  <2>1. Target' \subseteq Rx /\ Filled' = Filled
    BY <1>1, <1>2, <1>5 DEF Target, Filled, TestTypes, Invalidated, Receiving
  <2> QED BY <1>8, <1>9, <2>1 DEF TestTarget, TestFilled, Absent
<1>12. TestStale'
  <2>1. \A l \in Lines :
          cache'[l].state = "clean" /\ cache'[l].val # mem'[l] => l \in early'
    BY <1>2, <1>3, <1>8, <1>9 DEF TestInv, TestStale, Absent
  <2>2. \A l \in pending' : cache'[l] # Absent => l \in early'
    BY <1>1, <1>2, <1>9 DEF TestTypes
  <2>3. place' \notin Invalidated \union {"cmp"}
    BY <1>2 DEF Invalidated, Receiving
  <2> QED BY <2>1, <2>2, <2>3 DEF TestStale
<1> QED BY <1>4, <1>6, <1>7, <1>10, <1>11, <1>12 DEF TestInv

(* The channels.                                                           *)
Sends ==
  /\ TxMove /\ stream' = Append(stream, mem[tx.at])
  /\ UNCHANGED <<place, test, turn, loads>>

Receives ==
  /\ stream # <<>> /\ RxMove(Head(stream)) /\ stream' = Tail(stream)
  /\ pending' = pending \ {rx.at}
  /\ UNCHANGED <<place, test, turn, early>>

LEMMA SendsInv == TestInv /\ Sends => TestInv'
<1> SUFFICES ASSUME TestInv, Sends PROVE TestInv'
  OBVIOUS
<1>1. TestTypes
  BY DEF TestInv
<1>2. /\ mem' = mem /\ cache' = cache /\ tx' = Moved(tx) /\ rx' = rx
      /\ tx.state = "busy" /\ tx.left > 0
      /\ place' = place /\ test' = test /\ turn' = turn
      /\ pending' = pending /\ early' = early
  BY DEF Sends, TxMove, loads
<1>3. /\ N \in Nat /\ Lines = 0 .. 2 * N - 1 /\ TxBuf = N
      /\ At \in Nat /\ At < N
      /\ Length \in Nat \ {0} /\ At + Length <= N
      /\ SentLines \in Nat /\ SentLines <= Length
      /\ ReceivedLines \in Nat /\ ReceivedLines <= SentLines
  BY <1>1, TransferInBuffers, LinesCounted DEF Rx
<1>4. /\ place \in Sending /\ SentLines = Length - tx.left
      /\ tx.at = TxBuf + (At + SentLines) /\ tx.left \in Nat
  <2>1. tx.left \in Nat
    BY <1>1 DEF TestTypes, Channel
  <2> QED BY <1>2, <1>3, <2>1 DEF TestInv, TestChannels, SentLines, Rx
<1>5. /\ tx' \in Channel /\ tx'.state = "busy" /\ tx'.addr = tx.addr
      /\ tx'.at = tx.at + 1 /\ tx'.left = tx.left - 1
  BY <1>1, <1>2, ChannelFields DEF TestTypes
<1>6. /\ At' = At /\ Length' = Length /\ ReceivedLines' = ReceivedLines
      /\ TxBuf' = TxBuf /\ RxBuf' = RxBuf
  BY <1>2 DEF At, Length, ReceivedLines, TxBuf, RxBuf
<1>7. SentLines' = SentLines + 1 /\ SentLines < Length
  BY <1>2, <1>3, <1>4, <1>5, <1>6 DEF SentLines
<1>8. At + SentLines \in Rx /\ tx.at \in Lines /\ tx.at \notin Rx
  <2>1. At + SentLines \in Nat /\ At + SentLines < N
    BY <1>3, <1>7
  <2>2. tx.at = N + (At + SentLines)
    BY <1>3, <1>4
  <2> QED BY <1>3, <2>1, <2>2 DEF Rx
<1>9. mem[tx.at] = Pattern(At + SentLines)
  <2>1. Visible(tx.at) = Pattern(At + SentLines)
        /\ cache[tx.at].state # "dirty"
    <3>1. At <= At + SentLines /\ At + SentLines < At + Length
      BY <1>3, <1>7
    <3> QED BY <1>4, <1>8, <3>1 DEF TestInv, TestSource, Flushed
  <2>2. cache[tx.at] # Absent => cache[tx.at].val = mem[tx.at]
    BY <1>1, <1>8, <2>1 DEF TestInv, TestStale, TestTypes, CachedLine
  <2> QED BY <2>1, <2>2 DEF Visible
<1>10. TestTypes'
  <2>1. mem[tx.at] \in 0 .. 2 /\ stream \in Seq(0 .. 2)
    BY <1>1, <1>8 DEF TestTypes
  <2>2. stream' \in Seq(0 .. 2)
    BY <2>1 DEF Sends
  <2> QED BY <1>1, <1>2, <1>5, <2>2 DEF TestTypes
<1>11. TestChannels'
  <2>1. tx'.left <= Length' /\ tx'.at = TxBuf' + At' + SentLines'
    <3>1. tx'.left <= Length
      BY <1>3, <1>4, <1>5
    <3>2. TxBuf + (At + SentLines) + 1 = TxBuf + At + (SentLines + 1)
      BY <1>3
    <3> QED BY <1>4, <1>5, <1>6, <1>7, <3>1, <3>2
  <2>2. tx'.addr = tx.addr /\ tx'.state = tx.state
    BY <1>2, <1>5
  <2> QED BY <1>2, <1>4, <1>6, <2>1, <2>2 DEF TestInv, TestChannels
<1>12. TestStream'
  <2>1. stream \in Seq(0 .. 2) /\ mem[tx.at] \in 0 .. 2
    BY <1>1, <1>8 DEF TestTypes
  <2>2. /\ Len(stream') = Len(stream) + 1 /\ Len(stream) \in Nat
        /\ \A k \in 1 .. Len(stream) : stream'[k] = stream[k]
        /\ stream'[Len(stream) + 1] = mem[tx.at]
    BY <2>1 DEF Sends
  <2>3. Len(stream) = SentLines - ReceivedLines
        /\ \A k \in 1 .. Len(stream) :
             stream[k] = Pattern(At + ReceivedLines + k - 1)
    BY DEF TestInv, TestStream
  <2>4. Len(stream') = SentLines' - ReceivedLines'
    BY <1>3, <1>6, <1>7, <2>2, <2>3
  <2>5. ASSUME NEW k \in 1 .. Len(stream')
        PROVE  stream'[k] = Pattern(At + ReceivedLines + k - 1)
    <3>1. CASE k \in 1 .. Len(stream)
      BY <2>2, <2>3, <3>1
    <3>2. CASE k = Len(stream) + 1
      <4>1. At + ReceivedLines + k - 1 = At + SentLines
        BY <1>3, <2>2, <2>3, <3>2 DEF Rx
      <4> QED BY <1>9, <2>2, <3>2, <4>1
    <3> QED BY <2>2, <3>1, <3>2
  <2>6. \A k : Pattern(k)' = Pattern(k)
    BY DEF Pattern
  <2> QED BY <1>6, <2>4, <2>5 DEF TestStream
<1>13. Target' = Target /\ Filled' = Filled
  BY <1>2, <1>6 DEF Target, Filled
<1>14. TestSource' /\ TestTarget' /\ TestFilled' /\ TestStale'
  BY <1>2, <1>6, <1>13, DataKept
<1> QED BY <1>10, <1>11, <1>12, <1>14 DEF TestInv

LEMMA ReceivesInv == TestInv /\ Receives => TestInv'
<1> SUFFICES ASSUME TestInv, Receives PROVE TestInv'
  OBVIOUS
<1>1. TestTypes
  BY DEF TestInv
<1>2. /\ mem' = [mem EXCEPT ![rx.at] = Head(stream)]
      /\ cache' = cache /\ rx' = Moved(rx) /\ tx' = tx
      /\ rx.state = "busy" /\ rx.left > 0
      /\ place' = place /\ test' = test /\ turn' = turn
      /\ pending' = pending \ {rx.at} /\ early' = early
  BY DEF Receives, RxMove
<1>3. /\ N \in Nat /\ Lines = 0 .. 2 * N - 1 /\ TxBuf = N /\ RxBuf = 0
      /\ At \in Nat /\ At < N
      /\ Length \in Nat \ {0} /\ At + Length <= N
      /\ SentLines \in Nat /\ SentLines <= Length
      /\ ReceivedLines \in Nat /\ ReceivedLines <= SentLines
      /\ Target \subseteq Rx /\ Filled \subseteq Target
  BY <1>1, TransferInBuffers, LinesCounted DEF Rx
<1>4. /\ place \in Receiving /\ ReceivedLines = Length - rx.left
      /\ rx.at = At + ReceivedLines /\ rx.left \in Nat
  <2>1. rx.left \in Nat
    BY <1>1 DEF TestTypes, Channel
  <2> QED BY <1>2, <1>3, <2>1 DEF TestInv, TestChannels, ReceivedLines, Rx
<1>5. /\ rx' \in Channel /\ rx'.state = "busy" /\ rx'.addr = rx.addr
      /\ rx'.at = rx.at + 1 /\ rx'.left = rx.left - 1
  BY <1>1, <1>2, ChannelFields DEF TestTypes
<1>6. /\ At' = At /\ Length' = Length /\ SentLines' = SentLines
      /\ TxBuf' = TxBuf /\ RxBuf' = RxBuf
  BY <1>2 DEF At, Length, SentLines, TxBuf, RxBuf
<1>7. ReceivedLines' = ReceivedLines + 1 /\ ReceivedLines < Length
  BY <1>2, <1>3, <1>4, <1>5, <1>6 DEF ReceivedLines
<1>8. rx.at \in Rx /\ Rx \subseteq Lines
  <2>1. rx.at \in Nat /\ rx.at < N
    BY <1>3, <1>4, <1>7
  <2> QED BY <1>3, <2>1 DEF Rx
<1>9. /\ stream \in Seq(0 .. 2) /\ stream' \in Seq(0 .. 2)
      /\ Len(stream') = Len(stream) - 1 /\ Len(stream) \in Nat \ {0}
      /\ \A k \in 1 .. Len(stream') : stream'[k] = stream[k + 1]
      /\ Head(stream) = stream[1] /\ Head(stream) \in 0 .. 2
  <2>1. stream \in Seq(0 .. 2) /\ stream # <<>> /\ stream' = Tail(stream)
    BY <1>1 DEF TestTypes, Receives
  <2> QED BY <2>1
<1>10. Head(stream) = Pattern(rx.at)
  <2>1. 1 \in 1 .. Len(stream) /\ At + ReceivedLines + 1 - 1 = rx.at
    BY <1>3, <1>4, <1>9 DEF Rx
  <2> QED BY <1>9, <2>1 DEF TestInv, TestStream
<1>11. \A l \in Lines :
         mem'[l] = (IF l = rx.at THEN Pattern(rx.at) ELSE mem[l])
  BY <1>1, <1>2, <1>10 DEF TestTypes
<1>12. TestTypes'
  <2>1. mem' \in [Lines -> 0 .. 2]
    BY <1>1, <1>2, <1>9 DEF TestTypes
  <2> QED BY <1>1, <1>2, <1>5, <1>9, <2>1 DEF TestTypes
<1>13. TestChannels'
  <2>1. rx'.left <= Length' /\ rx'.at = RxBuf' + At' + ReceivedLines'
    <3>1. rx'.left <= Length
      BY <1>3, <1>4, <1>5
    <3>2. At + ReceivedLines + 1 = RxBuf + At + (ReceivedLines + 1)
      BY <1>3
    <3> QED BY <1>4, <1>5, <1>6, <1>7, <3>1, <3>2
  <2>2. rx'.addr = rx.addr /\ rx'.state = rx.state
    BY <1>2, <1>5
  <2> QED BY <1>2, <1>4, <1>6, <2>1, <2>2 DEF TestInv, TestChannels, Receiving
<1>14. TestStream'
  <2>1. Len(stream) = SentLines - ReceivedLines
        /\ \A k \in 1 .. Len(stream) :
             stream[k] = Pattern(At + ReceivedLines + k - 1)
    BY DEF TestInv, TestStream
  <2>2. Len(stream') = SentLines' - ReceivedLines'
    BY <1>3, <1>6, <1>7, <1>9, <2>1
  <2>3. ASSUME NEW k \in 1 .. Len(stream')
        PROVE  stream'[k] = Pattern(At + (ReceivedLines + 1) + k - 1)
    <3>1. k + 1 \in 1 .. Len(stream)
          /\ At + ReceivedLines + (k + 1) - 1
               = At + (ReceivedLines + 1) + k - 1
      BY <1>3, <1>9 DEF Rx
    <3> QED BY <1>9, <2>1, <3>1
  <2> QED BY <1>6, <1>7, <2>2, <2>3 DEF TestStream
<1>15. TestSource'
  <2>1. \A k \in Rx : TxBuf + k \in Lines /\ TxBuf + k # rx.at
    BY <1>3, <1>8 DEF Rx
  <2>2. \A k \in Rx : mem'[TxBuf + k] = mem[TxBuf + k]
    BY <1>11, <2>1
  <2> QED BY <1>2, <1>6, <2>2 DEF TestInv, TestSource, Visible
<1>16. TestTarget'
  <2>1. Target' = Target
    BY <1>2 DEF Target
  <2> QED BY <1>2, <2>1 DEF TestInv, TestTarget
<1>17. TestFilled'
  <2>1. Filled' \subseteq Filled \union {rx.at}
    <3>1. test \in 1 .. 3 /\ place # "cmp" /\ turn \in Int
      BY <1>1, <1>4 DEF TestTypes, Receiving, Rx
    <3>2. CASE test = 1
      <4>1. rx.at = ReceivedLines
        BY <1>3, <1>4, <3>2 DEF At
      <4> QED BY <1>2, <1>3, <1>7, <3>1, <3>2, <4>1 DEF Filled
    <3>3. CASE test = 2
      <4>1. rx.at = turn + ReceivedLines
        BY <1>4, <3>3 DEF At
      <4>2. Filled = 0 .. turn + ReceivedLines - 1
            /\ Filled' = 0 .. turn + (ReceivedLines + 1) - 1
        BY <1>2, <1>7, <3>1, <3>3 DEF Filled
      <4> QED BY <1>3, <3>1, <4>1, <4>2
    <3>4. CASE test = 3
      BY <1>2, <3>4 DEF Filled, Rx
    <3> QED BY <3>1, <3>2, <3>3, <3>4
  <2>2. \A k \in Filled : k \in Lines /\ mem[k] = Pattern(k)
    BY <1>3, <1>8 DEF TestInv, TestFilled
  <2>3. mem'[rx.at] = Pattern(rx.at)
    BY <1>8, <1>11
  <2> QED BY <1>11, <2>1, <2>2, <2>3 DEF TestFilled
<1>18. TestStale'
  <2>1. place \in Invalidated /\ rx.at \in pending
    <3>1. At + ReceivedLines <= rx.at /\ rx.at < At + Length
      BY <1>3, <1>4, <1>7
    <3> QED BY <1>4, <1>8, <3>1 DEF TestInv, TestStale, Invalidated
  <2>2. \A l \in Lines :
          cache'[l].state = "clean" /\ cache'[l].val # mem'[l] => l \in early'
    BY <1>2, <1>11, <2>1 DEF TestInv, TestStale, Absent
  <2>3. \A l \in pending' : cache'[l] # Absent => l \in early'
    BY <1>2 DEF TestInv, TestStale
  <2>4. \A k \in Rx : At' + ReceivedLines' <= k /\ k < At' + Length'
          => k \in pending'
    <3> SUFFICES ASSUME NEW k \in Rx, At + (ReceivedLines + 1) <= k,
                        k < At + Length
                 PROVE  k \in pending'
      BY <1>6, <1>7
    <3>1. k \in Int /\ rx.at = At + ReceivedLines
      BY <1>3, <1>4 DEF Rx
    <3>2. At + ReceivedLines <= k /\ k # rx.at
      BY <1>3, <3>1
    <3>3. k \in pending
      BY <2>1, <3>2 DEF TestInv, TestStale
    <3> QED BY <1>2, <3>2, <3>3
  <2>5. test' = 3 =>
          \A k \in Rx : cache'[k] # Absent => cache'[k].val = Pattern(k)
    BY <1>2, <2>1 DEF TestInv, TestStale
  <2> QED BY <2>2, <2>3, <2>4, <2>5 DEF TestStale
<1> QED BY <1>12, <1>13, <1>14, <1>15, <1>16, <1>17, <1>18 DEF TestInv

LEMMA DoneInv ==
  TestInv /\ (TxDone \/ RxDone)
    /\ UNCHANGED <<place, test, turn, stream, loads>>
  => TestInv'
<1> SUFFICES ASSUME TestInv, TxDone \/ RxDone,
                    UNCHANGED <<place, test, turn, stream, loads>>
             PROVE  TestInv'
  OBVIOUS
<1>1. TestTypes
  BY DEF TestInv
<1>2. /\ mem' = mem /\ cache' = cache
      /\ place' = place /\ test' = test /\ turn' = turn
      /\ stream' = stream /\ pending' = pending /\ early' = early
      /\ \/ /\ tx.state = "busy" /\ tx.left = 0
            /\ tx' = [tx EXCEPT !.state = "idle"] /\ rx' = rx
         \/ /\ rx.state = "busy" /\ rx.left = 0
            /\ rx' = [rx EXCEPT !.state = "idle"] /\ tx' = tx
  BY DEF TxDone, RxDone, loads
<1>3. /\ tx' \in Channel /\ tx'.left = tx.left /\ tx'.at = tx.at
      /\ tx'.addr = tx.addr /\ (tx'.state = tx.state \/ tx'.state = "idle")
      /\ rx' \in Channel /\ rx'.left = rx.left /\ rx'.at = rx.at
      /\ rx'.addr = rx.addr /\ (rx'.state = rx.state \/ rx'.state = "idle")
  BY <1>1, <1>2 DEF TestTypes, Channel
<1>4. /\ At' = At /\ Length' = Length
      /\ TxBuf' = TxBuf /\ RxBuf' = RxBuf
  BY <1>2 DEF At, Length, TxBuf, RxBuf
<1>5. SentLines' = SentLines /\ ReceivedLines' = ReceivedLines
  <2>1. Length \in Int
    BY <1>1, TransferInBuffers
  <2>2. tx'.state # tx.state => tx.state = "busy" /\ tx.left = 0
    BY <1>2
  <2>3. rx'.state # rx.state => rx.state = "busy" /\ rx.left = 0
    BY <1>2
  <2> QED BY <1>2, <1>3, <1>4, <2>1, <2>2, <2>3 DEF SentLines, ReceivedLines
<1>6. TestTypes'
  BY <1>1, <1>2, <1>3 DEF TestTypes
<1>7. TestChannels'
  BY <1>2, <1>3, <1>4, <1>5 DEF TestInv, TestChannels, Sending, Receiving
<1>8. TestStream'
  BY <1>2, <1>4, <1>5 DEF TestInv, TestStream
<1>9. Target' = Target /\ Filled' = Filled
  BY <1>2, <1>5 DEF Target, Filled
<1>10. TestSource' /\ TestTarget' /\ TestFilled' /\ TestStale'
  BY <1>2, <1>4, <1>5, <1>9, DataKept
<1> QED BY <1>6, <1>7, <1>8, <1>10 DEF TestInv

(* The cache on its own account.                                           *)
LEMMA CacheInv == TestInv /\ TestCache => TestInv'
<1> SUFFICES ASSUME TestInv, NEW l \in Lines,
                    \/ /\ CacheFill(l)
                       /\ early' = early \union ({l} \intersect pending)
                    \/ CacheEvict(l) /\ early' = early \ {l},
                    UNCHANGED <<tx, rx, place, test, turn, stream, pending>>
             PROVE  TestInv'
  BY DEF TestCache
<1>1. TestTypes
  BY DEF TestInv
<1>2. /\ At' = At /\ Length' = Length
      /\ SentLines' = SentLines /\ ReceivedLines' = ReceivedLines
  BY DEF At, Length, SentLines, ReceivedLines
<1>3. TestChannels'
  BY <1>2 DEF TestInv, TestChannels, TxBuf, RxBuf
<1>4. TestStream'
  BY <1>2 DEF TestInv, TestStream
<1>5. Target' = Target /\ Filled' = Filled
  BY <1>2 DEF Target, Filled
<1>6. /\ Rx \subseteq Lines /\ \A k \in Rx : TxBuf + k \in Lines
      /\ Target \subseteq Rx /\ Filled \subseteq Target
  BY <1>1, TransferInBuffers, LinesCounted DEF Rx
<1>7. CASE CacheFill(l) /\ early' = early \union ({l} \intersect pending)
  <2>1. /\ cache[l] = Absent /\ mem' = mem
        /\ cache' = [cache EXCEPT ![l] = Clean(mem[l])]
    BY <1>7 DEF CacheFill
  <2>2. \A k \in Lines :
          cache'[k] = (IF k = l THEN Clean(mem[l]) ELSE cache[k])
    BY <1>1, <2>1 DEF TestTypes
  <2>3. /\ Clean(mem[l]) # Absent /\ Clean(mem[l]).state = "clean"
        /\ Clean(mem[l]).val = mem[l]
    BY DEF Clean, Absent
  <2>4. TestTypes'
    <3>1. mem[l] \in 0 .. 2
      BY <1>1 DEF TestTypes
    <3>2. Clean(mem[l]) \in CachedLine(0 .. 2)
      BY <3>1 DEF Clean, CachedLine
    <3> QED BY <1>1, <1>7, <2>1, <3>2 DEF TestTypes
  <2>5. TestSource'
    BY <1>2, <1>6, <2>1, <2>2, <2>3 DEF TestInv, TestSource, Visible, TxBuf
  <2>6. TestTarget' /\ TestFilled'
    BY <1>5, <1>6, <2>1, <2>2, <2>3 DEF TestInv, TestTarget, TestFilled
  <2>7. TestStale'
    <3>1. \A k \in Lines :
            cache'[k].state = "clean" /\ cache'[k].val # mem'[k] =>
              k \in early'
      BY <1>7, <2>1, <2>2, <2>3 DEF TestInv, TestStale
    <3>2. \A k \in pending' : cache'[k] # Absent => k \in early'
      BY <1>1, <1>6, <1>7, <2>2 DEF TestInv, TestStale, TestTypes
    <3>3. test = 3 =>
            \A k \in Rx : mem[k] = Pattern(k)
      <4>1. test = 3 => Filled = Rx
        BY DEF Filled
      <4> QED BY <4>1 DEF TestInv, TestFilled
    <3>4. test' = 3 /\ place' \in Invalidated \union {"cmp"} =>
            \A k \in Rx : cache'[k] # Absent => cache'[k].val = Pattern(k)
      BY <1>6, <2>2, <2>3, <3>3 DEF TestInv, TestStale
    <3> QED BY <1>2, <3>1, <3>2, <3>4 DEF TestInv, TestStale
  <2> QED BY <1>3, <1>4, <2>4, <2>5, <2>6, <2>7 DEF TestInv
<1>8. CASE CacheEvict(l) /\ early' = early \ {l}
  <2>1. CacheDrop({l}) /\ mem' = WrittenBack({l})
    BY <1>8 DEF CacheEvict
  <2>2. TestTypes'
    BY <1>1, <1>8, <2>1, Maintained DEF TestTypes
  <2>3. cache'[l] = Absent
    BY <1>1, <2>1, Maintained
  <2>4. /\ \A k \in Rx :
             IF cache'[TxBuf + k] = Absent
             THEN mem'[TxBuf + k] = Pattern(k)
             ELSE cache'[TxBuf + k].val = Pattern(k)
        /\ \A k \in Lines : cache'[k] # Absent => cache'[k] = cache[k]
        /\ \A k \in Lines :
             cache[k].state # "dirty" => cache'[k].state # "dirty"
        /\ \A k \in Lines : cache'[k].state = "clean" => mem'[k] = mem[k]
        /\ \A k \in Target : cache'[k].state # "dirty"
        /\ \A k \in Filled : mem'[k] = Pattern(k)
    BY <2>1, MaintainedInv
  <2>5. TestSource'
    BY <1>2, <1>6, <2>4 DEF TestInv, TestSource, Visible
  <2>6. TestTarget' /\ TestFilled'
    BY <1>5, <2>4 DEF TestTarget, TestFilled
  <2>7. TestStale'
    <3>1. \A k \in Lines :
            cache'[k].state = "clean" /\ cache'[k].val # mem'[k] =>
              k \in early'
      BY <1>8, <2>3, <2>4 DEF TestInv, TestStale, Absent
    <3>2. \A k \in pending' : cache'[k] # Absent => k \in early'
      BY <1>1, <1>6, <1>8, <2>3, <2>4 DEF TestInv, TestStale, TestTypes
    <3>3. test' = 3 /\ place' \in Invalidated \union {"cmp"} =>
            \A k \in Rx : cache'[k] # Absent => cache'[k].val = Pattern(k)
      BY <1>6, <2>4 DEF TestInv, TestStale
    <3> QED BY <1>2, <3>1, <3>2, <3>3 DEF TestInv, TestStale
  <2> QED BY <1>3, <1>4, <2>2, <2>5, <2>6, <2>7 DEF TestInv
<1> QED BY <1>7, <1>8

LEMMA TestStutters == TestInv /\ UNCHANGED testVars => TestInv'
<1> SUFFICES ASSUME TestInv, UNCHANGED testVars PROVE TestInv'
  OBVIOUS
<1>1. /\ mem' = mem /\ cache' = cache /\ tx' = tx /\ rx' = rx
      /\ place' = place /\ test' = test /\ turn' = turn
      /\ stream' = stream /\ pending' = pending /\ early' = early
  BY DEF testVars, loads
<1>2. /\ At' = At /\ Length' = Length
      /\ TxBuf' = TxBuf /\ RxBuf' = RxBuf
      /\ SentLines' = SentLines /\ ReceivedLines' = ReceivedLines
  BY <1>1 DEF At, Length, SentLines, ReceivedLines, TxBuf, RxBuf
<1>3. TestTypes' /\ TestChannels' /\ TestStream'
  BY <1>1, <1>2 DEF TestInv, TestTypes, TestChannels, TestStream
<1>4. Target' = Target /\ Filled' = Filled
  BY <1>1, <1>2 DEF Target, Filled
<1>5. TestSource' /\ TestTarget' /\ TestFilled' /\ TestStale'
  BY <1>1, <1>2, <1>4, DataKept
<1> QED BY <1>3, <1>5 DEF TestInv

LEMMA TestNextInv == TestInv /\ [TestNext]_testVars => TestInv'
<1> SUFFICES ASSUME TestInv, [TestNext]_testVars PROVE TestInv'
  OBVIOUS
<1>1. CASE CallDmaSnd
  BY <1>1, SndFlushInv, SndAddrInv, SndLengthInv DEF CallDmaSnd
<1>2. CASE CallDmaRcv
  BY <1>2, RcvInvalidateInv, RcvAddrInv, RcvLengthInv DEF CallDmaRcv
<1>3. CASE CallDmaSndWait
  BY <1>3, SndWaitInv
<1>4. CASE CallDmaRcvWait
  BY <1>4, RcvWaitInv
<1>5. CASE Compare
  BY <1>5, CompareInv
<1>6. CASE FlushAll
  BY <1>6, FlushAllInv
<1>7. CASE InvalidateAll
  BY <1>7, InvalidateAllInv
<1>8. CASE Loopback
  BY <1>8, SendsInv, ReceivesInv, DoneInv
     DEF Loopback, Sends, Receives, loads
<1>9. CASE TestCache
  BY <1>9, CacheInv
<1>10. CASE UNCHANGED testVars
  BY <1>10, TestStutters
<1> QED BY <1>1, <1>2, <1>3, <1>4, <1>5, <1>6, <1>7, <1>8, <1>9, <1>10
   DEF TestNext, TestMain

LEMMA TestInvariant == ASSUME TwoBuffers PROVE TestSpec => []TestInv
<1>1. TestInit => TestInv
  BY TestInitInv, LoopbackAssumption DEF Sizes
<1> QED BY <1>1, TestNextInv, PTL DEF TestSpec

(* What dma_test sent is in dma_rx_buf when it compares, whatever the      *)
(* cache wrote back or loaded while the transfers ran.                     *)
THEOREM Delivers ==
  ASSUME TwoBuffers
  PROVE  TestSpec => []Delivered
<1>1. TestInv => Delivered
  BY DEF TestInv, TestTypes, TestFilled, Filled, Delivered, Compared,
         RxBuf, Rx
<1> QED BY <1>1, TestInvariant, PTL

(* And a comparison fails only for a line that was loaded early, before    *)
(* the third test.                                                         *)
THEOREM ErrsOnlyIfEarly ==
  ASSUME TwoBuffers
  PROVE  TestSpec => []ErrorOnlyIfEarly
<1>1. TestInv => ErrorOnlyIfEarly
  <2> SUFFICES ASSUME TestInv, place = "cmp", NEW k \in Compared,
                      Visible(RxBuf + k) # Pattern(k)
               PROVE  RxBuf + k \in early /\ test # 3
    BY DEF ErrorOnlyIfEarly
  <2>1. TestTypes
    BY DEF TestInv
  <2>2. RxBuf + k = k /\ k \in Rx /\ k \in Lines /\ k \in Target
    BY <2>1, TransferInBuffers
       DEF TestTypes, Compared, Target, Rx, Invalidated
  <2>3. mem[k] = Pattern(k)
    BY <2>1 DEF TestInv, TestTypes, TestFilled, Filled, Compared, Rx
  <2>4. cache[k] # Absent /\ cache[k].val # Pattern(k)
    BY <2>2, <2>3 DEF Visible
  <2>5. cache[k].state = "clean"
    BY <2>1, <2>2, <2>4 DEF TestInv, TestTarget, TestTypes, CachedLine
  <2> QED BY <2>2, <2>3, <2>4, <2>5 DEF TestInv, TestStale
<1> QED BY <1>1, TestInvariant, PTL
=============================================================================
