------------------------ MODULE AudioStreamerProofs ------------------------
(***************************************************************************)
(* The safety properties of AudioStreamer hold for every buffer that is a  *)
(* whole number (two or more) of transfers, every set of peers, every      *)
(* number of transmit descriptors and every set of faults.                 *)
(***************************************************************************)
EXTENDS AudioStreamer, SequenceTheorems, TLAPS

(* The addresses at which a transfer may start.                            *)
Segments == {ptr \in Offsets : \E i \in 0 .. BuffSize : ptr = i * TransferSize}

(* The handler's state: the engine is where dma_ptr_axi says, one segment  *)
(* after the one handed over, and IOC is pending exactly when it is idle.  *)
DmaInv ==
  /\ irq_en = {} => chan = "off" /\ irq = {}
  /\ irq_en # {} => chan # "off" /\ dma_ptr_axi \in Segments
                      /\ chan_addr = dma_ptr_axi
  /\ "IOC" \in irq <=> chan = "idle"
  /\ handed = 0 <=> dma_ptr_eth = Null
  /\ dma_data_available = 1 => handed > 0
  /\ dma_ptr_eth # Null => /\ irq_en # {}
                           /\ dma_ptr_eth \in Segments
                           /\ dma_ptr_axi = Advance(dma_ptr_eth)

(* How far the engine's pointer has moved, in bytes, since hand-off no.    *)
Travelled(no) == (handed - no + 1) * TransferSize

(* A segment that was hand-off no, and where the engine is relative to it  *)
(* while the ring has not been lapped.                                     *)
Tracks(ptr, no) ==
  /\ ptr \in Segments
  /\ no \in 1 .. handed
  /\ irq_en # {}
  /\ ~ Lapped(no) => \/ dma_ptr_axi = ptr + Travelled(no)
                     \/ dma_ptr_axi = ptr + Travelled(no) - BuffSize

FramesTracked ==
  /\ \A i \in 1 .. Len(tx) : Tracks(tx[i].ptr, tx[i].no)
  /\ pc = "sendto" => Tracks(payload, taken)

(* Which hand-off the main thread may still take, and for whom.            *)
MainInv ==
  /\ pc = "boot" => irq_en = {}
  /\ pc \in Window => handed > 0 /\ remote # NoPeer
                        /\ audio_transfer_enabled = 1
                        /\ dma_data_available = 1
  /\ taken <= handed
  /\ pc \in {"invalidate", "alloc", "payload"} => taken < handed
  /\ pc \in {"input", "check"} /\ dma_data_available = 1 => taken < handed
  /\ pc = "sendto" => \A i \in 1 .. Len(tx) : tx[i].no < taken

CacheInv ==
  /\ pc \in {"alloc", "payload"} => invalidated <= handed
  /\ pc \in {"alloc", "payload"} /\ invalidated = handed
       => dma_ptr_eth \notin stale
  /\ StalePayloadOnlyIfRaced

LossInv ==
  pc \in {"sendto", "clear"} \/ dma_data_available = 0
    => handed \in {taken, excused}

IInv ==
  /\ TypeOK
  /\ DmaInv
  /\ FramesTracked
  /\ MainInv
  /\ FramesInOrder
  /\ CacheInv
  /\ LossInv
-----------------------------------------------------------------------------
(* A transfer that starts on a segment ends inside the buffer: the segment *)
(* number is below BuffSize / TransferSize.                                *)
LEMMA SegmentFits ==
  ASSUME NEW ptr \in Segments
  PROVE  /\ ptr \in Nat
         /\ ptr + TransferSize <= BuffSize
<1>1. PICK k \in 2 .. BuffSize : BuffSize = k * TransferSize
  BY SizesAssumption
<1>2. PICK i \in 0 .. BuffSize : ptr = i * TransferSize
  BY DEF Segments
<1>3. TransferSize \in Nat /\ TransferSize >= 1 /\ BuffSize \in Nat
  BY SizesAssumption
<1>4. ptr \in Nat /\ ptr < BuffSize
  BY <1>3 DEF Segments, Offsets
<1>5. i + 1 <= k
  <2>1. CASE i >= k
    <3>1. i * TransferSize >= k * TransferSize
      BY <2>1, <1>3
    <3>2. QED BY <3>1, <1>1, <1>2, <1>4
  <2>2. QED BY <2>1
<1>6. (i + 1) * TransferSize <= k * TransferSize
  BY <1>5, <1>3
<1>7. (i + 1) * TransferSize = ptr + TransferSize
  BY <1>2, <1>3
<1>8. QED BY <1>1, <1>4, <1>6, <1>7

(* Advance stays on segments, and moves to one that does not overlap.      *)
LEMMA AdvanceOnRing ==
  ASSUME NEW ptr \in Segments
  PROVE  /\ Advance(ptr) \in Segments
         /\ \/ Advance(ptr) = ptr + TransferSize
            \/ Advance(ptr) = 0 /\ ptr + TransferSize = BuffSize
                                /\ ptr >= TransferSize
<1>1. PICK k \in 2 .. BuffSize : BuffSize = k * TransferSize
  BY SizesAssumption
<1>2. PICK i \in 0 .. BuffSize : ptr = i * TransferSize
  BY DEF Segments
<1>3. TransferSize \in Nat /\ TransferSize >= 1 /\ BuffSize \in Nat
  BY SizesAssumption
<1>4. ptr \in Nat /\ ptr + TransferSize <= BuffSize
  BY SegmentFits
<1>5. BuffSize >= 2 * TransferSize
  BY <1>1, <1>3
<1>6. 0 \in Segments
  BY <1>3, <1>5 DEF Segments, Offsets
<1>7. CASE ptr + TransferSize >= BuffSize
  BY <1>3, <1>4, <1>5, <1>6, <1>7 DEF Advance
<1>8. CASE ptr + TransferSize < BuffSize
  <2>1. ptr + TransferSize = (i + 1) * TransferSize
    BY <1>2, <1>3
  <2>2. i < BuffSize
    <3>1. i * TransferSize >= i
      BY <1>3
    <3>2. QED BY <3>1, <1>2, <1>3, <1>4, <1>8
  <2>3. ptr + TransferSize \in Segments
    <3>1. i + 1 \in 0 .. BuffSize /\ ptr + TransferSize \in 0 .. BuffSize - 1
      BY <2>2, <1>3, <1>4, <1>8
    <3>2. \E j \in 0 .. BuffSize : ptr + TransferSize = j * TransferSize
      BY <2>1, <3>1
    <3>3. QED BY <3>1, <3>2 DEF Segments, Offsets
  <2>4. QED BY <2>3, <1>8, <1>3, <1>4 DEF Advance
<1>9. QED BY <1>7, <1>8, <1>3, <1>4

-----------------------------------------------------------------------------
LEMMA InitIInv == Init => IInv
<1> SUFFICES ASSUME Init PROVE IInv
  OBVIOUS
<1> USE DEF Init, DmaInit
<1>1. TypeOK
  BY StreamerAssumption DEF TypeOK, DmaTypeOK, Null, Window
<1>2. DmaInv
  BY DEF DmaInv, Null
<1>3. FramesTracked /\ FramesInOrder
  BY DEF FramesTracked, FramesInOrder
<1>4. MainInv /\ CacheInv /\ LossInv
  BY DEF MainInv, CacheInv, LossInv, StalePayloadOnlyIfRaced, Window
<1>5. QED BY <1>1, <1>2, <1>3, <1>4 DEF IInv

(* A step that leaves the handler's variables alone keeps every segment    *)
(* where it was relative to the engine.                                    *)
LEMMA TracksStable ==
  ASSUME NEW ptr, NEW no, Tracks(ptr, no),
         UNCHANGED <<dma_ptr_axi, irq_en, handed>>
  PROVE  Tracks(ptr, no)'
  BY DEF Tracks, Lapped, Travelled

(* One hand-off later the engine's pointer has moved one segment further.  *)
LEMMA TracksAdvance ==
  ASSUME NEW ptr, NEW no, Tracks(ptr, no),
         handed \in Nat, dma_ptr_axi \in Segments,
         handed' = handed + 1, dma_ptr_axi' = Advance(dma_ptr_axi),
         UNCHANGED irq_en
  PROVE  Tracks(ptr, no)'
<1>1. no \in 1 .. handed /\ ptr \in Segments
  BY DEF Tracks
<1>2. TransferSize \in Nat /\ TransferSize >= 1 /\ BuffSize \in Nat
  BY SizesAssumption
<1>3. /\ ptr \in Nat /\ ptr + TransferSize <= BuffSize
      /\ dma_ptr_axi \in Nat /\ dma_ptr_axi + TransferSize <= BuffSize
  BY <1>1, SegmentFits
<1>4. Travelled(no)' = Travelled(no) + TransferSize /\ Travelled(no) \in Nat
  <2>1. handed' - no + 1 = (handed - no + 1) + 1
    BY <1>1
  <2>2. handed - no + 1 \in Nat
    BY <1>1
  <2>3. \A n \in Nat : (n + 1) * TransferSize = n * TransferSize + TransferSize
                        /\ n * TransferSize \in Nat
    BY <1>2
  <2>4. QED BY <2>1, <2>2, <2>3 DEF Travelled
<1>5. ASSUME ~ Lapped(no)'
      PROVE  \/ dma_ptr_axi' = ptr + Travelled(no)'
             \/ dma_ptr_axi' = ptr + Travelled(no)' - BuffSize
  <2>1. Travelled(no)' < BuffSize
    BY <1>5, <1>4, <1>2 DEF Lapped, Travelled
  <2>2. ~ Lapped(no)
    BY <2>1, <1>4, <1>2 DEF Lapped, Travelled
  <2>3. \/ dma_ptr_axi = ptr + Travelled(no)
        \/ dma_ptr_axi = ptr + Travelled(no) - BuffSize
    BY <2>2 DEF Tracks
  <2>4. QED BY <2>1, <2>3, <1>2, <1>3, <1>4 DEF Advance
<1>6. QED BY <1>1, <1>5 DEF Tracks

(* The distance travelled since a hand-off is a whole segment at least, so *)
(* the engine has left the segment until the ring is lapped.               *)
LEMMA Apart ==
  ASSUME NEW ptr \in Segments, NEW h \in Nat, NEW no \in 1 .. h, NEW axi,
         (h - no + 1) * TransferSize < BuffSize,
         \/ axi = ptr + (h - no + 1) * TransferSize
         \/ axi = ptr + (h - no + 1) * TransferSize - BuffSize
  PROVE  axi # ptr
<1>1. TransferSize \in Nat /\ TransferSize >= 1 /\ BuffSize \in Nat
  BY SizesAssumption
<1>2. h - no + 1 \in Nat /\ h - no + 1 >= 1 /\ ptr \in Nat
  BY SegmentFits
<1>3. \A n \in Nat : n >= 1 => n * TransferSize \in Nat
                                /\ n * TransferSize >= TransferSize
  BY <1>1
<1>4. QED BY <1>1, <1>2, <1>3

LEMMA NotLapped ==
  ASSUME NEW h \in Nat, NEW no \in 1 .. h,
         ~ ((h - no + 1) * TransferSize >= BuffSize)
  PROVE  (h - no + 1) * TransferSize < BuffSize
<1>1. TransferSize \in Nat /\ BuffSize \in Nat /\ h - no + 1 \in Nat
  BY SizesAssumption
<1>2. \A n \in Nat : n * TransferSize \in Nat
  BY <1>1
<1>3. QED BY <1>1, <1>2

-----------------------------------------------------------------------------
(* The main thread's own steps, but for the store that clears the flag,    *)
(* and the Ethernet controller leave the handler's variables alone.        *)
LEMMA DmaUntouched ==
  ASSUME [Next]_vars
  PROVE  \/ StartApplication \/ ClearAvailable \/ Interrupt \/ Engine
         \/ UNCHANGED dmaVars
  BY DEF Next, MainStep, vars, NoInput, RecvCallback, CheckTransfer,
     InvalidateCache, AllocPbuf, AllocPbufFails, SetPayload, UdpSendto,
     Transmit

LEMMA DmaInvStep ==
  ASSUME DmaTypeOK, DmaInv, MainInv, [Next]_vars
  PROVE  DmaTypeOK' /\ DmaInv'
<1> USE DEF DmaTypeOK, DmaInv
<1>1. TransferSize \in Nat /\ TransferSize >= 1 /\ BuffSize \in Nat
  BY SizesAssumption
<1>2. CASE StartApplication
  <2>1. 0 \in Segments
    <3>1. PICK k \in 2 .. BuffSize : BuffSize = k * TransferSize
      BY SizesAssumption
    <3>2. QED BY <1>1, <3>1 DEF Segments, Offsets
  <2>2. 0 \in Offsets
    BY <2>1 DEF Segments
  <2>3. irq_en = {} /\ pc = "boot"
    BY <1>2 DEF MainInv, StartApplication, Goto
  <2>4. CASE DmaItInitSucceeds
    BY <2>1, <2>2, <2>3, <2>4 DEF DmaItInitSucceeds, Null
  <2>5. CASE DmaItInitFails
    BY <2>2, <2>3, <2>5 DEF DmaItInitFails, Null
  <2>6. CASE UNCHANGED dmaVars
    BY <2>6 DEF dmaVars
  <2>7. QED BY <1>2, <2>4, <2>5, <2>6 DEF StartApplication, dmaVars
<1>3. CASE ClearAvailable
  BY <1>3 DEF ClearAvailable
<1>4. CASE Interrupt
  <2>1. /\ "IOC" \in irq /\ chan = "idle" /\ irq' = {}
        /\ dma_ptr_axi \in Segments /\ irq_en # {} /\ irq_en' = irq_en
    BY <1>4 DEF Interrupt, RxIntrHandler
  <2>2. /\ dma_ptr_eth' = dma_ptr_axi /\ dma_data_available' = 1
        /\ dma_ptr_axi' = Advance(dma_ptr_axi)
        /\ chan' = "busy" /\ chan_addr' = Advance(dma_ptr_axi)
        /\ handed' = handed + 1
    BY <1>4, <2>1 DEF Interrupt, RxIntrHandler, SimpleTransfer
  <2>3. Advance(dma_ptr_axi) \in Segments
    BY <2>1, AdvanceOnRing
  <2>4. Segments \subseteq Offsets /\ Null \notin Segments
    BY <1>1 DEF Segments, Offsets, Null
  <2>5. QED BY <2>1, <2>2, <2>3, <2>4
<1>5. CASE Engine
  <2>1. CASE DmaComplete
    BY <2>1 DEF DmaComplete
  <2>2. CASE DmaFault
    BY <2>2 DEF DmaFault
  <2>3. QED BY <1>5, <2>1, <2>2 DEF Engine
<1>6. CASE UNCHANGED dmaVars
  BY <1>6 DEF dmaVars
<1>7. QED BY <1>2, <1>3, <1>4, <1>5, <1>6, DmaUntouched

(* While the main thread runs its window the handler's state is that of a  *)
(* ring that was handed over at least once.                                *)
LEMMA TypeStep ==
  ASSUME TypeOK, DmaInv, MainInv, FramesTracked, [Next]_vars
  PROVE  TypeOK'
<1> USE DEF TypeOK, Window
<1>1. DmaTypeOK'
  BY DmaInvStep
<1>2. 0 \in Offsets
  BY SizesAssumption DEF Offsets
<1>3. CASE StartApplication
  BY <1>1, <1>2, <1>3 DEF StartApplication, Goto, cmdVars, history
<1>4. CASE NoInput
  BY <1>1, <1>4 DEF NoInput, Goto, cmdVars, history
<1>5. ASSUME NEW peer \in Peers, NEW command \in Commands,
             RecvCallback(peer, command)
      PROVE  TypeOK'
  BY <1>1, <1>5 DEF RecvCallback, Goto, cmdVars, history
<1>6. CASE CheckTransfer
  BY <1>1, <1>6 DEF CheckTransfer, cmdVars, history
<1>7. CASE InvalidateCache
  BY <1>1, <1>7 DEF InvalidateCache, Goto, cmdVars, DmaTypeOK
<1>8. CASE AllocPbuf
  BY <1>1, <1>8 DEF AllocPbuf, Goto, cmdVars, history
<1>9. CASE AllocPbufFails
  BY <1>1, <1>9 DEF AllocPbufFails, Goto, cmdVars, DmaTypeOK
<1>10. CASE SetPayload
  BY <1>1, <1>10 DEF SetPayload, Goto, cmdVars, DmaTypeOK
<1>11. CASE UdpSendto
  <2>1. payload \in Offsets /\ remote \in Peers
    BY <1>11 DEF MainInv, FramesTracked, Tracks, Segments, UdpSendto, Goto
  <2>2. [ptr |-> payload, no |-> taken, peer |-> remote] \in Frame
    BY <2>1 DEF Frame
  <2>3. tx' \in Seq(Frame) /\ Len(tx') <= TxSlots
    BY <1>11, <2>2, AppendProperties, LenProperties, StreamerAssumption
       DEF UdpSendto
  <2>4. QED BY <1>1, <1>11, <2>3 DEF UdpSendto, Goto, cmdVars, history
<1>12. CASE ClearAvailable
  BY <1>1, <1>12 DEF ClearAvailable, Goto, cmdVars, history
<1>13. CASE Interrupt
  <2>1. chan' = "busy" => chan_addr' \in Offsets
    BY <1>1, DmaInvStep DEF DmaInv, Segments
  <2>2. QED BY <1>1, <1>13, <2>1 DEF Interrupt, cmdVars, DmaTypeOK
<1>14. CASE Engine
  BY <1>1, <1>14 DEF Engine, mainVars, cmdVars, history
<1>15. CASE Transmit
  <2>1. tx' \in Seq(Frame) /\ Len(tx') <= TxSlots
    BY <1>15, HeadTailProperties, LenProperties, StreamerAssumption
       DEF Transmit
  <2>2. QED BY <1>1, <1>15, <2>1 DEF Transmit, cmdVars, history
<1>16. CASE UNCHANGED vars
  BY <1>1, <1>16 DEF vars, mainVars, cmdVars, history
<1>17. QED BY <1>3, <1>4, <1>5, <1>6, <1>7, <1>8, <1>9, <1>10, <1>11, <1>12,
              <1>13, <1>14, <1>15, <1>16 DEF Next, MainStep

-----------------------------------------------------------------------------
(* Every step but a hand-off and the set-up leaves the ring where it is.   *)
LEMMA RingMoves ==
  ASSUME DmaInv, [Next]_vars
  PROVE  \/ StartApplication
         \/ /\ Interrupt
            /\ dma_ptr_axi \in Segments
            /\ handed' = handed + 1
            /\ dma_ptr_eth' = dma_ptr_axi
            /\ dma_ptr_axi' = Advance(dma_ptr_axi)
            /\ dma_data_available' = 1
            /\ chan' = "busy"
            /\ chan_addr' = dma_ptr_axi'
            /\ UNCHANGED irq_en
         \/ UNCHANGED <<dma_ptr_axi, dma_ptr_eth, irq_en, handed>>
<1>1. CASE StartApplication
  BY <1>1
<1>2. CASE ClearAvailable
  BY <1>2 DEF ClearAvailable
<1>3. CASE Interrupt
  BY <1>3 DEF Interrupt, RxIntrHandler, SimpleTransfer, DmaInv
<1>4. CASE Engine
  BY <1>4 DEF Engine, DmaComplete, DmaFault
<1>5. CASE UNCHANGED dmaVars
  BY <1>5 DEF dmaVars
<1>6. QED BY <1>1, <1>2, <1>3, <1>4, <1>5, DmaUntouched

(* A frame stays tracked over any step once the application has started.   *)
LEMMA TracksStep ==
  ASSUME TypeOK, DmaInv, MainInv, [Next]_vars,
         NEW ptr, NEW no, Tracks(ptr, no)
  PROVE  Tracks(ptr, no)'
<1>1. handed \in Nat
  BY DEF TypeOK, DmaTypeOK
<1>2. ~ StartApplication
  BY DEF StartApplication, Goto, MainInv, Tracks
<1>3. CASE UNCHANGED <<dma_ptr_axi, dma_ptr_eth, irq_en, handed>>
  BY <1>3, TracksStable
<1>4. CASE /\ dma_ptr_axi \in Segments /\ handed' = handed + 1
           /\ dma_ptr_axi' = Advance(dma_ptr_axi) /\ UNCHANGED irq_en
  BY <1>1, <1>4, TracksAdvance
<1>5. QED BY <1>2, <1>3, <1>4, RingMoves

LEMMA FramesStep ==
  ASSUME TypeOK, DmaInv, MainInv, FramesTracked, FramesInOrder, [Next]_vars
  PROVE  FramesTracked' /\ FramesInOrder'
<1>1. \A ptr, no : Tracks(ptr, no) => Tracks(ptr, no)'
  BY TracksStep
<1>2. tx \in Seq(Frame) /\ Len(tx) \in Nat /\ taken \in Nat /\ handed \in Nat
  BY LenProperties DEF TypeOK, DmaTypeOK
<1>3. CASE SetPayload
  <2>1. Tracks(dma_ptr_eth, handed)'
    <3>1. /\ handed > 0 /\ dma_ptr_eth \in Segments /\ irq_en # {}
          /\ dma_ptr_axi = Advance(dma_ptr_eth)
      BY <1>3 DEF DmaInv, MainInv, Window, SetPayload, Goto
    <3>2. TransferSize \in Nat /\ BuffSize \in Nat
      BY SizesAssumption
    <3>3. Travelled(handed) = TransferSize /\ handed \in 1 .. handed
      BY <1>2, <3>1, <3>2 DEF Travelled
    <3>4. /\ \/ dma_ptr_axi = dma_ptr_eth + TransferSize
             \/ dma_ptr_axi = dma_ptr_eth + TransferSize - BuffSize
      BY <3>1, <3>2, AdvanceOnRing, SegmentFits
    <3>5. Tracks(dma_ptr_eth, handed)
      BY <3>1, <3>3, <3>4 DEF Tracks
    <3>6. UNCHANGED <<dma_ptr_axi, irq_en, handed, dma_ptr_eth>>
      BY <1>3 DEF SetPayload, dmaVars
    <3>7. QED BY <3>5, <3>6, <1>1 DEF Tracks, Lapped, Travelled
  <2>2. payload' = dma_ptr_eth /\ taken' = handed
        /\ UNCHANGED <<dma_ptr_eth, handed, tx>>
    BY <1>3 DEF SetPayload, dmaVars
  <2>3. FramesTracked'
    BY <1>1, <2>1, <2>2 DEF FramesTracked
  <2>4. taken < handed
    BY <1>3 DEF SetPayload, Goto, MainInv
  <2>5. FramesInOrder'
    BY <1>2, <2>2, <2>4 DEF FramesInOrder, FramesTracked, Tracks
  <2>6. QED BY <2>3, <2>5
<1>4. CASE UdpSendto
  <2> DEFINE f == [ptr |-> payload, no |-> taken, peer |-> remote]
  <2>1. pc = "sendto" /\ pc' = "clear" /\ UNCHANGED <<payload, taken>>
    BY <1>4 DEF UdpSendto, Goto, history
  <2>2. CASE UNCHANGED tx
    BY <1>1, <2>1, <2>2 DEF FramesTracked, FramesInOrder
  <2>3. CASE tx' = Append(tx, f)
    <3>1. Tracks(payload, taken) /\ \A i \in 1 .. Len(tx) : tx[i].no < taken
      BY <2>1 DEF FramesTracked, MainInv
    <3>2. f \in Frame
      <4>1. payload \in Offsets /\ remote \in Peers
        BY <3>1, <2>1 DEF Tracks, Segments, MainInv, Window, TypeOK
      <4>2. QED BY <4>1, <1>2 DEF Frame
    <3>3. /\ Len(tx') = Len(tx) + 1
          /\ \A i \in 1 .. Len(tx) : tx'[i] = tx[i]
          /\ tx'[Len(tx) + 1] = f
      BY <1>2, <2>3, <3>2, AppendProperties
    <3>4. ASSUME NEW i \in 1 .. Len(tx')
          PROVE  i \in 1 .. Len(tx) \/ i = Len(tx) + 1
      BY <3>3, <1>2
    <3>5. f.ptr = payload /\ f.no = taken
      OBVIOUS
    <3>6. FramesTracked'
      BY <1>1, <2>1, <3>1, <3>3, <3>4, <3>5 DEF FramesTracked
    <3>7. FramesInOrder'
      <4>1. \A i \in 1 .. Len(tx') : tx'[i].no <= taken
        BY <1>2, <3>1, <3>3, <3>4, <3>5 DEF FramesInOrder
      <4>2. ASSUME NEW i \in 1 .. Len(tx'), NEW j \in 1 .. Len(tx'), i < j
            PROVE  tx'[i].no < tx'[j].no
        <5>1. i \in 1 .. Len(tx)
          BY <4>2, <3>3, <1>2
        <5>2. CASE j \in 1 .. Len(tx)
          BY <5>1, <5>2, <4>2, <3>3 DEF FramesInOrder
        <5>3. CASE j = Len(tx) + 1
          BY <5>1, <5>3, <3>1, <3>3, <3>5
        <5>4. QED BY <5>2, <5>3, <3>4
      <4>3. QED BY <4>1, <4>2, <2>1 DEF FramesInOrder
    <3>8. QED BY <3>6, <3>7
  <2>4. QED BY <1>4, <2>2, <2>3 DEF UdpSendto
<1>5. CASE Transmit
  <2>1. /\ Len(tx') = Len(tx) - 1
        /\ \A i \in 1 .. Len(tx') : tx'[i] = tx[i + 1] /\ i + 1 \in 1 .. Len(tx)
    BY <1>2, <1>5, HeadTailProperties DEF Transmit
  <2>2. UNCHANGED <<pc, payload, taken>>
    BY <1>5 DEF Transmit, history
  <2>3. FramesTracked'
    BY <1>1, <2>1, <2>2 DEF FramesTracked
  <2>4. FramesInOrder'
    <3>1. \A i \in 1 .. Len(tx') : tx'[i].no <= taken
      BY <2>1 DEF FramesInOrder
    <3>2. ASSUME NEW i \in 1 .. Len(tx'), NEW j \in 1 .. Len(tx'), i < j
          PROVE  tx'[i].no < tx'[j].no
      <4>1. i + 1 < j + 1
        BY <3>2, <2>1, <1>2
      <4>2. QED BY <4>1, <2>1 DEF FramesInOrder
    <3>3. QED BY <3>1, <3>2, <2>2 DEF FramesInOrder
  <2>5. QED BY <2>3, <2>4
<1>6. CASE UNCHANGED <<tx, payload, taken>> /\ (pc' = "sendto" => pc = "sendto")
  BY <1>1, <1>6 DEF FramesTracked, FramesInOrder
<1>7. CASE CheckTransfer
  BY <1>1, <1>7 DEF CheckTransfer, history, FramesTracked, FramesInOrder
<1>8. QED
  BY <1>3, <1>4, <1>5, <1>6, <1>7
     DEF Next, MainStep, vars, mainVars, cmdVars, history, Goto,
         StartApplication, NoInput, RecvCallback, InvalidateCache, AllocPbuf,
         AllocPbufFails, ClearAvailable, Interrupt, Engine

-----------------------------------------------------------------------------
LEMMA MainInvStep ==
  ASSUME TypeOK, DmaInv, MainInv, FramesInOrder, [Next]_vars
  PROVE  MainInv'
<1> USE DEF MainInv, Window
<1>1. handed \in Nat /\ taken \in Nat /\ dma_data_available \in {0, 1}
  BY DEF TypeOK, DmaTypeOK
<1>2. CASE StartApplication
  <2>1. irq_en = {} /\ pc = "boot" /\ pc' = "input" /\ handed = 0
        /\ dma_data_available = 0
    BY <1>1, <1>2 DEF StartApplication, Goto, DmaInv
  <2>2. UNCHANGED <<dma_data_available, handed, taken, tx>>
    BY <1>2 DEF StartApplication, DmaItInitSucceeds, DmaItInitFails, dmaVars,
       history
  <2>3. QED BY <1>1, <2>1, <2>2
<1>3. CASE NoInput
  BY <1>3 DEF NoInput, Goto, dmaVars, cmdVars, history
<1>4. ASSUME NEW peer \in Peers, NEW command \in Commands,
             RecvCallback(peer, command)
      PROVE  MainInv'
  BY <1>4 DEF RecvCallback, Goto, dmaVars, history
<1>5. CASE CheckTransfer
  BY <1>5, <1>1 DEF CheckTransfer, dmaVars, cmdVars, history, DmaInv
<1>6. CASE InvalidateCache
  BY <1>6 DEF InvalidateCache, Goto, dmaVars, cmdVars
<1>7. CASE AllocPbuf
  BY <1>7 DEF AllocPbuf, Goto, dmaVars, cmdVars, history
<1>8. CASE AllocPbufFails
  BY <1>8 DEF AllocPbufFails, Goto, dmaVars, cmdVars
<1>9. CASE SetPayload
  <2>1. UNCHANGED <<dmaVars, cmdVars, tx>> /\ taken' = handed
        /\ pc = "payload" /\ pc' = "sendto"
    BY <1>9 DEF SetPayload, Goto
  <2>2. \A i \in 1 .. Len(tx) : tx[i].no < handed
    <3>1. ASSUME NEW i \in 1 .. Len(tx) PROVE tx[i].no < handed
      <4>1. tx[i] \in Frame
        BY ElementOfSeq DEF TypeOK
      <4>2. tx[i].no \in Nat /\ tx[i].no <= taken
        BY <4>1 DEF Frame, FramesInOrder
      <4>3. taken < handed
        BY <2>1
      <4>4. QED BY <4>2, <4>3, <1>1
    <3>2. QED BY <3>1
  <2>3. QED BY <1>1, <2>1, <2>2 DEF dmaVars, cmdVars
<1>10. CASE UdpSendto
  BY <1>10 DEF UdpSendto, Goto, dmaVars, cmdVars, history
<1>11. CASE ClearAvailable
  BY <1>11 DEF ClearAvailable, Goto, history
<1>12. CASE Interrupt
  <2>1. handed' = handed + 1 /\ dma_data_available' = 1 /\ irq_en # {}
        /\ UNCHANGED irq_en
    BY <1>12 DEF Interrupt, RxIntrHandler, TypeOK, DmaTypeOK
  <2>2. UNCHANGED <<pc, taken, tx, remote, audio_transfer_enabled>>
    BY <1>12 DEF Interrupt, cmdVars
  <2>3. QED BY <1>1, <2>1, <2>2
<1>13. CASE Engine
  BY <1>13 DEF Engine, DmaComplete, DmaFault, mainVars, cmdVars, history
<1>14. CASE Transmit
  <2>1. \A i \in 1 .. Len(tx') : tx'[i] = tx[i + 1] /\ i + 1 \in 1 .. Len(tx)
    BY <1>14, HeadTailProperties, LenProperties DEF Transmit, TypeOK
  <2>2. UNCHANGED <<dmaVars, pc, cmdVars, history>>
    BY <1>14 DEF Transmit
  <2>3. QED BY <2>1, <2>2 DEF dmaVars, cmdVars, history
<1>15. CASE UNCHANGED vars
  BY <1>15 DEF vars, mainVars, dmaVars, cmdVars, history
<1>16. QED BY <1>2, <1>3, <1>4, <1>5, <1>6, <1>7, <1>8, <1>9, <1>10, <1>11,
              <1>12, <1>13, <1>14, <1>15 DEF Next, MainStep

LEMMA LossStep ==
  ASSUME TypeOK, DmaInv, MainInv, LossInv, [Next]_vars
  PROVE  LossInv'
<1> USE DEF LossInv
<1>1. CASE SetPayload
  BY <1>1 DEF SetPayload, dmaVars
<1>2. CASE AllocPbufFails
  BY <1>2 DEF AllocPbufFails, dmaVars
<1>3. CASE Interrupt
  BY <1>3 DEF Interrupt, RxIntrHandler, DmaInv, Window
<1>4. CASE ClearAvailable
  BY <1>4 DEF ClearAvailable, Goto, history
<1>5. CASE UdpSendto
  BY <1>5 DEF UdpSendto, Goto, history, dmaVars
<1>6. CASE UNCHANGED <<dma_data_available, handed, taken, excused>>
           /\ (pc' \in {"sendto", "clear"} => pc \in {"sendto", "clear"})
  BY <1>6
<1>7. QED
  BY <1>1, <1>2, <1>3, <1>4, <1>5, <1>6
     DEF Next, MainStep, vars, mainVars, dmaVars, history, Goto,
         StartApplication, DmaItInitSucceeds, DmaItInitFails, NoInput,
         RecvCallback, CheckTransfer, InvalidateCache, AllocPbuf, Engine,
         DmaComplete, DmaFault, Transmit

LEMMA CacheStep ==
  ASSUME TypeOK, DmaInv, MainInv, FramesTracked, CacheInv, [Next]_vars
  PROVE  CacheInv'
<1> USE DEF CacheInv, StalePayloadOnlyIfRaced
<1>1. handed \in Nat /\ taken \in Nat /\ invalidated \in Nat
  BY DEF TypeOK, DmaTypeOK
<1>2. CASE InvalidateCache
  <2>1. pc = "invalidate" /\ pc' = "alloc" /\ UNCHANGED dmaVars
        /\ stale' = stale \ ({dma_ptr_eth} \ Writing) /\ invalidated' = handed
    BY <1>2 DEF InvalidateCache, Goto
  <2>2. dma_ptr_eth \in Segments /\ irq_en # {}
        /\ dma_ptr_axi = Advance(dma_ptr_eth) /\ chan_addr = dma_ptr_axi
    BY <1>1, <2>1 DEF MainInv, DmaInv, Window
  <2>3. dma_ptr_eth \notin Writing
    BY <2>2, AdvanceOnRing, SegmentFits, SizesAssumption DEF Writing
  <2>4. QED BY <1>1, <2>1, <2>3 DEF dmaVars
<1>3. CASE AllocPbuf
  BY <1>3 DEF AllocPbuf, Goto, history, dmaVars
<1>4. CASE SetPayload
  BY <1>4 DEF SetPayload, Goto, dmaVars
<1>5. CASE Interrupt
  <2>1. UNCHANGED <<pc, payload, invalidated, taken>>
        /\ stale' = stale \union {chan_addr'}
        /\ chan_addr' = dma_ptr_axi' /\ handed' = handed + 1
    BY <1>5 DEF Interrupt, RxIntrHandler, SimpleTransfer, DmaInv, TypeOK,
       DmaTypeOK
  <2>2. CASE pc \in {"alloc", "payload"}
    <3>1. invalidated <= handed
      BY <2>2 DEF CacheInv
    <3>2. QED BY <3>1, <2>1, <2>2, <1>1
  <2>3. CASE pc = "sendto"
    <3>1. Tracks(payload, taken)
      BY <2>3 DEF FramesTracked
    <3>2. /\ irq_en' # {} /\ payload \in Segments /\ taken \in 1 .. handed'
          /\ ~ Lapped(taken)' => \/ dma_ptr_axi' = payload + Travelled(taken)'
                                 \/ dma_ptr_axi' = payload + Travelled(taken)'
                                                     - BuffSize
      <4>1. Tracks(payload, taken)'
        BY <3>1, <2>1, TracksStep DEF Tracks, Lapped, Travelled
      <4>2. QED BY <4>1, <2>1 DEF Tracks, Lapped, Travelled
    <3>3. handed' \in Nat /\ taken' = taken
      BY <1>1, <2>1
    <3>4. ~ Lapped(taken)' => dma_ptr_axi' # payload
      <4> SUFFICES ASSUME ~ Lapped(taken)' PROVE dma_ptr_axi' # payload
        OBVIOUS
      <4>1. (handed' - taken + 1) * TransferSize < BuffSize
        BY <3>2, <3>3, NotLapped DEF Lapped
      <4>2. \/ dma_ptr_axi' = payload + (handed' - taken + 1) * TransferSize
            \/ dma_ptr_axi' = payload + (handed' - taken + 1) * TransferSize
                                - BuffSize
        BY <3>2, <3>3 DEF Travelled
      <4>3. QED BY <4>1, <4>2, <3>2, <3>3, Apart
    <3>5. Lapped(taken) => Lapped(taken)'
      <4>1. TransferSize \in Nat /\ BuffSize \in Nat
        BY SizesAssumption
      <4>2. handed - taken + 1 \in Nat /\ taken \in Nat
        BY <1>1, <3>1 DEF Tracks
      <4>3. \A n \in Nat : (n + 1) * TransferSize >= n * TransferSize
                            /\ n * TransferSize \in Nat
        BY <4>1
      <4>4. handed' - taken' + 1 = (handed - taken + 1) + 1
        BY <4>2, <3>3, <2>1, <1>1
      <4>5. (handed' - taken' + 1) * TransferSize
              >= (handed - taken + 1) * TransferSize
        BY <4>2, <4>3, <4>4
      <4>6. (handed - taken + 1) * TransferSize \in Nat
        BY <4>2, <4>3
      <4>7. (handed' - taken' + 1) * TransferSize \in Nat
        BY <4>2, <4>3, <4>4
      <4>8. QED BY <4>1, <4>5, <4>6, <4>7 DEF Lapped
    <3>6. QED BY <3>4, <3>5, <2>1, <2>3
  <2>4. CASE pc \notin {"alloc", "payload", "sendto"}
    BY <2>1, <2>4
  <2>5. QED BY <2>2, <2>3, <2>4
<1>6. CASE /\ UNCHANGED <<dma_ptr_eth, handed, payload, invalidated, taken,
                         stale>>
           /\ pc' = pc \/ pc' \notin {"alloc", "payload", "sendto"}
  BY <1>6 DEF Lapped
<1>7. CASE StartApplication \/ CheckTransfer
  BY <1>7 DEF StartApplication, CheckTransfer, Goto
<1>8. QED
  BY <1>2, <1>3, <1>4, <1>5, <1>6, <1>7
     DEF Next, MainStep, vars, mainVars, dmaVars, history, Goto, NoInput,
         RecvCallback, AllocPbufFails, UdpSendto, ClearAvailable, Engine,
         DmaComplete, DmaFault, Transmit

-----------------------------------------------------------------------------
LEMMA Inductive == IInv /\ [Next]_vars => IInv'
<1> SUFFICES ASSUME IInv, [Next]_vars PROVE IInv'
  OBVIOUS
<1>1. TypeOK' /\ DmaInv'
  BY TypeStep, DmaInvStep DEF IInv, TypeOK
<1>2. FramesTracked' /\ FramesInOrder'
  BY FramesStep DEF IInv
<1>3. MainInv' /\ CacheInv' /\ LossInv'
  BY MainInvStep, CacheStep, LossStep DEF IInv
<1>4. QED BY <1>1, <1>2, <1>3 DEF IInv

LEMMA Invariance == Spec => []IInv
<1>1. QED BY InitIInv, Inductive, PTL DEF Spec

(* Every variable of the streamer keeps its type: in particular no pointer *)
(* computed by RxIntrHandler leaves dma_buffer.                            *)
THEOREM TypeCorrect == Spec => []TypeOK
<1>1. IInv => TypeOK
  BY DEF IInv
<1>2. QED BY <1>1, Invariance, PTL

(* The engine writes inside dma_buffer only, and never into the segment    *)
(* that is handed to the Ethernet task.                                    *)
THEOREM EngineKeepsToRing == Spec => []RingSafe
<1>1. IInv => EngineInBounds /\ EngineAvoidsHandedSegment
  <2> SUFFICES ASSUME IInv, chan = "busy"
               PROVE  EngineInBounds /\ EngineAvoidsHandedSegment
    BY DEF EngineInBounds, EngineAvoidsHandedSegment
  <2>1. chan_addr \in Segments /\ chan_addr = dma_ptr_axi
    BY DEF IInv, DmaInv
  <2>2. EngineInBounds
    BY <2>1, SegmentFits DEF EngineInBounds
  <2>3. dma_ptr_eth # Null => dma_ptr_eth \in Segments
                               /\ chan_addr = Advance(dma_ptr_eth)
    BY <2>1 DEF IInv, DmaInv
  <2>4. EngineAvoidsHandedSegment
    BY <2>3, AdvanceOnRing, SegmentFits, SizesAssumption
       DEF EngineAvoidsHandedSegment
  <2>5. QED BY <2>2, <2>4
<1>2. QED BY <1>1, Invariance, PTL DEF RingSafe

(* A frame the Ethernet controller still refers to is not being rewritten  *)
(* unless the whole ring has gone by since its hand-off.                   *)
THEOREM ZeroCopySafe == Spec => []PayloadIntactUntilLapped
<1>1. IInv => PayloadIntactUntilLapped
  <2> SUFFICES ASSUME IInv, NEW f \in Referenced,
                      chan = "busy", chan_addr = f.ptr, ~ Lapped(f.no)
               PROVE  FALSE
    BY DEF PayloadIntactUntilLapped
  <2>1. Tracks(f.ptr, f.no)
    BY DEF Referenced, IInv, FramesTracked
  <2>2. chan_addr = dma_ptr_axi /\ handed \in Nat
    BY DEF IInv, DmaInv, TypeOK, DmaTypeOK
  <2>3. f.ptr \in Segments /\ f.no \in 1 .. handed
    BY <2>1 DEF Tracks
  <2>4. (handed - f.no + 1) * TransferSize < BuffSize
    BY <2>2, <2>3, NotLapped DEF Lapped
  <2>5. dma_ptr_axi # f.ptr
    BY <2>1, <2>2, <2>3, <2>4, Apart DEF Tracks, Travelled
  <2>6. QED BY <2>2, <2>5
<1>2. QED BY <1>1, Invariance, PTL

(* No hand-off is queued twice or after a newer one.                       *)
THEOREM FramesOrdered == Spec => []FramesInOrder
<1>1. IInv => FramesInOrder
  BY DEF IInv
<1>2. QED BY <1>1, Invariance, PTL

(* The only way to hand udp_sendto a segment with an outdated cached copy  *)
(* is the handler running between the two reads of dma_ptr_eth, or a lap.  *)
THEOREM StaleOnlyByRace == Spec => []StalePayloadOnlyIfRaced
<1>1. IInv => StalePayloadOnlyIfRaced
  BY DEF IInv, CacheInv
<1>2. QED BY <1>1, Invariance, PTL

(* The newest hand-off is lost only to the store that ends transfer_data   *)
(* or to a failed pbuf_alloc.                                              *)
THEOREM LossBounded == Spec => []LossOnlyInsideTransfer
<1>1. IInv => LossOnlyInsideTransfer
  BY DEF IInv, LossInv, LossOnlyInsideTransfer
<1>2. QED BY <1>1, Invariance, PTL

(* The flag, the pointer and the two threads implement the mailbox of      *)
(* LatestHandoff.                                                          *)
THEOREM Refinement == Spec => TakesNewestOnce
<1>1. Init => Mailbox!Init
  BY DEF Init, DmaInit, Mailbox!Init
<1>2. IInv /\ [Next]_vars => [Mailbox!Next]_<<handed, taken, (pc = "sendto")>>
  <2> SUFFICES ASSUME IInv, [Next]_vars
               PROVE  [Mailbox!Next]_<<handed, taken, (pc = "sendto")>>
    OBVIOUS
  <2>1. CASE SetPayload
    <3>1. taken < handed /\ taken' = handed /\ handed' = handed
      BY <2>1 DEF IInv, MainInv, SetPayload, Goto, dmaVars
    <3>2. pc # "sendto" /\ pc' = "sendto"
      BY <2>1 DEF SetPayload, Goto
    <3>3. QED BY <3>1, <3>2 DEF Mailbox!Next, Mailbox!Take
  <2>2. CASE Interrupt
    <3>1. handed' = handed + 1 /\ taken' = taken /\ pc' = pc
      BY <2>2 DEF Interrupt, RxIntrHandler, IInv, TypeOK, DmaTypeOK
    <3>2. QED BY <3>1 DEF Mailbox!Next, Mailbox!Produce
  <2>3. CASE UdpSendto
    <3>1. pc = "sendto" /\ pc' # "sendto" /\ UNCHANGED <<handed, taken>>
      BY <2>3 DEF UdpSendto, Goto, dmaVars, history
    <3>2. QED BY <3>1 DEF Mailbox!Next, Mailbox!Release
  <2>4. CASE UNCHANGED <<handed, taken, (pc = "sendto")>>
    BY <2>4
  <2>5. QED
    BY <2>1, <2>2, <2>3, <2>4
       DEF Next, MainStep, vars, mainVars, dmaVars, history, Goto,
           StartApplication, DmaItInitSucceeds, DmaItInitFails, NoInput,
           RecvCallback, CheckTransfer, InvalidateCache, AllocPbuf,
           AllocPbufFails, ClearAvailable, Engine, DmaComplete,
           DmaFault, Transmit
<1>3. QED BY <1>1, <1>2, Invariance, PTL
          DEF Spec, TakesNewestOnce, Mailbox!Spec

(* After an engine error the stream never resumes.                         *)
THEOREM HaltedForever == Spec => HaltIsFinal
<1>1. IInv /\ [Next]_vars =>
       [chan = "halted" => chan' = "halted" /\ handed' = handed]_vars
  <2> SUFFICES ASSUME IInv, [Next]_vars, chan = "halted"
               PROVE  chan' = "halted" /\ handed' = handed
    OBVIOUS
  <2>1. ~ Interrupt /\ ~ StartApplication
    <3>1. irq_en # {} /\ "IOC" \notin irq /\ irq_en \subseteq {"IOC"}
          /\ pc # "boot"
      BY DEF IInv, DmaInv, MainInv, TypeOK, DmaTypeOK
    <3>2. QED BY <3>1 DEF Interrupt, RxIntrHandler, StartApplication, Goto
  <2>2. CASE ClearAvailable
    BY <2>2 DEF ClearAvailable
  <2>3. CASE Engine
    BY <2>3 DEF Engine, DmaComplete, DmaFault
  <2>4. CASE UNCHANGED dmaVars
    BY <2>4 DEF dmaVars
  <2>5. QED BY <2>1, <2>2, <2>3, <2>4, DmaUntouched
<1>2. QED BY <1>1, Invariance, PTL DEF Spec, HaltIsFinal

(* A frame is only ever queued between a start command and the next stop,  *)
(* and for the host that sent the last start.                              *)
THEOREM SendsWhileStarted == Spec => SendsOnlyWhileStarted
<1> DEFINE Sends == Len(tx') > Len(tx) =>
                      /\ audio_transfer_enabled = 1
                      /\ tx'[Len(tx')].peer = remote
<1>1. IInv /\ [Next]_vars => [Sends]_vars
  <2> SUFFICES ASSUME IInv, [Next]_vars, Len(tx') > Len(tx) PROVE Sends
    OBVIOUS
  <2>1. tx \in Seq(Frame) /\ Len(tx) \in Nat
    BY LenProperties DEF IInv, TypeOK
  <2>2. tx' # tx
    BY <2>1
  <2>3. ~ Transmit
    BY <2>1, HeadTailProperties DEF Transmit
  <2>4. UdpSendto
    BY <2>2, <2>3
       DEF Next, MainStep, vars, mainVars, StartApplication, NoInput,
           RecvCallback, CheckTransfer, InvalidateCache, AllocPbuf,
           AllocPbufFails, SetPayload, ClearAvailable, Interrupt, Engine
  <2>5. pc = "sendto" /\ audio_transfer_enabled = 1
    BY <2>4 DEF UdpSendto, Goto, IInv, MainInv, Window
  <2> DEFINE f == [ptr |-> payload, no |-> taken, peer |-> remote]
  <2>6. tx' = Append(tx, f)
    BY <2>2, <2>4 DEF UdpSendto
  <2>7. Len(tx') = Len(tx) + 1 /\ tx'[Len(tx) + 1] = f
    BY <2>1, <2>6
  <2>8. QED BY <2>5, <2>7
<1>2. QED BY <1>1, Invariance, PTL DEF Spec, SendsOnlyWhileStarted
=============================================================================
