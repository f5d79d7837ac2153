--------------------------- MODULE DmaController ---------------------------
(***************************************************************************)
(* The interrupt driven S2MM side of vitis/echo_server: dma_controller.cpp *)
(* (dma_it_init and RxIntrHandler) together with the channel of the AXI    *)
(* DMA engine they drive.                                                  *)
(*                                                                         *)
(* A pointer into dma_buffer is its byte offset from g_buff; Null is the C *)
(* null pointer.  The interrupt handler runs to completion with respect to *)
(* the main loop (interrupts do not nest), so it is one action; the engine *)
(* cannot finish a transfer before the handler has started it.             *)
(***************************************************************************)
EXTENDS Integers

CONSTANTS
  BuffSize,      \* g_buff_size: bytes of the circular buffer
  TransferSize,  \* g_transfer_size: bytes of one DMA transfer
  MaxBlocks,     \* bound: transfers the engine completes in a behaviour
  Faults         \* which external failures may happen, of FaultKinds

FaultKinds == {"init", "dma", "alloc", "send"}

(* application.cpp passes 16 * 1024 and 1024: the buffer holds a whole     *)
(* number of transfers, and more than one of them.                         *)
ASSUME SizesAssumption ==
  /\ TransferSize \in Nat \ {0}
  /\ BuffSize \in Nat
  /\ \E k \in 2 .. BuffSize : BuffSize = k * TransferSize

ASSUME BoundsAssumption ==
  /\ MaxBlocks \in Nat
  /\ Faults \subseteq FaultKinds

VARIABLES
  dma_ptr_axi,         \* the segment the engine fills
  dma_ptr_eth,         \* the segment handed to the Ethernet task
  dma_data_available,  \* the hand-off flag
  chan,                \* state of the S2MM channel
  chan_addr,           \* its destination address register
  irq,                 \* pending bits of its status register
  irq_en,              \* bits enabled to raise the interrupt line
  handed               \* history: hand-offs made by the handler so far

dmaVars == <<dma_ptr_axi, dma_ptr_eth, dma_data_available,
             chan, chan_addr, irq, irq_en, handed>>

Null == -1

(* The addresses of dma_buffer.                                            *)
Offsets == 0 .. BuffSize - 1

DmaInit ==
  /\ dma_ptr_axi = Null
  /\ dma_ptr_eth = Null
  /\ dma_data_available = 0
  /\ chan = "off"
  /\ chan_addr = Null
  /\ irq = {}
  /\ irq_en = {}
  /\ handed = 0

(* dma_ptr_axi += g_transfer_size, then back to g_buff at the end.         *)
Advance(ptr) ==
  IF ptr + TransferSize >= BuffSize THEN 0 ELSE ptr + TransferSize

(* XAxiDma_SimpleTransfer: starts an idle channel, refuses any other.      *)
SimpleTransfer(ptr) ==
  IF chan = "idle"
  THEN chan' = "busy" /\ chan_addr' = ptr
  ELSE UNCHANGED <<chan, chan_addr>>

(* dma_it_init.  It returns early when the configuration is missing, the   *)
(* engine cannot be initialised or the interrupt cannot be connected.      *)
DmaItInitFails ==
  /\ "init" \in Faults
  /\ dma_ptr_axi' = 0
  /\ UNCHANGED <<dma_ptr_eth, dma_data_available, chan, chan_addr, irq,
                 irq_en, handed>>

DmaItInitSucceeds ==
  /\ dma_ptr_axi' = 0
  /\ irq_en' = {"IOC"}
  /\ chan' = "busy"
  /\ chan_addr' = 0
  /\ UNCHANGED <<dma_ptr_eth, dma_data_available, irq, handed>>

(* The engine: a packet that ends within the programmed length raises IOC, *)
(* any error halts the channel and raises ERR.                             *)
DmaComplete ==
  /\ chan = "busy"
  /\ handed < MaxBlocks
  /\ chan' = "idle"
  /\ irq' = irq \union {"IOC"}
  /\ UNCHANGED <<dma_ptr_axi, dma_ptr_eth, dma_data_available, chan_addr,
                 irq_en, handed>>

DmaFault ==
  /\ "dma" \in Faults
  /\ chan = "busy"
  /\ chan' = "halted"
  /\ irq' = irq \union {"ERR"}
  /\ UNCHANGED <<dma_ptr_axi, dma_ptr_eth, dma_data_available, chan_addr,
                 irq_en, handed>>

(* Mutants of RxIntrHandler: they advance before handing over, start the   *)
(* transfer before advancing, or do not start one.                         *)
RxIntrHandler_Variant(ready, eth, restart) ==
  /\ ready
  /\ irq' = {}
  /\ dma_ptr_eth' = eth
  /\ dma_data_available' = 1
  /\ dma_ptr_axi' = Advance(dma_ptr_axi)
  /\ restart
  /\ handed' = handed + 1
  /\ UNCHANGED irq_en

RxIntrHandler_HandNext ==
  RxIntrHandler_Variant("IOC" \in irq \intersect irq_en, Advance(dma_ptr_axi),
                        SimpleTransfer(Advance(dma_ptr_axi)))

RxIntrHandler_SameSegment ==
  RxIntrHandler_Variant("IOC" \in irq \intersect irq_en, dma_ptr_axi,
                        SimpleTransfer(dma_ptr_axi))

RxIntrHandler_NoRestart ==
  RxIntrHandler_Variant("IOC" \in irq \intersect irq_en, dma_ptr_axi,
                        UNCHANGED <<chan, chan_addr>>)

(* RxIntrHandler: acknowledge what was pending; on IOC hand the filled     *)
(* segment over, advance the ring and start the next transfer.             *)
RxIntrHandler ==
  /\ irq \intersect irq_en # {}
  /\ irq' = {}
  /\ IF "IOC" \in irq
     THEN /\ dma_ptr_eth' = dma_ptr_axi
          /\ dma_data_available' = 1
          /\ dma_ptr_axi' = Advance(dma_ptr_axi)
          /\ SimpleTransfer(Advance(dma_ptr_axi))
          /\ handed' = handed + 1
     ELSE UNCHANGED <<dma_ptr_eth, dma_data_available, dma_ptr_axi, chan,
                      chan_addr, handed>>
  /\ UNCHANGED irq_en

(* The addresses the engine may be writing in this state.                  *)
Writing == {ptr \in Offsets : chan = "busy" /\ chan_addr <= ptr
                                /\ ptr < chan_addr + TransferSize}

DmaTypeOK ==
  /\ dma_ptr_axi \in Offsets \union {Null}
  /\ dma_ptr_eth \in Offsets \union {Null}
  /\ dma_data_available \in {0, 1}
  /\ chan \in {"off", "idle", "busy", "halted"}
  /\ chan_addr \in Offsets \union {Null}
  /\ irq \subseteq {"IOC", "ERR"}
  /\ irq_en \subseteq {"IOC"}
  /\ handed \in Nat
=============================================================================
