--------------------------- MODULE AudioStreamer ---------------------------
(***************************************************************************)
(* vitis/echo_server once start_application is reached: the main loop of   *)
(* main.c (xemacif_input, then transfer_data), the UDP command handler and *)
(* the zero-copy sender of application.cpp, composed with the DMA side of  *)
(* DmaController and with the transmit queue of the Ethernet controller.   *)
(*                                                                         *)
(* transfer_data is split at every point where the DMA interrupt handler   *)
(* can run between two of its accesses to dma_ptr_eth and                  *)
(* dma_data_available.                                                     *)
(***************************************************************************)
EXTENDS DmaController, Sequences

CONSTANTS
  Peers,    \* hosts that send commands to UDP port 1234
  NoPeer,   \* active_pcb is NULL: no host has started a transfer
  TxSlots   \* transmit descriptors of the Ethernet controller

ASSUME StreamerAssumption ==
  /\ TxSlots \in Nat \ {0}
  /\ NoPeer \notin Peers

VARIABLES
  pc,                      \* where the main thread is
  audio_transfer_enabled,
  remote,                  \* active_pcb and the address in remote_ip/_port
  payload,                 \* p->payload of the pbuf being sent
  tx,                      \* frames queued on the Ethernet controller
  stale,                   \* segments whose cached copy may be outdated
  invalidated,             \* history: newest hand-off when last invalidating
  taken,                   \* history: hand-off last put in a pbuf
  excused                  \* history: hand-off the code is known to drop

cmdVars == <<audio_transfer_enabled, remote>>
history == <<invalidated, taken, excused>>
mainVars == <<pc, cmdVars, payload, tx, stale, history>>
vars == <<dmaVars, mainVars>>

Goto(from, to) == pc = from /\ pc' = to

(* A frame on the wire: where its payload lies, which hand-off that was    *)
(* and to whom it goes.                                                    *)
Frame == [ptr : Offsets, no : Nat, peer : Peers]

Commands == {"start", "stop", "other"}

(* The points between reading dma_data_available and clearing it.          *)
Window == {"invalidate", "alloc", "payload", "sendto", "clear"}

Init ==
  /\ DmaInit
  /\ pc = "boot"
  /\ audio_transfer_enabled = 0
  /\ remote = NoPeer
  /\ payload = Null
  /\ invalidated = 0
  /\ tx = <<>>
  /\ stale = {}
  /\ taken = 0
  /\ excused = 0

(***************************************************************************)
(* The main thread.                                                        *)
(***************************************************************************)

(* start_application: udp_new or udp_bind may fail, then nothing else is   *)
(* set up; its last call is dma_it_init, whose status is ignored.          *)
StartApplication ==
  /\ Goto("boot", "input")
  /\ \/ DmaItInitSucceeds /\ stale' = stale \union {0}
     \/ DmaItInitFails /\ UNCHANGED stale
     \/ "init" \in Faults /\ UNCHANGED <<dmaVars, stale>>
  /\ UNCHANGED <<cmdVars, payload, tx, history>>

(* dma_it_init was called, hence udp_recv before it.                       *)
CallbackRegistered == dma_ptr_axi # Null

(* xemacif_input finds no packet for port 1234.                            *)
NoInput ==
  /\ Goto("input", "check")
  /\ UNCHANGED <<dmaVars, cmdVars, payload, tx, stale, history>>

(* xemacif_input delivers a datagram to recv_callback.  The first byte is  *)
(* the command; an empty datagram reads whatever byte follows it, so it    *)
(* acts as any of them.                                                    *)
RecvCallback(peer, command) ==
  /\ CallbackRegistered
  /\ Goto("input", "check")
  /\ CASE command = "start" -> /\ remote' = peer
                               /\ audio_transfer_enabled' = 1
       [] command = "stop" -> audio_transfer_enabled' = 0 /\ UNCHANGED remote
       [] OTHER -> UNCHANGED cmdVars
  /\ UNCHANGED <<dmaVars, payload, tx, stale, history>>

(* Mutants of CheckTransfer: the flag is cleared although nothing is sent; *)
(* the enable flag is not tested.                                          *)
CheckTransfer_ClearAlways ==
  /\ pc = "check"
  /\ IF audio_transfer_enabled = 1 /\ remote # NoPeer /\ dma_data_available = 1
     THEN pc' = "invalidate" /\ payload' = Null /\ UNCHANGED dma_data_available
     ELSE pc' = "input" /\ dma_data_available' = 0 /\ UNCHANGED payload
  /\ UNCHANGED <<dma_ptr_axi, dma_ptr_eth, chan, chan_addr, irq, irq_en,
                 handed, cmdVars, tx, stale, history>>

CheckTransfer_NotEnabled ==
  /\ pc = "check"
  /\ IF remote # NoPeer /\ dma_data_available = 1
     THEN pc' = "invalidate" /\ payload' = Null
     ELSE pc' = "input" /\ UNCHANGED payload
  /\ UNCHANGED <<dmaVars, cmdVars, tx, stale, history>>

(* transfer_data: the guard.                                               *)
CheckTransfer ==
  /\ pc = "check"
  /\ IF /\ audio_transfer_enabled = 1
        /\ remote # NoPeer
        /\ dma_data_available = 1
     THEN pc' = "invalidate" /\ payload' = Null
     ELSE pc' = "input" /\ UNCHANGED payload
  /\ UNCHANGED <<dmaVars, cmdVars, tx, stale, history>>

InvalidateCache_Skipped ==  \* mutant: no invalidation
  /\ Goto("invalidate", "alloc")
  /\ invalidated' = handed
  /\ UNCHANGED <<dmaVars, cmdVars, payload, tx, stale, taken, excused>>

(* Xil_DCacheInvalidateRange(dma_ptr_eth, 1024).                           *)
InvalidateCache ==
  /\ Goto("invalidate", "alloc")
  /\ invalidated' = handed
  /\ stale' = stale \ ({dma_ptr_eth} \ Writing)
  /\ UNCHANGED <<dmaVars, cmdVars, payload, tx, taken, excused>>

(* pbuf_alloc.  Without a pbuf the segment is not sent, yet the flag is    *)
(* cleared below.                                                          *)
AllocPbuf ==
  /\ Goto("alloc", "payload")
  /\ UNCHANGED <<dmaVars, cmdVars, payload, tx, stale, history>>

AllocPbufFails ==
  /\ "alloc" \in Faults
  /\ Goto("alloc", "clear")
  /\ excused' = handed
  /\ UNCHANGED <<dmaVars, cmdVars, payload, invalidated, tx, stale, taken>>

(* p->payload = dma_ptr_eth: the second read of the pointer.               *)
SetPayload ==
  /\ Goto("payload", "sendto")
  /\ payload' = dma_ptr_eth
  /\ taken' = handed
  /\ UNCHANGED <<dmaVars, cmdVars, invalidated, tx, stale, excused>>

(* udp_sendto queues the payload by reference, or fails; pbuf_free.        *)
UdpSendto ==
  /\ Goto("sendto", "clear")
  /\ \/ /\ Len(tx) < TxSlots
        /\ tx' = Append(tx, [ptr |-> payload, no |-> taken, peer |-> remote])
     \/ /\ Len(tx) = TxSlots \/ "send" \in Faults
        /\ UNCHANGED tx
  /\ UNCHANGED <<dmaVars, cmdVars, payload, stale, history>>

ClearAvailable_Missing ==  \* mutant: the flag stays set
  /\ Goto("clear", "input")
  /\ UNCHANGED <<dmaVars, cmdVars, payload, tx, stale, history>>

(* dma_data_available = 0.                                                 *)
ClearAvailable ==
  /\ Goto("clear", "input")
  /\ dma_data_available' = 0
  /\ UNCHANGED <<dma_ptr_axi, dma_ptr_eth, chan, chan_addr, irq, irq_en,
                 handed, cmdVars, payload, tx, stale, history>>

(***************************************************************************)
(* What runs beside the main thread.                                       *)
(***************************************************************************)

(* The handler.  A transfer it starts makes the cached copy of its target  *)
(* outdated; a hand-off made inside Window is one the flag may not keep.   *)
Interrupt ==
  /\ RxIntrHandler
  /\ stale' = IF chan' = "busy" THEN stale \union {chan_addr'} ELSE stale
  /\ excused' = IF pc \in Window THEN handed' ELSE excused
  /\ UNCHANGED <<pc, cmdVars, payload, invalidated, tx, taken>>

Engine ==
  /\ DmaComplete \/ DmaFault
  /\ UNCHANGED mainVars

(* The Ethernet controller reads the payload of the oldest frame and       *)
(* releases its descriptor.                                                *)
Transmit ==
  /\ tx # <<>>
  /\ tx' = Tail(tx)
  /\ UNCHANGED <<dmaVars, pc, cmdVars, payload, stale, history>>

MainStep ==
  \/ StartApplication
  \/ NoInput
  \/ \E peer \in Peers, command \in Commands : RecvCallback(peer, command)
  \/ CheckTransfer
  \/ InvalidateCache
  \/ AllocPbuf
  \/ AllocPbufFails
  \/ SetPayload
  \/ UdpSendto
  \/ ClearAvailable

Next ==
  \/ MainStep
  \/ Interrupt
  \/ Engine
  \/ Transmit

Spec == Init /\ [][Next]_vars

(* The main loop never blocks, interrupts stay enabled, the audio clock    *)
(* keeps the engine supplied and the Ethernet controller drains its queue. *)
Fairness ==
  /\ WF_vars(MainStep)
  /\ WF_vars(Interrupt)
  /\ WF_vars(Engine)
  /\ WF_vars(Transmit)

FairSpec == Spec /\ Fairness
-----------------------------------------------------------------------------
TypeOK ==
  /\ DmaTypeOK
  /\ pc \in {"boot", "input", "check"} \union Window
  /\ audio_transfer_enabled \in {0, 1}
  /\ remote \in Peers \union {NoPeer}
  /\ payload \in Offsets \union {Null}
  /\ invalidated \in Nat
  /\ tx \in Seq(Frame)
  /\ Len(tx) <= TxSlots
  /\ stale \subseteq Offsets
  /\ taken \in Nat
  /\ excused \in Nat

(* The ring never lets the engine write outside dma_buffer: pointer        *)
(* arithmetic of RxIntrHandler against the buffer dma_it_init was given.   *)
EngineInBounds ==
  chan = "busy" => chan_addr >= 0 /\ chan_addr + TransferSize <= BuffSize

(* The engine never fills the segment that is handed to the Ethernet task, *)
(* nor one that overlaps it.                                               *)
EngineAvoidsHandedSegment ==
  chan = "busy" /\ dma_ptr_eth # Null =>
    \/ chan_addr + TransferSize <= dma_ptr_eth
    \/ dma_ptr_eth + TransferSize <= chan_addr

(* Both, at whatever point of the ring.                                    *)
RingSafe == EngineInBounds /\ EngineAvoidsHandedSegment

(* The frames that still refer to dma_buffer: those queued, and the one    *)
(* between p->payload = ... and udp_sendto.                                *)
Referenced ==
  {tx[i] : i \in 1 .. Len(tx)} \union
  IF pc = "sendto" THEN {[ptr |-> payload, no |-> taken, peer |-> remote]}
  ELSE {}

(* The ring has gone round once since hand-off no.                         *)
Lapped(no) == (handed - no + 1) * TransferSize >= BuffSize

(* Zero copy: while a frame refers to a segment the engine does not write  *)
(* it, unless the ring went all the way round since it was handed over.    *)
PayloadIntactUntilLapped ==
  \A f \in Referenced : chan = "busy" /\ chan_addr = f.ptr => Lapped(f.no)

(* Frames are queued in hand-off order and no hand-off is queued twice.    *)
FramesInOrder ==
  /\ \A i \in 1 .. Len(tx) : tx[i].no <= taken
  /\ \A i, j \in 1 .. Len(tx) : i < j => tx[i].no < tx[j].no

(* udp_sendto is given a segment with an outdated cached copy only if the  *)
(* handler ran between the invalidation and the payload assignment, or     *)
(* the ring was lapped.                                                    *)
StalePayloadOnlyIfRaced ==
  pc = "sendto" /\ payload \in stale => taken # invalidated \/ Lapped(taken)

(* The newest hand-off disappears from the flag unsent only if it arrived  *)
(* inside transfer_data or found no pbuf: no other path loses audio.       *)
LossOnlyInsideTransfer ==
  dma_data_available = 0 => handed \in {taken, excused}

(* The hand-off is a depth-one mailbox (see LatestHandoff): each pbuf gets *)
(* the newest segment, and no segment goes into a second pbuf.             *)
Mailbox == INSTANCE LatestHandoff
  WITH produced <- handed, consumed <- taken, holding <- (pc = "sendto")
TakesNewestOnce == Mailbox!Spec

(* After an engine error nothing restarts the channel: the handler only    *)
(* hears of IOC.                                                           *)
HaltIsFinal == [][chan = "halted" => chan' = "halted" /\ handed' = handed]_vars

(* A frame is queued only between a start command and the next stop, for   *)
(* the host of the last start: no command is handled between the test of   *)
(* audio_transfer_enabled and udp_sendto.                                  *)
SendsOnlyWhileStarted ==
  [][Len(tx') > Len(tx) => /\ audio_transfer_enabled = 1
                           /\ tx'[Len(tx')].peer = remote]_vars

(* A hand-off is consumed while the transfer stays enabled.                *)
HandoffConsumed ==
  dma_data_available = 1 /\ audio_transfer_enabled = 1
    ~> dma_data_available = 0 \/ audio_transfer_enabled = 0

(* The channel is always restarted after a block; only an error ends that. *)
EngineRestarted == chan = "idle" /\ irq_en # {} ~> chan = "busy"

(* "Hand-off filled segment to the Ethernet task": once handed over, the   *)
(* newest segment stays available until it was put in a pbuf.              *)
HandoffKept == dma_data_available = 0 => handed = taken
=============================================================================
