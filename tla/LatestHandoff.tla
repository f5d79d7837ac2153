--------------------------- MODULE LatestHandoff ---------------------------
(***************************************************************************)
(* What the hand-off between the DMA interrupt and transfer_data promises: *)
(* a mailbox of depth one.  The producer numbers its blocks; the consumer  *)
(* takes the newest one, each block at most once and never an older block  *)
(* after a newer one, and sends it before it takes another.  Blocks may be *)
(* skipped.                                                                *)
(***************************************************************************)
EXTENDS Naturals

VARIABLES
  produced,  \* number of the newest block
  consumed,  \* number of the block last taken, 0 before the first
  holding    \* the consumer has a block it has not finished with

Init == produced = 0 /\ consumed = 0 /\ holding = FALSE

Produce == produced' = produced + 1 /\ UNCHANGED <<consumed, holding>>

Take ==
  /\ ~holding
  /\ consumed < produced
  /\ consumed' = produced
  /\ holding' = TRUE
  /\ UNCHANGED produced

Release == holding /\ holding' = FALSE /\ UNCHANGED <<produced, consumed>>

Next == Produce \/ Take \/ Release

Spec == Init /\ [][Next]_<<produced, consumed, holding>>
=============================================================================
