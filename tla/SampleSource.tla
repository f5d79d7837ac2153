---------------------------- MODULE SampleSource ----------------------------
(***************************************************************************)
(* What the serial receiver promises the input FIFOs: once it is enabled,  *)
(* the word of every slot the codec sends is written, whole, once, in      *)
(* order and to the FIFO of its channel, before the next slot ends.        *)
(* AudioInterface implements it; CapturePath takes it for granted.         *)
(***************************************************************************)
EXTENDS Integers, Sequences

CONSTANTS
  DataBits,  \* 24: bits of a word
  MaxSlots   \* bound: slots in a behaviour

VARIABLES
  slot,      \* the half-word the codec is sending, 0 when it is silent
  half,      \* and its channel
  en,
  first,     \* the slot that was on when en rose
  written    \* the samples written to the FIFOs

vars == <<slot, half, en, first, written>>

Other(channel) == IF channel = "left" THEN "right" ELSE "left"
Bit(s, k) == <<s, k>>
Word(s) == [k \in 1 .. DataBits |-> Bit(s, k)]
Silent == [k \in 1 .. DataBits |-> Bit(0, 0)]

(* The sample of the slot that has just ended.                             *)
Ended == [channel |-> Other(half), word |-> Word(slot - 1)]

IsWritten(sample) ==
  written # <<>> /\ written[Len(written)] = sample

Init ==
  /\ slot = 0 /\ half = "right"
  /\ en = FALSE /\ first = 0
  /\ written = <<>>

Enable ==
  /\ ~en /\ en' = TRUE /\ first' = slot
  /\ UNCHANGED <<slot, half, written>>

PowerUp ==
  /\ slot = 0 /\ slot' = 1
  /\ half' \in {"left", "right"}
  /\ UNCHANGED <<en, first, written>>

(* A slot that was sent with en up is written before the next one ends.    *)
NextSlot ==
  /\ slot \in 1 .. MaxSlots - 1
  /\ slot > 1 /\ en /\ first < slot - 1 => IsWritten(Ended)
  /\ slot' = slot + 1 /\ half' = Other(half)
  /\ UNCHANGED <<en, first, written>>

Write ==
  /\ en /\ slot > 1 /\ ~IsWritten(Ended)
  /\ written' = Append(written, Ended)
  /\ UNCHANGED <<slot, half, en, first>>

(* The one exception: a codec that starts with a left slot after en has    *)
(* risen raises the word clock, and a right sample of no slot is written.  *)
WriteSilence ==
  /\ en /\ slot = 1 /\ half = "left" /\ written = <<>>
  /\ written' = <<[channel |-> "right", word |-> Silent]>>
  /\ UNCHANGED <<slot, half, en, first>>

Next == Enable \/ PowerUp \/ NextSlot \/ Write \/ WriteSilence

Spec == Init /\ [][Next]_vars
=============================================================================
