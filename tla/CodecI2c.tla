------------------------------ MODULE CodecI2c ------------------------------
(***************************************************************************)
(* codec_init and the polled I2C driver under it (i2c_init, i2c_write,     *)
(* i2c_read of init.cpp, also used by vitis/i2c_test), against the AXI IIC *)
(* controller and the codec at the other end of the bus.                   *)
(*                                                                         *)
(* Every access to a register of the controller is a step.  A polling loop *)
(* is a step that waits for what ends it.  The program may be started      *)
(* again at any moment, which leaves controller, codec and GPIO as they    *)
(* are.                                                                    *)
(***************************************************************************)
EXTENDS Integers, Sequences

CONSTANTS
  Table,        \* the registers codec_init writes and their values, in order
  ReadBack,     \* the register i2c_test reads afterwards, none elsewhere
  MaxRestarts,  \* bound: restarts of the program
  Nacks         \* whether the codec may fail to acknowledge

ASSUME CodecAssumption ==
  /\ Table \in Seq(Nat \X Nat) /\ Table # <<>>
  /\ \A i, j \in DOMAIN Table : Table[i][1] = Table[j][1] => i = j
  /\ \A r \in ReadBack : \E i \in DOMAIN Table : Table[i][1] = r
  /\ \A r, s \in ReadBack : r = s
  /\ MaxRestarts \in Nat
  /\ Nacks \in BOOLEAN

VARIABLES
  pc, step,   \* the program, and the entry of Table it writes
  result,     \* what i2c_read returned
  en,         \* the GPIO bit that lets samples flow
  ctrl,       \* the control register: "off", "tx_reset" or "on"
  tx, rx,     \* the transmit and the receive FIFO
  gpo,        \* bit 0 of the GPO register: the codec's reset input
  bus, word,  \* what happens on the bus, and the word it happens with
  slave, ptr, \* what the codec expects next, and its register pointer
  regs,       \* the codec's registers
  restarts,
  nacked      \* history: a byte was refused since the codec's last reset

cpuVars == <<pc, step, result, en>>
iicVars == <<ctrl, tx, rx, bus, word>>
codecVars == <<slave, ptr, regs>>
vars == <<cpuVars, iicVars, gpo, codecVars, restarts, nacked>>

Registers == {Table[i][1] : i \in DOMAIN Table}
Unset == -1
TxDepth == 16

Init ==
  /\ pc = "softr" /\ step = 1 /\ result = Unset /\ en = FALSE
  /\ ctrl = "off" /\ tx = <<>> /\ rx = <<>> /\ gpo = 0
  /\ bus = "free" /\ word = <<>>
  /\ slave = "idle" /\ ptr = Unset /\ regs = [r \in Registers |-> Unset]
  /\ restarts = 0 /\ nacked = FALSE

(***************************************************************************)
(* Words of the transmit FIFO: the START and STOP bits and a byte.         *)
(***************************************************************************)
Start(dir) == <<"start", dir>>
Byte(b) == <<"byte", b>>
Stop(b) == <<"stop", b>>

BusIdle_NoWait == TRUE  \* mutant: the loops are left at once
BusIdle_TxEmpty == tx = <<>>  \* mutant: BB_MASK is not tested

(* !(status & BB_MASK) && (status & TX_EMPTY_MASK).                        *)
BusIdle == bus = "free" /\ tx = <<>>

(***************************************************************************)
(* The program.                                                            *)
(***************************************************************************)
Goto(from, to) ==
  pc = from /\ pc' = to /\ UNCHANGED <<codecVars, restarts, nacked>>

(* i2c_init: RKEY resets the controller, whatever it was doing.            *)
SoftReset ==
  /\ pc = "softr" /\ pc' = "cr"
  /\ ctrl' = "off" /\ tx' = <<>> /\ rx' = <<>> /\ bus' = "free" /\ word' = <<>>
  /\ UNCHANGED <<step, result, en, gpo, codecVars, restarts, nacked>>

(* EN_MASK | TX_RESET_MASK, then the reset is released.                    *)
EnableController ==
  \/ Goto("cr", "release") /\ ctrl' = "tx_reset" /\ tx' = <<>>
       /\ UNCHANGED <<step, result, en, rx, bus, word, gpo>>
  \/ Goto("release", "gpo_low") /\ ctrl' = "on"
       /\ UNCHANGED <<step, result, en, tx, rx, bus, word, gpo>>

(* The codec's reset pulse: its registers and its bus interface reset.     *)
ResetCodec ==
  /\ pc = "gpo_low" /\ pc' = "gpo_high"
  /\ gpo' = 0
  /\ slave' = "idle" /\ ptr' = Unset /\ regs' = [r \in Registers |-> Unset]
  /\ nacked' = FALSE
  /\ UNCHANGED <<step, result, en, iicVars, restarts>>

ReleaseCodec ==
  /\ Goto("gpo_high", "wait_idle")
  /\ gpo' = 1 /\ step' = 1
  /\ UNCHANGED <<result, en, iicVars>>

WaitIdle ==
  /\ Goto("wait_idle", "put_start")
  /\ BusIdle
  /\ UNCHANGED <<step, result, en, iicVars, gpo>>

Put(from, to, w) ==
  /\ Goto(from, to)
  /\ tx' = Append(tx, w)
  /\ UNCHANGED <<step, result, en, ctrl, rx, bus, word, gpo>>

I2cWrite_DataFirst ==  \* mutant: register and data swapped
  \/ Put("put_start", "put_reg", Start("w"))
  \/ Put("put_reg", "put_data", Byte(Table[step][2]))
  \/ Put("put_data", "drain", Stop(Table[step][1]))

I2cWrite_NoStop ==  \* mutant: STOP_MASK is missing
  \/ Put("put_start", "put_reg", Start("w"))
  \/ Put("put_reg", "put_data", Byte(Table[step][1]))
  \/ Put("put_data", "drain", Byte(Table[step][2]))

I2cWrite ==
  \/ Put("put_start", "put_reg", Start("w"))
  \/ Put("put_reg", "put_data", Byte(Table[step][1]))
  \/ Put("put_data", "drain", Stop(Table[step][2]))

(* The wait at the end of i2c_write, and on to the next entry.             *)
Drained ==
  /\ Goto("drain", IF step < Len(Table) THEN "wait_idle" ELSE "enable")
  /\ BusIdle
  /\ step' = IF step < Len(Table) THEN step + 1 ELSE step
  /\ UNCHANGED <<result, en, iicVars, gpo>>

EnableSamples ==
  /\ Goto("enable", IF ReadBack = {} THEN "done" ELSE "read_idle")
  /\ en' = TRUE
  /\ UNCHANGED <<step, result, iicVars, gpo>>

(* i2c_read of a register.                                                 *)
ReadIdle ==
  /\ Goto("read_idle", "read_start")
  /\ BusIdle
  /\ UNCHANGED <<step, result, en, iicVars, gpo>>

I2cRead_NoAddress ==  \* mutant: the register address is not sent
  \/ Put("read_start", "read_restart", Start("w"))
  \/ Put("read_restart", "read_count", Start("r"))
  \/ Put("read_count", "read_wait", Stop(1))

I2cRead ==
  \/ Put("read_start", "read_reg", Start("w"))
  \/ \E r \in ReadBack : Put("read_reg", "read_restart", Byte(r))
  \/ Put("read_restart", "read_count", Start("r"))
  \/ Put("read_count", "read_wait", Stop(1))

ReadResult ==
  /\ Goto("read_wait", "done")
  /\ rx # <<>>
  /\ result' = Head(rx) /\ rx' = Tail(rx)
  /\ UNCHANGED <<step, en, ctrl, tx, bus, word, gpo>>

Cpu ==
  \/ SoftReset \/ EnableController \/ ResetCodec \/ ReleaseCodec
  \/ WaitIdle \/ I2cWrite \/ Drained \/ EnableSamples
  \/ ReadIdle \/ I2cRead \/ ReadResult

Restart ==
  /\ restarts < MaxRestarts
  /\ pc' = "softr" /\ restarts' = restarts + 1
  /\ UNCHANGED <<step, result, en, iicVars, gpo, codecVars, nacked>>

(***************************************************************************)
(* The controller and the codec.                                           *)
(***************************************************************************)
Controller == UNCHANGED <<cpuVars, gpo, ctrl, restarts>>

(* A word with START begins a transfer; later words follow while the bus   *)
(* is held.                                                                *)
Fetch ==
  /\ ctrl = "on" /\ tx # <<>>
  /\ \/ bus = "free" /\ Head(tx)[1] = "start"
     \/ bus = "held"
  /\ word' = Head(tx) /\ tx' = Tail(tx) /\ bus' = "byte"
  /\ UNCHANGED <<rx, codecVars, nacked>> /\ Controller

(* What a read of a register returns; one the table does not set holds 0.  *)
Contents(r) == IF r \in Registers /\ regs[r] # Unset THEN regs[r] ELSE 0

(* A byte is transferred, in the direction the last START gave.            *)
Transfer ==
  LET b == word[2] IN
  /\ bus = "byte" /\ gpo = 1
  /\ bus' = IF word[1] = "stop" THEN "stop" ELSE "held"
  /\ \/ /\ word[1] = "start"
        /\ slave' = IF b = "w" THEN "reg" ELSE "read"
        /\ UNCHANGED <<rx, ptr, regs>>
     \/ /\ word[1] # "start" /\ slave = "reg"
        /\ ptr' = b /\ slave' = "data"
        /\ UNCHANGED <<rx, regs>>
     \/ /\ word[1] # "start" /\ slave = "data"
        /\ regs' = IF ptr \in Registers THEN [regs EXCEPT ![ptr] = b] ELSE regs
        /\ UNCHANGED <<rx, slave, ptr>>
     \/ /\ word[1] # "start" /\ slave = "read"
        /\ rx' = Append(rx, Contents(ptr))
        /\ UNCHANGED codecVars
  /\ UNCHANGED <<tx, word, nacked>> /\ Controller

(* No acknowledge: the controller stops, and may or may not drop the rest  *)
(* of its FIFO.                                                            *)
NoAck ==
  /\ bus = "byte" /\ slave # "read" /\ (Nacks \/ gpo = 0)
  /\ bus' = "stop" /\ nacked' = TRUE
  /\ tx' \in {tx, <<>>}
  /\ UNCHANGED <<rx, word, codecVars>> /\ Controller

StopBus ==
  /\ bus = "stop" /\ bus' = "free"
  /\ slave' = "idle"
  /\ UNCHANGED <<tx, rx, word, ptr, regs, nacked>> /\ Controller

Bus == Fetch \/ Transfer \/ NoAck \/ StopBus

Next == Cpu \/ Restart \/ Bus

Spec == Init /\ [][Next]_vars

(* Both the processor and the controller keep running.                     *)
FairSpec == Spec /\ WF_vars(Cpu) /\ WF_vars(Bus)
-----------------------------------------------------------------------------
Words == ({"start"} \X {"w", "r"}) \union ({"byte", "stop"} \X Nat)

TypeOK ==
  /\ pc \in {"softr", "cr", "release", "gpo_low", "gpo_high", "wait_idle",
             "put_start", "put_reg", "put_data", "drain", "enable",
             "read_idle", "read_start", "read_reg", "read_restart",
             "read_count", "read_wait", "done"}
  /\ step \in DOMAIN Table
  /\ result \in Nat \union {Unset}
  /\ en \in BOOLEAN
  /\ ctrl \in {"off", "tx_reset", "on"}
  /\ tx \in Seq(Words) /\ Len(tx) <= TxDepth
  /\ rx \in Seq(Nat) /\ Len(rx) <= 1
  /\ gpo \in {0, 1}
  /\ bus \in {"free", "byte", "held", "stop"}
  /\ word \in Words \union {<<>>}
  /\ slave \in {"idle", "reg", "data", "read"}
  /\ ptr \in Nat \union {Unset}
  /\ regs \in [Registers -> Nat \union {Unset}]
  /\ restarts \in 0 .. MaxRestarts /\ nacked \in BOOLEAN

Written(n) == \A i \in 1 .. n : regs[Table[i][1]] = Table[i][2]

(* Samples are enabled only when the codec has every register of the       *)
(* table, even if the program was restarted in the middle of a transfer;   *)
(* only a missing acknowledge, which nobody looks at, goes unnoticed.      *)
ConfiguredBeforeEnable ==
  pc \in {"enable", "read_idle", "done"} => nacked \/ Written(Len(Table))

(* No byte of a transfer ends up in a register it was not meant for,       *)
(* neither through an interrupted transfer nor a refused byte.             *)
NoStrayWrite ==
  \A i \in DOMAIN Table : regs[Table[i][1]] \in {Unset, Table[i][2]}

(* i2c_read returns what i2c_write wrote.                                  *)
ReadsBack ==
  pc = "done" /\ ~nacked =>
    \A r \in ReadBack : \A i \in DOMAIN Table :
      Table[i][1] = r => result = Table[i][2]

(* A codec that acknowledges is configured, however often the program was  *)
(* restarted: no wait lasts for ever unless a byte was refused in it.      *)
Finishes == <>[]((pc = "done" /\ en) \/ nacked)
=============================================================================
