--------------------------- MODULE CodecI2cProofs ---------------------------
(***************************************************************************)
(* Safety of CodecI2c, for every table, register read back and number of   *)
(* restarts, with a codec that acknowledges and with one that does not.    *)
(*                                                                         *)
(* The words the program has put, up to the one on the bus, form one       *)
(* transfer: each follows the one before it.  The transfer is whole as     *)
(* long as nothing was refused; and a transfer that was cut, by a restart  *)
(* or by a missing acknowledge, never starts in the middle.                *)
(***************************************************************************)
EXTENDS CodecI2c, SequenceTheorems, TLAPS

PCs == {"softr", "cr", "release", "gpo_low", "gpo_high", "wait_idle",
        "put_start", "put_reg", "put_data", "drain", "enable",
        "read_idle", "read_start", "read_reg", "read_restart",
        "read_count", "read_wait", "done"}

Active == bus \in {"byte", "held"}

(* Types, but for the length of the transmit FIFO.                         *)
CpuType ==
  /\ pc \in PCs /\ step \in DOMAIN Table /\ result \in Nat \union {Unset}
  /\ en \in BOOLEAN /\ restarts \in 0 .. MaxRestarts

IicType ==
  /\ ctrl \in {"off", "tx_reset", "on"} /\ gpo \in {0, 1}
  /\ tx \in Seq(Words) /\ rx \in Seq(Nat) /\ Len(rx) <= 1
  /\ bus \in {"free", "byte", "held", "stop"}
  /\ word \in Words \union {<<>>} /\ (Active => word \in Words)

SlaveType ==
  /\ slave \in {"idle", "reg", "data", "read"}
  /\ ptr \in Nat \union {Unset}
  /\ regs \in [Registers -> Nat \union {Unset}]
  /\ nacked \in BOOLEAN

TypeInv == CpuType /\ IicType /\ SlaveType

Register == Table[step][1]
Value == Table[step][2]

(* Word b may follow word a in a transfer.                                 *)
Follows(a, b) ==
  \/ a = Start("w") /\ b[1] = "byte"
  \/ a = Byte(Register) /\ b = Stop(Value)
  \/ b = Start("r") /\ \E r \in ReadBack : a = Byte(r)
  \/ a = Start("r") /\ b = Stop(1)

LinkInv ==
  /\ \A i \in 1 .. Len(tx) - 1 : Follows(tx[i], tx[i + 1])
  /\ Active /\ tx # <<>> => Follows(word, tx[1])

(* What the codec expects agrees with the word on the bus.                 *)
HeldInv ==
  bus = "held" =>
    \/ word = Start("w") /\ slave = "reg"
    \/ word = Byte(ptr) /\ slave = "data" /\ ptr \in Nat
    \/ word = Start("r") /\ slave = "read"

ByteInv ==
  bus = "byte" =>
    \/ word[1] = "start"
    \/ word[1] = "byte" /\ slave = "reg"
    \/ slave = "data" /\ word = Stop(Value) /\ ptr = Register
    \/ slave = "read" /\ word = Stop(1)

(* The program waits for the end of a transfer before the next one.        *)
IdleInv ==
  /\ pc \in {"cr", "release", "gpo_low", "gpo_high", "wait_idle", "put_start",
             "enable", "read_idle", "read_start"} => tx = <<>> /\ bus = "free"
  /\ pc = "done" => tx = <<>> /\ ~Active

(* The word that was put last.                                             *)
Newest(W) ==
  /\ tx # <<>> => tx[Len(tx)] \in W
  /\ tx = <<>> /\ Active => word \in W

NewestInv ==
  /\ pc \in {"put_reg", "read_reg"} => Newest({Start("w")})
  /\ pc = "put_data" => Newest({Byte(Register)})
  /\ pc = "drain" => Newest({Stop(Value)})
  /\ pc = "read_restart" => Newest({Byte(r) : r \in ReadBack})
  /\ pc = "read_count" => Newest({Start("r")})
  /\ pc = "read_wait" => Newest({Stop(1)})

(* Only i2c_read turns the bus round.                                      *)
ReadInv ==
  /\ slave = "read" => pc \in {"read_count", "read_wait", "done", "softr",
                               "cr", "release", "gpo_low"}
  /\ \A i \in 1 .. Len(tx) :
       tx[i] = Start("r") => pc \in {"read_count", "read_wait", "softr"}
  /\ bus = "byte" /\ word = Start("r") =>
       pc \in {"read_count", "read_wait", "softr"}
  /\ rx # <<>> => /\ pc \in {"read_wait", "softr"}
                  /\ tx = <<>> /\ ~Active

(* No transfer is lost but by a refused byte.                              *)
WholeInv ==
  ~nacked /\ pc \in {"put_reg", "put_data", "drain", "read_reg",
                     "read_restart", "read_count", "read_wait"} =>
    \/ bus = "free" /\ tx # <<>> /\ tx[1] = Start("w")
    \/ Active
    \/ /\ pc \in {"drain", "read_wait"} /\ ~Active /\ tx = <<>>
       /\ pc = "drain" => Written(step)

WrittenInv ==
  ~nacked =>
    /\ pc \in {"wait_idle", "put_start", "put_reg", "put_data", "drain"} =>
         Written(step - 1)
    /\ pc \in {"enable", "read_idle", "read_start", "read_reg",
               "read_restart", "read_count", "read_wait", "done"} =>
         Written(Len(Table))

(* What is read is the register that was asked for.                        *)
PointerInv ==
  ~nacked /\ pc \in {"read_count", "read_wait"} /\ Active /\
  (word = Start("r") \/ (slave = "read" /\ word[1] = "stop")) =>
    ptr \in ReadBack

Correct(v) ==
  \A r \in ReadBack : \A i \in DOMAIN Table : Table[i][1] = r => v = Table[i][2]

ResultInv ==
  /\ ~nacked /\ pc = "read_wait" /\ rx # <<>> => Correct(rx[1])
  /\ ~nacked /\ pc = "done" => Correct(result)

BusInv ==
  /\ LinkInv /\ HeldInv /\ ByteInv /\ IdleInv /\ NewestInv /\ ReadInv
  /\ WholeInv /\ WrittenInv /\ PointerInv /\ NoStrayWrite /\ ResultInv

I2cInv == TypeInv /\ BusInv
-----------------------------------------------------------------------------
LEMMA TableFacts ==
  /\ Len(Table) \in Nat \ {0} /\ DOMAIN Table = 1 .. Len(Table)
  /\ 1 \in DOMAIN Table /\ Len(Table) \in DOMAIN Table
  /\ \A i \in DOMAIN Table :
       /\ Table[i][1] \in Registers /\ Table[i][1] \in Nat
       /\ Table[i][2] \in Nat
  /\ \A i, j \in DOMAIN Table : Table[i][1] = Table[j][1] => i = j
  /\ ReadBack \subseteq Registers /\ ReadBack \subseteq Nat
  /\ \A r, s \in ReadBack : r = s
<1>1. Len(Table) \in Nat \ {0} /\ DOMAIN Table = 1 .. Len(Table)
  BY CodecAssumption, LenProperties, EmptySeq
<1>2. \A i \in DOMAIN Table : Table[i] \in Nat \X Nat
  BY <1>1, CodecAssumption, ElementOfSeq
<1>3. \A i \in DOMAIN Table :
        /\ Table[i][1] \in Registers /\ Table[i][1] \in Nat
        /\ Table[i][2] \in Nat
  BY <1>2 DEF Registers
<1>4. QED BY <1>1, <1>3, CodecAssumption

LEMMA WordFacts ==
  /\ \A w \in Words :
       \/ w = Start("w") \/ w = Start("r")
       \/ w[1] = "byte" /\ w[2] \in Nat /\ w = Byte(w[2])
       \/ w[1] = "stop" /\ w[2] \in Nat /\ w = Stop(w[2])
  /\ Start("w") \in Words /\ Start("r") \in Words
  /\ \A b \in Nat : Byte(b) \in Words /\ Stop(b) \in Words
  /\ Start("w") # Start("r")
  /\ \A b : /\ Byte(b)[1] = "byte" /\ Byte(b)[2] = b
            /\ Stop(b)[1] = "stop" /\ Stop(b)[2] = b
            /\ Start(b)[1] = "start" /\ Start(b)[2] = b
BY DEF Words, Start, Byte, Stop

LEMMA AppendOne ==
  ASSUME NEW S, NEW s \in Seq(S), NEW e \in S
  PROVE  /\ Append(s, e) \in Seq(S) /\ Append(s, e) # <<>>
         /\ Len(s) \in Nat /\ Len(Append(s, e)) = Len(s) + 1
         /\ \A i \in 1 .. Len(s) : Append(s, e)[i] = s[i]
         /\ Append(s, e)[Len(s) + 1] = e
         /\ s = <<>> <=> Len(s) = 0
BY AppendProperties, LenProperties, EmptySeq

LEMMA TailOne ==
  ASSUME NEW S, NEW s \in Seq(S), s # <<>>
  PROVE  /\ Len(s) \in Nat \ {0}
         /\ Head(s) = s[1] /\ Head(s) \in S
         /\ Tail(s) \in Seq(S) /\ Len(Tail(s)) = Len(s) - 1
         /\ Tail(s) = <<>> <=> Len(s) = 1
         /\ \A i \in 1 .. Len(s) - 1 : Tail(s)[i] = s[i + 1]
<1>1. Len(s) \in Nat \ {0}
  BY EmptySeq
<1>2. Head(s) = s[1]
  BY <1>1
<1>3. /\ Head(s) \in S /\ Tail(s) \in Seq(S) /\ Len(Tail(s)) = Len(s) - 1
      /\ \A i \in 1 .. Len(s) - 1 : Tail(s)[i] = s[i + 1]
  BY <1>1, HeadTailProperties
<1>4. Tail(s) = <<>> <=> Len(Tail(s)) = 0
  BY <1>3, EmptySeq
<1>5. QED BY <1>1, <1>2, <1>3, <1>4

(* What a step that puts a word does.                                      *)
LEMMA PutProperties ==
  ASSUME IicType, NEW from, NEW to, NEW w \in Words, Put(from, to, w)
  PROVE  /\ pc = from /\ pc' = to
         /\ Len(tx) \in Nat /\ Len(tx') = Len(tx) + 1 /\ tx' \in Seq(Words)
         /\ \A i \in 1 .. Len(tx) : tx'[i] = tx[i]
         /\ tx'[Len(tx) + 1] = w /\ tx' # <<>>
         /\ tx = <<>> <=> Len(tx) = 0
         /\ UNCHANGED <<step, result, en, ctrl, rx, bus, word, gpo, slave, ptr,
                        regs, restarts, nacked>>
BY AppendOne DEF IicType, Put, Goto, codecVars

-----------------------------------------------------------------------------
(* Types.                                                                  *)
LEMMA TypeInit == Init => TypeInv
<1> SUFFICES ASSUME Init PROVE TypeInv
  OBVIOUS
<1>1. CpuType
  <2>1. step \in DOMAIN Table
    BY TableFacts DEF Init
  <2>2. restarts \in 0 .. MaxRestarts
    BY CodecAssumption DEF Init
  <2>3. QED BY <2>1, <2>2 DEF Init, CpuType, PCs
<1>2. IicType
  BY EmptySeq DEF Init, IicType, Active
<1>3. SlaveType
  BY DEF Init, SlaveType
<1>4. QED BY <1>1, <1>2, <1>3 DEF TypeInv

LEMMA CpuTypeStep == CpuType /\ IicType /\ [Next]_vars => CpuType'
<1> SUFFICES ASSUME CpuType, IicType, [Next]_vars PROVE CpuType'
  OBVIOUS
<1> USE DEF CpuType, PCs
<1>1. CASE SoftReset \/ EnableController \/ ResetCodec
  BY <1>1 DEF SoftReset, EnableController, ResetCodec, Goto, codecVars
<1>2. CASE ReleaseCodec \/ WaitIdle \/ EnableSamples \/ ReadIdle
  BY <1>2, TableFacts DEF ReleaseCodec, WaitIdle, EnableSamples, ReadIdle, Goto
<1>3. CASE Drained
  BY <1>3, TableFacts DEF Drained, Goto
<1>4. CASE I2cWrite \/ I2cRead
  BY <1>4 DEF I2cWrite, I2cRead, Put, Goto
<1>5. CASE ReadResult
  BY <1>5, TailOne DEF ReadResult, Goto, IicType
<1>6. CASE Restart
  BY <1>6, CodecAssumption DEF Restart
<1>7. CASE UNCHANGED <<cpuVars, restarts>>
  BY <1>7 DEF cpuVars
<1>8. QED
  BY <1>1, <1>2, <1>3, <1>4, <1>5, <1>6, <1>7
     DEF Next, vars, Cpu, Bus, Fetch, Transfer, NoAck, StopBus, Controller

LEMMA IicTypeStep ==
  TypeInv /\ ReadInv /\ ByteInv /\ [Next]_vars => IicType'
<1> SUFFICES ASSUME TypeInv, ReadInv, ByteInv, [Next]_vars PROVE IicType'
  OBVIOUS
<1>0. CpuType /\ IicType /\ SlaveType
  BY DEF TypeInv
<1>1. CASE SoftReset \/ EnableController
  <2>1. <<>> \in Seq(Words) /\ <<>> \in Seq(Nat) /\ Len(<<>>) = 0
    OBVIOUS
  <2>2. CASE SoftReset
    BY <1>0, <2>1, <2>2 DEF IicType, Active, SoftReset
  <2>3. CASE EnableController
    BY <1>0, <2>1, <2>3 DEF IicType, Active, EnableController, Goto
  <2>4. QED BY <1>1, <2>2, <2>3
<1>2. CASE ResetCodec \/ ReleaseCodec
  BY <1>0, <1>2 DEF IicType, Active, ResetCodec, ReleaseCodec, iicVars
<1>3. ASSUME NEW from, NEW to, NEW w \in Words, Put(from, to, w)
      PROVE  IicType'
  BY <1>0, <1>3, PutProperties DEF IicType, Active
<1>4. CASE I2cWrite
  BY <1>0, <1>3, <1>4, WordFacts, TableFacts DEF I2cWrite, CpuType
<1>5. CASE I2cRead
  <2>1. /\ Start("w") \in Words /\ Start("r") \in Words /\ Stop(1) \in Words
        /\ \A r \in ReadBack : Byte(r) \in Words
    BY WordFacts, TableFacts
  <2>2. PICK from \in PCs, to \in PCs, w \in Words : Put(from, to, w)
    BY <1>5, <2>1 DEF I2cRead, PCs
  <2>3. QED BY <1>3, <2>2
<1>6. CASE ReadResult
  BY <1>0, <1>6, TailOne DEF ReadResult, Goto, IicType, Active
<1>7. CASE Fetch
  BY <1>0, <1>7, TailOne DEF Fetch, Controller, IicType, Active
<1>8. CASE Transfer
  <2>1. /\ UNCHANGED <<ctrl, gpo, tx, word>> /\ bus' \in {"stop", "held"}
        /\ word \in Words /\ bus = "byte"
    BY <1>0, <1>8 DEF Transfer, Controller, IicType, Active
  <2>2. rx' \in Seq(Nat) /\ Len(rx') <= 1
    <3>1. CASE rx' = rx
      BY <1>0, <3>1 DEF IicType
    <3>2. CASE rx' = Append(rx, Contents(ptr))
      <4>1. Contents(ptr) \in Nat
        BY <1>0 DEF Contents, SlaveType, Unset
      <4>2. rx = <<>> /\ rx \in Seq(Nat)
        BY <1>0, <2>1 DEF ReadInv, Active, IicType
      <4>3. Len(rx) = 0
        BY <4>2
      <4>4. QED BY <3>2, <4>1, <4>2, <4>3, AppendOne
    <3>3. QED BY <1>8, <3>1, <3>2 DEF Transfer, codecVars
  <2>3. QED BY <1>0, <2>1, <2>2 DEF IicType, Active
<1>9. CASE NoAck
  BY <1>0, <1>9, EmptySeq DEF NoAck, Controller, IicType, Active
<1>10. CASE StopBus
  BY <1>0, <1>10 DEF StopBus, Controller, IicType, Active
<1>11. CASE UNCHANGED <<iicVars, gpo>>
  BY <1>0, <1>11 DEF iicVars, IicType, Active
<1>12. QED
  BY <1>1, <1>2, <1>4, <1>5, <1>6, <1>7, <1>8, <1>9, <1>10, <1>11
     DEF Next, vars, Cpu, Bus, WaitIdle, Drained, EnableSamples, ReadIdle,
         Restart, Goto

LEMMA SlaveTypeStep == TypeInv /\ ByteInv /\ [Next]_vars => SlaveType'
<1> SUFFICES ASSUME TypeInv, ByteInv, [Next]_vars PROVE SlaveType'
  OBVIOUS
<1>0. CpuType /\ IicType /\ SlaveType
  BY DEF TypeInv
<1>1. CASE Transfer
  <2>1. /\ bus = "byte" /\ word \in Words /\ nacked' = nacked
    BY <1>0, <1>1 DEF Transfer, IicType, Active
  <2>2. CASE word[1] = "start" \/ slave = "read"
    BY <1>0, <1>1, <2>1, <2>2 DEF Transfer, SlaveType, codecVars
  <2>3. CASE word[1] # "start" /\ slave \in {"reg", "data"}
    <3>1. word[2] \in Nat
      BY <2>1, <2>3, WordFacts
    <3>2. QED BY <1>0, <1>1, <2>1, <2>3, <3>1 DEF Transfer, SlaveType
  <2>4. QED BY <1>1, <2>2, <2>3 DEF Transfer
<1>2. CASE ResetCodec
  BY <1>0, <1>2 DEF ResetCodec, SlaveType
<1>3. CASE NoAck \/ StopBus
  BY <1>0, <1>3 DEF NoAck, StopBus, codecVars, SlaveType
<1>4. CASE UNCHANGED <<codecVars, nacked>>
  BY <1>0, <1>4 DEF codecVars, SlaveType
<1>5. QED
  BY <1>1, <1>2, <1>3, <1>4
     DEF Next, vars, Cpu, Bus, SoftReset, EnableController, ReleaseCodec,
         WaitIdle, I2cWrite, Put, Drained, EnableSamples, ReadIdle, I2cRead,
         ReadResult, Goto, Restart, Fetch

-----------------------------------------------------------------------------
(* No two words of a transfer are alike, and the longest has four.         *)
Rank(w) == CASE w = Start("w") -> 1
             [] w[1] = "byte" -> 2
             [] w = Start("r") -> 3
             [] OTHER -> 4

LEMMA TransferLength ==
  ASSUME IicType, LinkInv
  PROVE  Len(tx) <= 4
<1>1. \A a, b \in Words : Follows(a, b) => Rank(a) < Rank(b)
  BY DEF Follows, Rank, Start, Byte, Stop
<1>2. \A w \in Words : Rank(w) \in 1 .. 4
  BY DEF Rank
<1>3. PICK n \in Nat : n = Len(tx)
  BY LenProperties DEF IicType
<1>4. \A i \in 1 .. n : tx[i] \in Words
  BY <1>3, ElementOfSeq DEF IicType
<1>5. ASSUME NEW i \in 1 .. n - 1
      PROVE  Rank(tx[i]) < Rank(tx[i + 1])
  <2>1. i \in 1 .. n /\ i + 1 \in 1 .. n
    BY <1>5
  <2>2. QED BY <1>1, <1>3, <1>4, <2>1 DEF LinkInv
<1>6. SUFFICES ASSUME n > 4 PROVE FALSE
  BY <1>3
<1>7. /\ 1 \in 1 .. n - 1 /\ 2 \in 1 .. n - 1 /\ 3 \in 1 .. n - 1
      /\ 4 \in 1 .. n - 1 /\ 5 \in 1 .. n
  BY <1>6
<1>8. /\ Rank(tx[1]) < Rank(tx[2]) /\ Rank(tx[2]) < Rank(tx[3])
      /\ Rank(tx[3]) < Rank(tx[4]) /\ Rank(tx[4]) < Rank(tx[5])
  BY <1>5, <1>7
<1>9. /\ Rank(tx[1]) \in 1 .. 4 /\ Rank(tx[2]) \in 1 .. 4
      /\ Rank(tx[3]) \in 1 .. 4 /\ Rank(tx[4]) \in 1 .. 4
      /\ Rank(tx[5]) \in 1 .. 4
  BY <1>2, <1>4, <1>7
<1>10. QED BY <1>8, <1>9

(* Between two transfers.                                                  *)
Rests == tx = <<>> /\ bus = "free"

LEMMA RestBus ==
  Rests => /\ LinkInv /\ HeldInv /\ ByteInv /\ IdleInv /\ NewestInv
           /\ PointerInv
<1> SUFFICES ASSUME Rests
             PROVE  /\ LinkInv /\ HeldInv /\ ByteInv /\ IdleInv /\ NewestInv
                    /\ PointerInv
  OBVIOUS
<1>1. tx = <<>> /\ Len(tx) = 0 /\ bus = "free" /\ ~Active
  BY EmptySeq DEF Rests, Active
<1>2. LinkInv
  BY <1>1 DEF LinkInv
<1>3. HeldInv /\ ByteInv /\ IdleInv /\ PointerInv
  BY <1>1 DEF HeldInv, ByteInv, IdleInv, PointerInv
<1>4. NewestInv
  BY <1>1 DEF NewestInv, Newest
<1>5. QED BY <1>2, <1>3, <1>4

(* A step of the program between two transfers.                            *)
RestStep ==
  \/ SoftReset \/ EnableController \/ ResetCodec \/ ReleaseCodec \/ WaitIdle
  \/ Drained \/ EnableSamples \/ ReadIdle

LEMMA RestStepBus ==
  ASSUME TypeInv, BusInv, RestStep
  PROVE  BusInv'
<1>0. CpuType /\ IicType /\ SlaveType /\ IdleInv /\ ReadInv /\ NoStrayWrite
  BY DEF TypeInv, BusInv
<1>1. Rests'
  BY <1>0 DEF IdleInv, Rests, RestStep, SoftReset, EnableController,
     ResetCodec, ReleaseCodec, WaitIdle, Drained, EnableSamples, ReadIdle,
     Goto, BusIdle, iicVars
<1>2. (/\ LinkInv /\ HeldInv /\ ByteInv /\ IdleInv /\ NewestInv
       /\ PointerInv)'
  BY <1>1, RestBus, PTL
<1>3. pc' \in {"cr", "release", "gpo_low", "gpo_high", "wait_idle",
               "put_start", "enable", "read_idle", "read_start", "done"}
  BY DEF RestStep, SoftReset, EnableController, ResetCodec, ReleaseCodec,
         WaitIdle, Drained, EnableSamples, ReadIdle, Goto
<1>4. WholeInv'
  BY <1>3 DEF WholeInv
<1>5. ReadInv'
  <2>1. tx' = <<>> /\ Len(tx') = 0 /\ bus' = "free"
    BY <1>1, EmptySeq DEF Rests
  <2>2. rx' = <<>>
    BY <1>0 DEF ReadInv, RestStep, SoftReset, EnableController, ResetCodec,
       ReleaseCodec, WaitIdle, Drained, EnableSamples, ReadIdle, Goto, iicVars
  <2>3. slave' = "read" =>
          pc' \in {"read_count", "read_wait", "done", "softr",
                   "cr", "release", "gpo_low"}
    BY <1>0 DEF ReadInv, RestStep, SoftReset, EnableController, ResetCodec,
       ReleaseCodec, WaitIdle, Drained, EnableSamples, ReadIdle, Goto,
       codecVars
  <2>4. QED BY <2>1, <2>2, <2>3 DEF ReadInv
<1>6. NoStrayWrite'
  <2>1. CASE ResetCodec
    BY <2>1, TableFacts DEF ResetCodec, NoStrayWrite
  <2>2. CASE UNCHANGED regs
    BY <1>0, <2>2 DEF NoStrayWrite
  <2>3. QED BY <2>1, <2>2 DEF RestStep, SoftReset, EnableController,
     ReleaseCodec, WaitIdle, Drained, EnableSamples, ReadIdle, Goto, codecVars
<1>7. WrittenInv'
  <2>1. CASE ReleaseCodec
    <3>1. pc' = "wait_idle" /\ 1 .. step' - 1 = {}
      BY <2>1 DEF ReleaseCodec, Goto
    <3>2. QED BY <3>1 DEF WrittenInv, Written
  <2>2. CASE Drained
    <3>1. /\ pc = "drain" /\ tx = <<>> /\ bus = "free" /\ ~Active
          /\ UNCHANGED <<nacked, regs>>
          /\ step \in 1 .. Len(Table) /\ Len(Table) \in Nat
      BY <1>0, <2>2, TableFacts
         DEF Drained, Goto, BusIdle, Active, CpuType, codecVars
    <3>2. ~nacked => Written(step)
      BY <3>1 DEF BusInv, WholeInv
    <3>3. CASE step < Len(Table)
      <4>1. pc' = "wait_idle" /\ step' - 1 = step
        BY <2>2, <3>1, <3>3 DEF Drained, Goto
      <4>2. QED BY <3>1, <3>2, <4>1 DEF WrittenInv, Written
    <3>4. CASE step = Len(Table)
      <4>1. pc' = "enable"
        BY <2>2, <3>1, <3>4 DEF Drained, Goto
      <4>2. QED BY <3>1, <3>2, <3>4, <4>1 DEF WrittenInv, Written
    <3>5. QED BY <3>1, <3>3, <3>4
  <2>3. CASE SoftReset \/ EnableController \/ ResetCodec
    BY <2>3 DEF SoftReset, EnableController, ResetCodec, Goto, WrittenInv
  <2>4. CASE WaitIdle \/ EnableSamples \/ ReadIdle
    BY <2>4 DEF WaitIdle, EnableSamples, ReadIdle, Goto, codecVars, BusInv,
       WrittenInv, Written
  <2>5. QED BY <2>1, <2>2, <2>3, <2>4 DEF RestStep
<1>8. ResultInv'
  <2>1. pc' = "done" => ReadBack = {}
    BY DEF RestStep, SoftReset, EnableController, ResetCodec, ReleaseCodec,
           WaitIdle, Drained, EnableSamples, ReadIdle, Goto
  <2>2. QED BY <1>3, <2>1 DEF ResultInv, Correct
<1>9. QED BY <1>2, <1>4, <1>5, <1>6, <1>7, <1>8 DEF BusInv

(* A word that may follow the newest one continues the transfer.           *)
LEMMA PutBus ==
  ASSUME TypeInv, BusInv, NEW W, NEW from, NEW to, NEW w \in Words,
         Put(from, to, w), Newest(W), \A a \in W : Follows(a, w),
         \/ /\ from = "put_start" /\ to = "put_reg" /\ w = Start("w")
         \/ /\ from = "put_reg" /\ to = "put_data" /\ w = Byte(Register)
         \/ /\ from = "put_data" /\ to = "drain" /\ w = Stop(Value)
         \/ /\ from = "read_start" /\ to = "read_reg" /\ w = Start("w")
         \/ /\ from = "read_reg" /\ to = "read_restart"
            /\ \E r \in ReadBack : w = Byte(r)
         \/ /\ from = "read_restart" /\ to = "read_count" /\ w = Start("r")
         \/ /\ from = "read_count" /\ to = "read_wait" /\ w = Stop(1)
  PROVE  BusInv'
<1>n. PICK n \in Nat : n = Len(tx)
  BY LenProperties DEF TypeInv, IicType
<1>1. /\ pc = from /\ pc' = to /\ Len(tx') = n + 1 /\ tx' # <<>>
      /\ \A i \in 1 .. n : tx'[i] = tx[i]
      /\ tx'[n + 1] = w /\ (tx = <<>> <=> n = 0)
      /\ UNCHANGED <<step, result, rx, bus, word, slave, ptr, regs, nacked>>
  BY <1>n, PutProperties DEF TypeInv
<1>2. /\ CpuType /\ IicType /\ SlaveType /\ IdleInv /\ ReadInv /\ LinkInv
      /\ HeldInv /\ ByteInv /\ NoStrayWrite /\ WholeInv /\ WrittenInv
  BY DEF TypeInv, BusInv
<1>3. (Active' <=> Active) /\ Register' = Register /\ Value' = Value
      /\ \A a, b : Follows(a, b)' <=> Follows(a, b)
  BY <1>1 DEF Active, Register, Value, Follows
<1>4. LinkInv'
  <2>1. ASSUME NEW i \in 1 .. n
        PROVE  Follows(tx'[i], tx'[i + 1])
    <3>1. CASE i \in 1 .. n - 1
      <4>1. i + 1 \in 1 .. n
        BY <3>1
      <4>2. QED BY <1>n, <1>1, <1>2, <3>1, <4>1 DEF LinkInv
    <3>2. CASE i = n
      <4>1. tx[n] \in W
        BY <1>n, <1>1, <3>2 DEF Newest
      <4>2. QED BY <1>1, <3>2, <4>1
    <3>3. QED BY <3>1, <3>2
  <2>2. ASSUME Active PROVE Follows(word, tx'[1])
    <3>1. CASE n = 0
      <4>1. word \in W /\ tx'[1] = w
        BY <1>1, <2>2, <3>1 DEF Newest
      <4>2. QED BY <4>1
    <3>2. CASE n > 0
      <4>1. tx # <<>> /\ tx'[1] = tx[1]
        BY <1>1, <3>2
      <4>2. QED BY <1>2, <2>2, <4>1 DEF LinkInv
    <3>3. QED BY <3>1, <3>2
  <2>3. QED BY <1>1, <1>3, <2>1, <2>2 DEF LinkInv, Follows
<1>5. HeldInv' /\ ByteInv' /\ NoStrayWrite'
  BY <1>1, <1>2, <1>3 DEF HeldInv, ByteInv, NoStrayWrite
<1>6. IdleInv'
  BY <1>1 DEF IdleInv
<1>7. NewestInv'
  <2>1. tx'[Len(tx')] = w /\ tx' # <<>>
    BY <1>1
  <2>2. QED BY <1>1, <1>3, <2>1 DEF NewestInv, Newest
<1>8. rx = <<>>
  BY <1>1, <1>2 DEF ReadInv
<1>9. ReadInv'
  <2>1. slave' = "read" => to = "read_wait"
    BY <1>1, <1>2 DEF ReadInv
  <2>2. bus' = "byte" /\ word' = Start("r") => to = "read_wait"
    BY <1>1, <1>2 DEF ReadInv
  <2>3. ASSUME NEW i \in 1 .. n + 1, tx'[i] = Start("r")
        PROVE  to \in {"read_count", "read_wait"}
    <3>1. CASE i \in 1 .. n
      BY <1>n, <1>1, <1>2, <2>3, <3>1 DEF ReadInv
    <3>2. CASE i = n + 1
      BY <1>1, <2>3, <3>2, WordFacts DEF Start, Byte, Stop
    <3>3. QED BY <3>1, <3>2
  <2>4. QED BY <1>1, <1>8, <2>1, <2>2, <2>3 DEF ReadInv
<1>10. WholeInv'
  <2>1. CASE from \in {"put_start", "read_start"}
    <3>1. tx = <<>> /\ bus = "free"
      BY <1>1, <1>2, <2>1 DEF IdleInv
    <3>2. tx'[1] = Start("w")
      BY <1>1, <2>1, <3>1
    <3>3. QED BY <1>1, <3>1, <3>2 DEF WholeInv
  <2>2. CASE from \notin {"put_start", "read_start"}
    <3>1. ASSUME ~nacked, ~Active
          PROVE  bus = "free" /\ tx # <<>> /\ tx[1] = Start("w")
      BY <1>1, <1>2, <2>2, <3>1 DEF WholeInv
    <3>2. tx # <<>> => tx'[1] = tx[1]
      BY <1>1
    <3>3. QED BY <1>1, <1>3, <3>1, <3>2 DEF WholeInv
  <2>3. QED BY <2>1, <2>2
<1>11. WrittenInv'
  BY <1>1, <1>2 DEF WrittenInv, Written
<1>12. PointerInv'
  <2>1. CASE from = "read_restart"
    <3>1. slave # "read" /\ ~(bus = "byte" /\ word = Start("r"))
      BY <1>1, <1>2, <2>1 DEF ReadInv
    <3>2. ~(bus = "held" /\ word = Start("r"))
      BY <1>2, <3>1, WordFacts DEF HeldInv, Start, Byte
    <3>3. QED BY <1>1, <1>3, <3>1, <3>2 DEF PointerInv, Active
  <2>2. CASE from # "read_restart"
    BY <1>1, <1>3, <2>2 DEF PointerInv, BusInv
  <2>3. QED BY <2>1, <2>2
<1>13. ResultInv'
  BY <1>1, <1>8 DEF ResultInv
<1>14. QED
  BY <1>4, <1>5, <1>6, <1>7, <1>9, <1>10, <1>11, <1>12, <1>13 DEF BusInv

LEMMA I2cWriteBus ==
  ASSUME TypeInv, BusInv, I2cWrite
  PROVE  BusInv'
<1>1. /\ Start("w") \in Words /\ Byte(Register) \in Words
      /\ Stop(Value) \in Words
  BY WordFacts, TableFacts DEF TypeInv, CpuType, Register, Value
<1>2. CASE Put("put_start", "put_reg", Start("w"))
  <2>1. tx = <<>> /\ ~Active
    BY <1>2 DEF Put, Goto, BusInv, IdleInv, Active
  <2>2. Newest({})
    BY <2>1 DEF Newest
  <2>3. QED BY <1>1, <1>2, <2>2, PutBus
<1>3. CASE Put("put_reg", "put_data", Byte(Register))
  <2>1. Newest({Start("w")})
    BY <1>3 DEF Put, Goto, BusInv, NewestInv
  <2>2. Follows(Start("w"), Byte(Register))
    BY DEF Follows, Byte
  <2>3. QED BY <1>1, <1>3, <2>1, <2>2, PutBus
<1>4. CASE Put("put_data", "drain", Stop(Value))
  <2>1. Newest({Byte(Register)})
    BY <1>4 DEF Put, Goto, BusInv, NewestInv
  <2>2. Follows(Byte(Register), Stop(Value))
    BY DEF Follows
  <2>3. QED BY <1>1, <1>4, <2>1, <2>2, PutBus
<1>5. QED BY <1>2, <1>3, <1>4 DEF I2cWrite, Register, Value

LEMMA I2cReadBus ==
  ASSUME TypeInv, BusInv, I2cRead
  PROVE  BusInv'
<1>1. /\ Start("w") \in Words /\ Start("r") \in Words /\ Stop(1) \in Words
      /\ \A r \in ReadBack : Byte(r) \in Words
  BY WordFacts, TableFacts
<1>2. CASE Put("read_start", "read_reg", Start("w"))
  <2>1. tx = <<>> /\ ~Active
    BY <1>2 DEF Put, Goto, BusInv, IdleInv, Active
  <2>2. Newest({})
    BY <2>1 DEF Newest
  <2>3. QED BY <1>1, <1>2, <2>2, PutBus
<1>3. ASSUME NEW r \in ReadBack, Put("read_reg", "read_restart", Byte(r))
      PROVE  BusInv'
  <2>1. Newest({Start("w")})
    BY <1>3 DEF Put, Goto, BusInv, NewestInv
  <2>2. Follows(Start("w"), Byte(r))
    BY DEF Follows, Byte
  <2>3. QED BY <1>1, <1>3, <2>1, <2>2, PutBus
<1>4. CASE Put("read_restart", "read_count", Start("r"))
  <2>1. Newest({Byte(r) : r \in ReadBack})
    BY <1>4 DEF Put, Goto, BusInv, NewestInv
  <2>2. \A a \in {Byte(r) : r \in ReadBack} : Follows(a, Start("r"))
    BY DEF Follows
  <2>3. QED BY <1>1, <1>4, <2>1, <2>2, PutBus
<1>5. CASE Put("read_count", "read_wait", Stop(1))
  <2>1. Newest({Start("r")})
    BY <1>5 DEF Put, Goto, BusInv, NewestInv
  <2>2. Follows(Start("r"), Stop(1))
    BY DEF Follows
  <2>3. QED BY <1>1, <1>5, <2>1, <2>2, PutBus
<1>6. QED BY <1>2, <1>3, <1>4, <1>5 DEF I2cRead

(* i2c_read returns, and the program starts again.                         *)
LEMMA ReadResultBus ==
  ASSUME TypeInv, BusInv, ReadResult
  PROVE  BusInv'
<1>1. /\ pc = "read_wait" /\ pc' = "done" /\ rx # <<>>
      /\ result' = Head(rx) /\ rx' = Tail(rx)
      /\ UNCHANGED <<step, tx, bus, word, codecVars, nacked>>
  BY DEF ReadResult, Goto
<1>2. /\ rx \in Seq(Nat) /\ Len(rx) <= 1 /\ ReadInv /\ WrittenInv
      /\ NoStrayWrite /\ LinkInv /\ HeldInv /\ ByteInv /\ ResultInv
  BY DEF TypeInv, IicType, BusInv
<1>3. /\ rx' = <<>> /\ result' = rx[1] /\ tx = <<>> /\ Len(tx) = 0 /\ ~Active
  BY <1>1, <1>2, TailOne, EmptySeq DEF ReadInv
<1>4. (Active' <=> Active) /\ ~Active'
  BY <1>1, <1>3 DEF Active
<1>5. LinkInv' /\ HeldInv' /\ ByteInv' /\ NoStrayWrite'
  BY <1>1, <1>2, <1>3, <1>4
     DEF LinkInv, HeldInv, ByteInv, Active, NoStrayWrite, codecVars
<1>6. IdleInv' /\ NewestInv' /\ WholeInv' /\ PointerInv'
  BY <1>1, <1>3, <1>4 DEF IdleInv, NewestInv, WholeInv, PointerInv
<1>7. ReadInv'
  BY <1>1, <1>3, <1>4 DEF ReadInv, Active
<1>8. WrittenInv'
  BY <1>1, <1>2 DEF WrittenInv, Written, codecVars
<1>9. ResultInv'
  BY <1>1, <1>2, <1>3 DEF ResultInv, Correct
<1>10. QED BY <1>5, <1>6, <1>7, <1>8, <1>9 DEF BusInv

LEMMA RestartBus ==
  ASSUME BusInv, Restart
  PROVE  BusInv'
<1>1. /\ pc' = "softr"
      /\ UNCHANGED <<step, tx, rx, bus, word, codecVars, nacked>>
  BY DEF Restart, iicVars
<1>2. LinkInv' /\ HeldInv' /\ ByteInv' /\ NoStrayWrite'
  BY <1>1 DEF BusInv, LinkInv, Follows, Register, Value, HeldInv, ByteInv,
     Active, NoStrayWrite, codecVars
<1>3. /\ IdleInv' /\ NewestInv' /\ WholeInv' /\ WrittenInv' /\ PointerInv'
      /\ ResultInv'
  BY <1>1 DEF IdleInv, NewestInv, WholeInv, WrittenInv, PointerInv, ResultInv
<1>4. ReadInv'
  BY <1>1 DEF BusInv, ReadInv, Active, codecVars
<1>5. QED BY <1>2, <1>3, <1>4 DEF BusInv

(* The controller takes the next word of a transfer, or the first one.     *)
LEMMA FetchBus ==
  ASSUME TypeInv, BusInv, Fetch
  PROVE  BusInv'
<1>n. PICK n \in Nat : n = Len(tx)
  BY LenProperties DEF TypeInv, IicType
<1>1. /\ n > 0 /\ tx # <<>> /\ Len(tx') = n - 1
      /\ tx' = <<>> <=> n = 1
      /\ \A i \in 1 .. n - 1 : tx'[i] = tx[i + 1]
      /\ word' = tx[1] /\ tx[1] \in Words /\ bus' = "byte" /\ Active'
      /\ bus = "held" \/ (bus = "free" /\ tx[1][1] = "start")
      /\ UNCHANGED <<rx, slave, ptr, regs, nacked, pc, step, result>>
  <2>1. tx \in Seq(Words) /\ tx # <<>> /\ tx' = Tail(tx) /\ word' = Head(tx)
    BY DEF Fetch, Controller, TypeInv, IicType
  <2>2. n > 0 /\ Len(tx') = n - 1 /\ (tx' = <<>> <=> n = 1)
    BY <1>n, <2>1, TailOne
  <2>3. \A i \in 1 .. n - 1 : tx'[i] = tx[i + 1]
    BY <1>n, <2>1, TailOne
  <2>4. word' = tx[1] /\ tx[1] \in Words
    BY <2>1, TailOne
  <2>5. /\ bus' = "byte" /\ Active'
        /\ bus = "held" \/ (bus = "free" /\ tx[1][1] = "start")
        /\ UNCHANGED <<rx, slave, ptr, regs, nacked, pc, step, result>>
    BY <2>1, <2>4 DEF Fetch, Controller, cpuVars, codecVars, Active
  <2> QED BY <2>1, <2>2, <2>3, <2>4, <2>5
<1>2. /\ ReadInv /\ LinkInv /\ HeldInv /\ IdleInv /\ NewestInv
      /\ NoStrayWrite /\ WholeInv /\ WrittenInv /\ PointerInv
  BY DEF BusInv
<1>3. Register' = Register /\ Value' = Value
  BY <1>1 DEF Register, Value
<1>4. ASSUME NEW i \in 1 .. n - 1
      PROVE  Follows(tx[i], tx[i + 1])
  BY <1>n, <1>2, <1>4 DEF LinkInv
<1>5. LinkInv'
  <2>1. ASSUME NEW i \in 1 .. n - 2
        PROVE  Follows(tx'[i], tx'[i + 1])
    <3>1. /\ i \in 1 .. n - 1 /\ i + 1 \in 1 .. n - 1
          /\ tx'[i] = tx[i + 1] /\ tx'[i + 1] = tx[i + 2]
      BY <1>1, <2>1
    <3>2. Follows(tx[i + 1], tx[i + 1 + 1]) /\ i + 1 + 1 = i + 2
      BY <1>4, <3>1
    <3>3. QED BY <3>1, <3>2
  <2>2. ASSUME tx' # <<>> PROVE Follows(word', tx'[1])
    <3>1. 1 \in 1 .. n - 1 /\ tx'[1] = tx[2]
      BY <1>1, <2>2
    <3>2. QED BY <1>1, <1>4, <3>1
  <2>3. QED BY <1>1, <1>3, <2>1, <2>2 DEF LinkInv, Follows
<1>6. HeldInv'
  BY <1>1 DEF HeldInv
<1>7. ASSUME bus = "held"
      PROVE  /\ Follows(word, tx[1])
             /\ \/ slave = "reg" /\ tx[1][1] = "byte"
                \/ slave = "data" /\ tx[1] = Stop(Value) /\ ptr = Register
                \/ slave = "data" /\ tx[1] = Start("r") /\ ptr \in ReadBack
                \/ slave = "read" /\ word = Start("r") /\ tx[1] = Stop(1)
  <2>1. Follows(word, tx[1])
    BY <1>1, <1>2, <1>7 DEF LinkInv, Active
  <2>2. \/ word = Start("w") /\ slave = "reg"
        \/ word = Byte(ptr) /\ slave = "data"
        \/ word = Start("r") /\ slave = "read"
    BY <1>2, <1>7 DEF HeldInv
  <2>3. QED BY <2>1, <2>2 DEF Follows, Start, Byte, Stop
<1>8. ByteInv'
  BY <1>1, <1>3, <1>7 DEF ByteInv, Start
<1>9. IdleInv'
  BY <1>1, <1>2 DEF IdleInv, Active
<1>10. NewestInv'
  <2>1. ASSUME NEW W, Newest(W)
        PROVE  /\ tx' # <<>> => tx'[Len(tx')] \in W
               /\ tx' = <<>> => word' \in W
    <3>1. tx[n] \in W
      BY <1>n, <1>1, <2>1 DEF Newest
    <3>2. CASE n = 1
      BY <1>1, <3>1, <3>2
    <3>3. CASE n > 1
      <4>1. n - 1 \in 1 .. n - 1 /\ n - 1 + 1 = n
        BY <3>3
      <4>2. tx'[n - 1] = tx[n]
        BY <1>1, <4>1
      <4>3. QED BY <1>1, <3>1, <3>3, <4>2
    <3>4. QED BY <1>1, <3>2, <3>3
  <2> DEFINE N(W) == /\ tx' # <<>> => tx'[Len(tx')] \in W
                     /\ tx' = <<>> => word' \in W
  <2>2. /\ pc \in {"put_reg", "read_reg"} => N({Start("w")})
        /\ pc = "put_data" => N({Byte(Register)})
        /\ pc = "drain" => N({Stop(Value)})
        /\ pc = "read_restart" => N({Byte(r) : r \in ReadBack})
        /\ pc = "read_count" => N({Start("r")})
        /\ pc = "read_wait" => N({Stop(1)})
    BY <1>2, <2>1 DEF NewestInv
  <2>3. QED BY <1>1, <1>3, <2>2 DEF NewestInv, Newest
<1>11. ReadInv'
  <2>1. rx = <<>>
    BY <1>1, <1>2 DEF ReadInv
  <2>2. ASSUME NEW i \in 1 .. n - 1, tx'[i] = Start("r")
        PROVE  pc \in {"read_count", "read_wait", "softr"}
    <3>1. i + 1 \in 1 .. n /\ tx[i + 1] = Start("r")
      BY <1>1, <2>2
    <3>2. QED BY <1>n, <1>2, <3>1 DEF ReadInv
  <2>3. word' = Start("r") => pc \in {"read_count", "read_wait", "softr"}
    <3>1. 1 \in 1 .. n
      BY <1>1
    <3>2. QED BY <1>n, <1>1, <1>2, <3>1 DEF ReadInv
  <2>4. QED BY <1>1, <1>2, <2>1, <2>2, <2>3 DEF ReadInv
<1>12. WholeInv'
  BY <1>1 DEF WholeInv
<1>13. WrittenInv' /\ NoStrayWrite'
  BY <1>1, <1>2 DEF WrittenInv, Written, NoStrayWrite
<1>14. PointerInv'
  <2>1. SUFFICES ASSUME ~nacked, pc \in {"read_count", "read_wait"},
                        \/ tx[1] = Start("r")
                        \/ slave = "read" /\ tx[1][1] = "stop"
                 PROVE  ptr \in ReadBack
    BY <1>1 DEF PointerInv
  <2>2. CASE bus = "free"
    <3>1. tx[1] = Start("w")
      BY <1>1, <1>2, <2>1, <2>2 DEF WholeInv, Active
    <3>2. QED BY <2>1, <3>1, WordFacts
  <2>3. CASE bus = "held"
    <3>1. CASE slave = "read" /\ word = Start("r")
      BY <1>2, <2>1, <2>3, <3>1 DEF PointerInv, Active
    <3>2. CASE slave # "read"
      BY <1>7, <2>1, <2>3, <3>2 DEF Start, Stop
    <3>3. QED BY <1>7, <2>3, <3>1, <3>2
  <2>4. QED BY <1>1, <2>2, <2>3
<1>15. ResultInv'
  BY <1>1, <1>2 DEF BusInv, ReadInv, ResultInv
<1>16. QED
  BY <1>5, <1>6, <1>8, <1>9, <1>10, <1>11, <1>12, <1>13, <1>14, <1>15
     DEF BusInv

(* A word that goes over the bus and does not end the transfer.            *)
LEMMA TransferOn ==
  ASSUME TypeInv, BusInv, Transfer, bus' = "held"
  PROVE  BusInv'
<1>1. /\ bus = "byte" /\ Active /\ Active' /\ word \in Words
      /\ word[1] # "stop"
      /\ UNCHANGED <<tx, word, nacked, pc, step, result>>
  BY DEF Transfer, Controller, cpuVars, Active, TypeInv, IicType
<1>2. /\ ReadInv /\ LinkInv /\ ByteInv /\ IdleInv /\ NewestInv
      /\ NoStrayWrite /\ WholeInv /\ WrittenInv /\ PointerInv
  BY DEF BusInv
<1>3. /\ UNCHANGED <<rx, regs>>
      /\ \/ word = Start("w") /\ slave' = "reg" /\ ptr' = ptr
         \/ word = Start("r") /\ slave' = "read" /\ ptr' = ptr
         \/ word = Byte(ptr') /\ slave' = "data" /\ ptr' \in Nat
  <2>1. CASE word[1] = "start"
    BY <1>1, <2>1, WordFacts DEF Transfer
  <2>2. CASE word[1] # "start"
    <3>1. word[1] = "byte" /\ slave = "reg"
      BY <1>1, <1>2, <2>2 DEF ByteInv, Stop
    <3>2. word[2] \in Nat /\ word = Byte(word[2])
      BY <1>1, <3>1, WordFacts DEF Start
    <3>3. QED BY <3>1, <3>2 DEF Transfer
  <2>3. QED BY <2>1, <2>2
<1>4. rx = <<>>
  BY <1>1, <1>2 DEF ReadInv
<1>5. LinkInv'
  BY <1>1, <1>2 DEF LinkInv, Follows, Register, Value
<1>6. HeldInv'
  BY <1>1, <1>3 DEF HeldInv
<1>7. ByteInv' /\ IdleInv' /\ WholeInv'
  BY <1>1, <1>2 DEF ByteInv, IdleInv, WholeInv
<1>8. NewestInv'
  BY <1>1, <1>2 DEF NewestInv, Newest, Register, Value
<1>9. WrittenInv' /\ NoStrayWrite'
  BY <1>1, <1>2, <1>3 DEF WrittenInv, Written, NoStrayWrite
<1>10. ReadInv'
  BY <1>1, <1>2, <1>3, <1>4 DEF ReadInv
<1>11. PointerInv'
  BY <1>1, <1>2, <1>3 DEF PointerInv, Start, Byte
<1>12. ResultInv'
  BY <1>1, <1>2, <1>3, <1>4 DEF ResultInv, IdleInv
<1>13. QED
  BY <1>5, <1>6, <1>7, <1>8, <1>9, <1>10, <1>11, <1>12 DEF BusInv

(* The last word: a register is written, or read.                          *)
LEMMA TransferEnd ==
  ASSUME TypeInv, BusInv, Transfer, bus' = "stop"
  PROVE  BusInv'
<1>1. /\ bus = "byte" /\ Active /\ ~Active' /\ word \in Words
      /\ word[1] = "stop" /\ UNCHANGED <<tx, word, nacked, pc, step, result>>
  BY DEF Transfer, Controller, cpuVars, Active, TypeInv, IicType
<1>2. /\ ReadInv /\ LinkInv /\ ByteInv /\ IdleInv /\ NewestInv
      /\ NoStrayWrite /\ WholeInv /\ WrittenInv /\ PointerInv
      /\ CpuType /\ SlaveType /\ IicType
  BY DEF BusInv, TypeInv
<1>3. rx = <<>>
  BY <1>1, <1>2 DEF ReadInv
<1>4. tx = <<>> /\ Len(tx) = 0
  <2>1. tx # <<>> => Follows(word, tx[1])
    BY <1>1, <1>2 DEF LinkInv
  <2>2. tx = <<>>
    BY <1>1, <2>1 DEF Follows, Start, Byte
  <2>3. QED BY <2>2, EmptySeq
<1>5. \/ /\ slave = "data" /\ word = Stop(Value) /\ ptr = Register
         /\ regs' = [regs EXCEPT ![Register] = Value]
         /\ UNCHANGED <<rx, slave, ptr>>
      \/ /\ slave = "read" /\ word = Stop(1)
         /\ rx' = Append(rx, Contents(ptr))
         /\ UNCHANGED <<slave, ptr, regs>>
  <2>1. Register \in Registers
    BY <1>2, TableFacts DEF Register, CpuType
  <2>2. \/ slave = "data" /\ word = Stop(Value) /\ ptr = Register
        \/ slave = "read" /\ word = Stop(1)
    BY <1>1, <1>2 DEF ByteInv
  <2>3. word[2] = Value \/ slave = "read"
    BY <2>2, WordFacts
  <2>4. QED BY <1>1, <2>1, <2>2, <2>3 DEF Transfer, codecVars
<1>6. ASSUME NEW i \in DOMAIN Table
      PROVE  \/ regs'[Table[i][1]] = regs[Table[i][1]]
             \/ regs'[Table[i][1]] = Table[i][2]
  <2>1. CASE regs' = [regs EXCEPT ![Register] = Value]
    <3>1. regs \in [Registers -> Nat \union {Unset}] /\ step \in DOMAIN Table
      BY <1>2 DEF SlaveType, CpuType
    <3>2. CASE i = step
      BY <1>6, <2>1, <3>1, <3>2, TableFacts DEF Register, Value
    <3>3. CASE i # step
      <4>1. Table[i][1] # Register
        BY <3>1, <3>3, TableFacts DEF Register
      <4>2. QED BY <2>1, <3>1, <4>1, TableFacts
    <3>4. QED BY <3>2, <3>3
  <2>2. QED BY <1>5, <2>1
<1>7. ASSUME NEW m \in 0 .. Len(Table),
             \A i \in 1 .. m : regs[Table[i][1]] = Table[i][2],
             NEW i \in 1 .. m
      PROVE  regs'[Table[i][1]] = Table[i][2]
  <2>1. i \in DOMAIN Table
    BY TableFacts
  <2>2. QED BY <1>6, <1>7, <2>1
<1>8. step \in 1 .. Len(Table) /\ Len(Table) \in Nat
  BY <1>2, TableFacts DEF CpuType
<1>9. NoStrayWrite'
  BY <1>2, <1>6 DEF NoStrayWrite
<1>10. LinkInv' /\ HeldInv' /\ ByteInv' /\ NewestInv' /\ PointerInv'
  BY <1>1, <1>4 DEF LinkInv, HeldInv, ByteInv, NewestInv, Newest, PointerInv,
     Active
<1>11. IdleInv'
  BY <1>1, <1>2 DEF IdleInv
<1>12. WrittenInv'
  <2>1. step - 1 \in 0 .. Len(Table) /\ Len(Table) \in 0 .. Len(Table)
    BY <1>8
  <2>2. /\ Written(step - 1) =>
             \A i \in 1 .. step - 1 : regs'[Table[i][1]] = Table[i][2]
        /\ Written(Len(Table)) =>
             \A i \in 1 .. Len(Table) : regs'[Table[i][1]] = Table[i][2]
    BY <1>7, <2>1 DEF Written
  <2>3. QED BY <1>1, <1>2, <2>2 DEF WrittenInv, Written
<1>13. ReadInv'
  <2>1. slave = "read" => pc \in {"read_wait", "softr"}
    <3>1. pc # "done" /\ pc \notin {"cr", "release", "gpo_low"}
      BY <1>1, <1>2 DEF IdleInv
    <3>2. pc # "read_count"
      <4>1. pc = "read_count" => word \in {Start("r")}
        BY <1>1, <1>2, <1>4 DEF NewestInv, Newest
      <4>2. QED BY <1>1, <4>1 DEF Start
    <3>3. QED BY <1>2, <3>1, <3>2 DEF ReadInv
  <2>2. QED BY <1>1, <1>2, <1>3, <1>4, <1>5, <2>1 DEF ReadInv
<1>14. WholeInv'
  <2>1. SUFFICES ASSUME ~nacked, pc \in {"put_reg", "put_data", "drain",
                          "read_reg", "read_restart", "read_count",
                          "read_wait"}
                 PROVE  /\ pc \in {"drain", "read_wait"}
                        /\ pc = "drain" => Written(step)'
    BY <1>1, <1>4 DEF WholeInv, Written
  <2>2. pc \in {"drain", "read_wait"}
    BY <1>1, <1>2, <1>4, <2>1 DEF NewestInv, Newest, Start, Byte
  <2>3. ASSUME pc = "drain" PROVE Written(step)'
    <3>1. Written(step - 1)
      BY <1>2, <2>1, <2>3 DEF WrittenInv
    <3>2. regs' = [regs EXCEPT ![Register] = Value]
      <4>1. slave # "read"
        BY <1>2, <2>3 DEF ReadInv
      <4>2. QED BY <1>5, <4>1
    <3>3. regs'[Table[step][1]] = Table[step][2]
      BY <1>2, <3>2, TableFacts DEF SlaveType, CpuType, Register, Value
    <3>4. ASSUME NEW i \in 1 .. step
          PROVE  regs'[Table[i][1]] = Table[i][2]
      <4>1. CASE i = step
        BY <3>3, <4>1
      <4>2. CASE i \in 1 .. step - 1
        <5>1. i \in DOMAIN Table
          BY <1>8, TableFacts
        <5>2. regs[Table[i][1]] = Table[i][2]
          BY <3>1, <4>2 DEF Written
        <5>3. QED BY <1>6, <5>1, <5>2
      <4>3. QED BY <1>8, <4>1, <4>2
    <3>5. QED BY <1>1, <3>4 DEF Written
  <2>4. QED BY <2>2, <2>3
<1>15. ResultInv'
  <2>1. pc # "done"
    BY <1>1, <1>2 DEF IdleInv
  <2>2. ASSUME ~nacked, pc = "read_wait", rx' # <<>>
        PROVE  Correct(rx'[1])
    <3>1. slave = "read" /\ rx' = Append(rx, Contents(ptr))
      BY <1>3, <1>5, <2>2
    <3>2. ptr \in ReadBack /\ Written(Len(Table))
      BY <1>1, <1>2, <2>2, <3>1 DEF PointerInv, WrittenInv
    <3>3. rx'[1] = Contents(ptr)
      <4>1. Contents(ptr) \in Nat
        BY <1>2 DEF Contents, SlaveType, Unset
      <4>2. rx \in Seq(Nat) /\ Len(rx) = 0
        BY <1>2, <1>3, EmptySeq DEF IicType
      <4>3. QED BY <3>1, <4>1, <4>2, AppendOne
    <3>4. ASSUME NEW i \in DOMAIN Table, Table[i][1] = ptr
          PROVE  Contents(ptr) = Table[i][2]
      <4>1. i \in 1 .. Len(Table) /\ ptr \in Registers /\ Table[i][2] \in Nat
        BY <3>2, <3>4, TableFacts
      <4>2. regs[ptr] = Table[i][2]
        BY <3>2, <3>4, <4>1 DEF Written
      <4>3. QED BY <4>1, <4>2 DEF Contents, Unset
    <3>5. QED BY <3>2, <3>3, <3>4, TableFacts DEF Correct
  <2>3. QED BY <1>1, <2>1, <2>2 DEF ResultInv, Correct
<1>16. QED
  BY <1>9, <1>10, <1>11, <1>12, <1>13, <1>14, <1>15 DEF BusInv

(* A transfer that was refused is over, and so is one that was stopped.    *)
LEMMA NoAckBus ==
  ASSUME TypeInv, BusInv, NoAck
  PROVE  BusInv'
<1>1. /\ bus = "byte" /\ bus' = "stop" /\ Active /\ ~Active' /\ nacked'
      /\ tx' \in {tx, <<>>}
      /\ UNCHANGED <<rx, word, slave, ptr, regs, pc, step, result>>
  BY DEF NoAck, Controller, cpuVars, codecVars, Active
<1>2. /\ ReadInv /\ LinkInv /\ IdleInv /\ NewestInv /\ NoStrayWrite
  BY DEF BusInv
<1>3. Len(<<>>) = 0
  OBVIOUS
<1>4. rx = <<>>
  BY <1>1, <1>2 DEF ReadInv
<1>5. LinkInv'
  <2>1. ASSUME NEW i \in 1 .. Len(tx') - 1
        PROVE  Follows(tx'[i], tx'[i + 1])
    BY <1>1, <1>2, <1>3 DEF LinkInv
  <2>2. QED BY <1>1, <2>1 DEF LinkInv, Follows, Register, Value
<1>6. HeldInv' /\ ByteInv'
  BY <1>1 DEF HeldInv, ByteInv
<1>7. IdleInv'
  BY <1>1, <1>2 DEF IdleInv
<1>8. NewestInv'
  BY <1>1, <1>2 DEF NewestInv, Newest, Register, Value
<1>9. ReadInv'
  <2>1. ASSUME NEW i \in 1 .. Len(tx'), tx'[i] = Start("r")
        PROVE  pc \in {"read_count", "read_wait", "softr"}
    BY <1>1, <1>2, <1>3, <2>1 DEF ReadInv
  <2>2. QED BY <1>1, <1>2, <1>4, <2>1 DEF ReadInv
<1>10. /\ WholeInv' /\ WrittenInv' /\ PointerInv' /\ ResultInv'
       /\ NoStrayWrite'
  BY <1>1, <1>2 DEF WholeInv, WrittenInv, PointerInv, ResultInv, NoStrayWrite
<1>11. QED BY <1>5, <1>6, <1>7, <1>8, <1>9, <1>10 DEF BusInv

LEMMA StopBusBus ==
  ASSUME TypeInv, BusInv, StopBus
  PROVE  BusInv'
<1>1. /\ bus = "stop" /\ bus' = "free" /\ ~Active /\ ~Active'
      /\ slave' = "idle"
      /\ UNCHANGED <<tx, rx, word, ptr, regs, nacked, pc, step, result>>
  BY DEF StopBus, Controller, cpuVars, Active
<1>2. /\ ReadInv /\ LinkInv /\ IdleInv /\ NewestInv /\ NoStrayWrite
      /\ WholeInv /\ WrittenInv /\ ResultInv
  BY DEF BusInv
<1>3. LinkInv' /\ NewestInv'
  BY <1>1, <1>2 DEF LinkInv, Follows, NewestInv, Newest, Register, Value
<1>4. HeldInv' /\ ByteInv' /\ PointerInv'
  BY <1>1 DEF HeldInv, ByteInv, PointerInv
<1>5. IdleInv' /\ ReadInv'
  BY <1>1, <1>2 DEF IdleInv, ReadInv
<1>6. WholeInv' /\ WrittenInv' /\ ResultInv' /\ NoStrayWrite'
  BY <1>1, <1>2
     DEF WholeInv, WrittenInv, Written, ResultInv, Correct, NoStrayWrite
<1>7. QED BY <1>3, <1>4, <1>5, <1>6 DEF BusInv

-----------------------------------------------------------------------------
LEMMA BusInit == Init => BusInv
<1> SUFFICES ASSUME Init PROVE BusInv
  OBVIOUS
<1>1. (/\ LinkInv /\ HeldInv /\ ByteInv /\ IdleInv /\ NewestInv
       /\ PointerInv)
  BY RestBus DEF Init, Rests
<1>2. ReadInv
  BY EmptySeq DEF Init, ReadInv
<1>3. WholeInv /\ WrittenInv /\ ResultInv
  BY DEF Init, WholeInv, WrittenInv, ResultInv
<1>4. NoStrayWrite
  BY TableFacts DEF Init, NoStrayWrite
<1>5. QED BY <1>1, <1>2, <1>3, <1>4 DEF BusInv

LEMMA BusStep == TypeInv /\ BusInv /\ [Next]_vars => BusInv'
<1> SUFFICES ASSUME TypeInv, BusInv, [Next]_vars PROVE BusInv'
  OBVIOUS
<1>1. CASE RestStep BY <1>1, RestStepBus
<1>2. CASE I2cWrite BY <1>2, I2cWriteBus
<1>3. CASE I2cRead BY <1>3, I2cReadBus
<1>4. CASE ReadResult BY <1>4, ReadResultBus
<1>5. CASE Restart BY <1>5, RestartBus
<1>6. CASE Fetch BY <1>6, FetchBus
<1>7. CASE Transfer
  <2>1. bus' = "held" \/ bus' = "stop"
    BY <1>7 DEF Transfer
  <2>2. QED BY <1>7, <2>1, TransferOn, TransferEnd
<1>8. CASE NoAck BY <1>8, NoAckBus
<1>9. CASE StopBus BY <1>9, StopBusBus
<1>10. CASE UNCHANGED vars
  BY <1>10
     DEF vars, cpuVars, iicVars, codecVars, BusInv, LinkInv, Follows,
         Register, Value, Active, HeldInv, ByteInv, IdleInv, NewestInv,
         Newest, ReadInv, WholeInv, WrittenInv, Written, PointerInv,
         NoStrayWrite, ResultInv, Correct
<1>11. QED
  BY <1>1, <1>2, <1>3, <1>4, <1>5, <1>6, <1>7, <1>8, <1>9, <1>10
     DEF Next, Cpu, Bus, RestStep

LEMMA I2cInvariance == Spec => []I2cInv
<1>1. I2cInv /\ [Next]_vars => I2cInv'
  <2> SUFFICES ASSUME I2cInv, [Next]_vars PROVE I2cInv'
    OBVIOUS
  <2>1. TypeInv /\ BusInv /\ CpuType /\ IicType /\ ReadInv /\ ByteInv
    BY DEF I2cInv, TypeInv, BusInv
  <2>2. TypeInv'
    BY <2>1, CpuTypeStep, IicTypeStep, SlaveTypeStep DEF TypeInv
  <2>3. QED BY <2>1, <2>2, BusStep DEF I2cInv
<1>2. Init => I2cInv
  BY TypeInit, BusInit DEF I2cInv
<1>3. QED BY <1>1, <1>2, PTL DEF Spec

(* The FIFOs of the controller never hold more than they can: TX_DEPTH     *)
(* words, and the one byte that was asked for.                             *)
THEOREM I2cTypeCorrect == Spec => []TypeOK
<1>1. I2cInv => TypeOK
  <2> SUFFICES ASSUME I2cInv PROVE TypeOK
    OBVIOUS
  <2>1. TypeInv /\ IicType /\ CpuType /\ SlaveType /\ LinkInv
    BY DEF I2cInv, TypeInv, BusInv
  <2>2. Len(tx) <= TxDepth
    <3>1. Len(tx) \in Nat
      BY <2>1, LenProperties DEF IicType
    <3>2. QED BY <2>1, <3>1, TransferLength DEF TxDepth
  <2>3. QED BY <2>1, <2>2 DEF TypeOK, CpuType, PCs, IicType, SlaveType
<1>2. QED BY I2cInvariance, <1>1, PTL

(* codec_init enables the samples when every register of its table has     *)
(* been written, or else a byte was refused.                               *)
THEOREM ConfiguredFirst == Spec => []ConfiguredBeforeEnable
<1>1. I2cInv => ConfiguredBeforeEnable
  BY DEF I2cInv, BusInv, WrittenInv, ConfiguredBeforeEnable
<1>2. QED BY I2cInvariance, <1>1, PTL

(* A register holds its value of the table or none, whatever was           *)
(* interrupted or refused.                                                 *)
THEOREM NoStrayWrites == Spec => []NoStrayWrite
<1>1. I2cInv => NoStrayWrite
  BY DEF I2cInv, BusInv
<1>2. QED BY I2cInvariance, <1>1, PTL

(* i2c_read returns what codec_init wrote to the register.                 *)
THEOREM ReadsWhatWasWritten == Spec => []ReadsBack
<1>1. I2cInv => ReadsBack
  BY DEF I2cInv, BusInv, ResultInv, Correct, ReadsBack
<1>2. QED BY I2cInvariance, <1>1, PTL
=============================================================================
