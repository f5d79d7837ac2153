# fpga_labor: a TLA+ model of the audio acquisition system

The repository builds an audio acquisition system on a Zynq UltraScale+ board.
An audio codec sends serial samples to `audio_interface.v`; the left and the
right channel go through one FIFO each into an HLS decimating FIR filter
(`fir_hw`), whose AXI-Stream output goes through a third FIFO into the S2MM
channel of an AXI DMA engine.  The engine writes a circular buffer in DDR; a
bare-metal program hands each filled segment to lwIP and sends it in a UDP
datagram to the host that asked for it.

The modules here describe that path from the codec's wires to the Ethernet
controller's queue.  Paths below are relative to `src/fpga_labor/`; `echo/`
stands for `vitis/echo_server/src/`.

## 1. Inventory

| component | source | state | operations |
|---|---|---|---|
| serial receiver | `fpga_labor.srcs/sources_1/new/audio_interface.v` | three synchronising shift registers, `adc_data_shr` | one per `clk` edge; strobes `adc_valid_l`, `adc_valid_r` |
| input and output FIFOs | `.../bd/cpu_system/cpu_system.bd` | their contents | write when strobed (lost when full), read when acknowledged |
| FIR core | `vitis/fir_hls/fir_hw.cpp` | two sample rings, `write_idx`, `cnt`, `dec_cnt` | one call per pair of samples, for ever (`ap_ctrl_none`) |
| FIR driver, `FIR_init` | `.../drivers/fir_hw_v1_0/src/xfir_hw.c`, `echo/init.cpp` | three registers, 512 coefficients in the core | `XFir_hw_Write_coeff_hw_Words`, `XFir_hw_Set_*` |
| DMA interrupt side | `echo/dma_controller.cpp` | `dma_ptr_axi`, `dma_ptr_eth`, `dma_data_available` | `dma_it_init`, `RxIntrHandler` |
| streaming application | `echo/application.cpp` | `audio_transfer_enabled`, `active_pcb`, `remote_ip`, `remote_port` | `start_application`, `recv_callback`, `transfer_data` |
| main loop, DHCP, timers | `echo/main.c`, `echo/platform.c` | timer flags, `dhcp_timoutcntr` | `main`, `timer_callback` |
| polled DMA helpers and their programs | `echo/init.cpp`, `vitis/final_test`, `vitis/dma_test_final`, `vitis/dma_test` | registers of both channels, buffers, the cache's copies of them | `dma_init`, `dma_snd`, `dma_rcv`, `dma_snd_wait`, `dma_rcv_wait` |
| I2C driver, `codec_init` | `echo/init.cpp`, `vitis/i2c_test` | AXI IIC registers, GPIO enable | `i2c_init`, `i2c_write`, `i2c_read`, `codec_init` |
| bypass core | `vitis/bypass_hls/bypass_hw.cpp`, `bypass_hw.v`, `bypass_hw_regslice_both.v` | `cnt`, a machine of three states, two registers before the output stream | one call per pair; not in the block design |

How they interact:

* The codec is the master of the bit and word clocks, which are asynchronous to
  the logic's clock.  `audio_interface` samples them, and strobes a word into the
  left or the right FIFO while the GPIO bit that `codec_init` sets last is up.
* The core takes a sample from both FIFOs at once, and blocks on its output
  stream when the output FIFO is full.  It asserts TLAST on every `tlast_dnum`-th
  beat; the engine ends a transfer at TLAST, and halts with an error when the
  transfer is full without one.
* `RxIntrHandler` runs between any two instructions of the main thread.  It hands
  the filled segment over in two shared variables, moves the ring pointer and
  starts the next transfer.  The main loop alternates `xemacif_input` (which calls
  `recv_callback`) and `transfer_data`, which reads those variables, invalidates
  the data cache, points a pbuf at the segment (`PBUF_REF`, no copy), queues it and
  clears the flag.
* The Ethernet controller reads the segment when the frame's turn comes, while the
  engine goes on round the ring.

What is hard here, and what makes each part correct:

| behaviour | property it needs |
|---|---|
| handler against `transfer_data`: flag set before it is cleared, pointer read twice | a block is lost or read stale only inside a known window; each block is sent at most once, in order |
| zero-copy frames against a ring that comes round | a queued segment is not overwritten within a lap |
| errors of the engine, of `pbuf_alloc`, of `udp_sendto`, of start-up | nothing is sent twice or to the wrong host; the end of the stream is final, not garbage |
| FIFOs that lose samples independently, enable raised in mid-frame | the channels never drift apart |
| `cnt == tlast_dnum` against a register written while the core runs | packets have the programmed length unless the register was lowered under them |
| initialisation order of codec, filter and engine | a transfer is never overrun if the filter is programmed before samples flow |
| ring indices and counters of a few bits | convolution and decimation across every wrap |
| asynchronous clocks, three synchronisers | every word whole, once, on its channel |
| waits for an address that a timer interrupt ends and may itself bind | the application starts with an address unless the client just took it away; no early fallback, no lease overwritten |
| timer flags set by an interrupt, cleared after the call they ask for | a tick is lost only during the call |
| I2C waits without timeout, unread acknowledges, restarts in mid-transfer | no samples from a codec that was not configured; no wait for ever if it answers |
| blocking writes all the way back to the input FIFOs | no lock-up |
| a cache that does not snoop the engine, loads on its own account and writes back late | the processor reads the packet, and no old line overwrites it |
| restarts that leave the engine running, the core's counters and half a packet | one block at most is not the run's own; blocks are whole again after the first |
| an accumulator that wraps at every tap and a truncated result | a sum that fits is exact, one that does not is off by whole turns |
| a compiler that turned a function into registers and handshakes | the hardware does what the function does, for every timing |

## 2. Modules

| module | what it is |
|---|---|
| `DmaController` | `dma_controller.cpp` and the S2MM channel it drives |
| `AudioStreamer` | `application.cpp` and the main loop, composed with `DmaController`, the data cache and the Ethernet controller's queue |
| `LatestHandoff` | abstract: a mailbox of depth one.  `AudioStreamer` implements it (`TakesNewestOnce`) |
| `FirHw` | one call of `fir_hw`, step by step, its reset, and `FIR_init` |
| `FirFilter` | `FirHw` on its own, reprogrammed at any time |
| `FirArithmetic` | the fixed point arithmetic of one channel, and the generated RTL's next to it |
| `SampleSource` | abstract: what the receiver promises the FIFOs |
| `AudioInterface` | `audio_interface.v` at the level of clock edges, with the codec.  Implements `SampleSource` (`DeliversSamples`) |
| `CapturePath` | strobes, input FIFOs, `FirHw`, output FIFO, engine, the programs' initialisation, restarts and relaunches |
| `CodecI2c` | `codec_init` and the polled I2C driver, with the AXI IIC controller and the codec |
| `EchoMain` | `main` and `timer_callback`: the wait for an address, the timer flags |
| `PolledDma` | the polled helpers, both channels of the engine, memory and the data cache |
| `BlockLoop` | the loops of `final_test` and `dma_test_final` over `PolledDma` |
| `LoopbackTest` | `main` of `dma_test` over `PolledDma` |
| `BypassHw` | the bypass core as its C++ function |
| `RegSlice` | the register slice before the output stream of both cores |
| `BypassRtl` | the hardware generated for the bypass core, clock by clock.  Implements `BypassHw` (`ImplementsBypass`) |
| `AudioStreamerProofs`, `AudioInterfaceProofs`, `CapturePathProofs`, `CodecI2cProofs`, `EchoMainProofs`, `BypassRtlProofs` | theorems about the module of the name, for every value of the constants |
| `FirFilterProofs` | theorems about `FirFilter` and `FirArithmetic` |
| `PolledDmaProofs` | theorems about the two programs over `PolledDma`: `BlockLoop` and `LoopbackTest` |
| `MC*` | instances for TLC |

### DmaController, AudioStreamer

A pointer into `dma_buffer` is its byte offset; `Null` is the C null pointer.
`RxIntrHandler` is one action: interrupts do not nest, and the engine cannot finish
a transfer before the handler has started it.  `transfer_data` is split at each
access to shared state: the guard (`CheckTransfer`), `InvalidateCache`, `AllocPbuf`,
`SetPayload` (the second read of `dma_ptr_eth`), `UdpSendto`, `ClearAvailable`.
`recv_callback` is one action, because only the main thread touches what it
writes.  `Faults` names the external failures a run allows: start-up, an engine
error, `pbuf_alloc`, `udp_sendto`.

The cache is the set `stale` of segments whose cached copy may be outdated: a
transfer adds its target, an invalidation removes the segment unless the engine is
writing it at that moment.  The processor's speculative loads are covered by this:
a segment stays in the set until it is invalidated.

History variables: `handed` counts hand-offs and so names them; `taken` is the one
last put in a pbuf; `invalidated` the newest at the last invalidation; `excused` the
last one that came inside `transfer_data` or found no pbuf.

`dma_ptr_eth` and `dma_data_available` are modelled as read where the source reads
them.  `dma_ptr_eth` is not volatile; a build that kept its first value in a
register would behave as if the handler had not run in between, which is also a
behaviour of the model.

`new_data_available` is written by `set_transfer_flag` and `transfer_data` and read
nowhere, so it is not in the model.

### FirHw, FirFilter

A call takes both samples (the arguments are latched there, as in the generated
RTL), then adds one tap per step, writes the left and the right result, and moves
`write_idx`.  Samples are numbers, and an accumulator is the sequence of its
products: `[coeff, smpl]` pairs.  Being symbolic, a result shows which sample met
which coefficient; its numeric value is the subject of `FirArithmetic`.  A coefficient is named by the
configuration whose `FIR_init` wrote it, its position by the tap.

`FIR_init` writes the coefficients upwards, then `tap_num_m1`, `smpl_rd_num` and
`tlast_dnum`; each write is a step between which the core runs.  `BufSize`, `CntMod`
and `DecMod` are 512, 2^16 and 2^3 in the source, and all counters wrap.

`FirFilter` supplies samples without end (the left n-th is `n`, the right `-n`, so
that a mix-up of the channels shows), room for every result, and calls of
`FIR_init` at any time, also after the program was restarted without resetting the
logic: the core's statics survive.

`CntKept` and `ResetCore` are what `ap_rst_n` does to the core in mid-call.  The RTL
computes `cnt` after both beats in the first clock of a call and gives it no reset
(`fir_hw.v:365`), so the beats of a call that a reset interrupts stay counted although
they are lost; `dec_cnt` and `write_idx` move in its last clock and so do not.

### FirArithmetic

A number is its raw integer; `acc_raw` is `acc_l`'s.  `Trunc` is AP_TRN (towards minus infinity), `Wrap` is
AP_WRAP.  `AccAdd` is line 38 of `fir_hw.cpp`: the sum at the product's full precision,
truncated and wrapped to `acc_t`; `Data` is the cut to `dout_t`.  `rtl_acc` and `rtl_out`
are the registers of the generated pipeline, which take bit ranges of an unsigned sum
of 79 bits.  `exact` is the sum nobody rounds.  The widths are constants; the pads
between the fractions keep the relations of `types.h`.

### AudioInterface, SampleSource

A bit on the wire is the pair of its slot's number and its place in the slot, so
`adc_data` shows what it was put together from.  The codec's edges are at least
`MinHalf` and at most `MaxHalf` edges of `clk` apart.  The first `clk` edge after an
edge of the codec may sample each wire before or after its change, each wire on its
own: this is the uncertainty a synchroniser has.  The codec may start with either
channel, at any time relative to the enable.

`SampleSource` says what comes of it: each slot's word whole, once, in order, to the
FIFO of its channel, and written before the next slot ends.  This is what `CapturePath`
takes for granted when it writes a frame's number to a FIFO.  One exception is in it
(`WriteSilence`): when the enable rises before the codec starts, and the codec starts
with a left slot, the word clock's first edge strobes a right sample of no slot.

### CapturePath

A sample is the number of its audio frame.  The engine's channel is abstracted to
packets (`DmaController` and `PolledDma` have its registers): it is `off` until the
program starts it, `busy` during a transfer, `idle` after TLAST, `halted` after an
overrun.  The programs are the orders in which their sources call `codec_init`,
`FIR_init` or `XFir_hw_Set_tlast_dnum`, and the first transfer:

| program | order | source |
|---|---|---|
| `EchoServer` | codec, fir, dma_it | `echo/application.cpp:126-128` |
| `FinalTest` | fir, codec, dma | `vitis/final_test/main.cpp:77-114` |
| `DmaTestFinal` | codec, tlast, dma | `vitis/dma_test_final/src/main.cpp:67-87` |

The first word `AudioInterface` strobes may be that of the right channel; this is
`rightFirst` here.

There are two ways to start a program again.  `Restart` is the program alone: the
logic goes on, and the FIR core, the FIFOs and the enable keep what they hold.
`dma_init` and a new `dma_rcv` do not change a channel that is busy (`DmaBoot`); but
`XAxiDma_CfgInitialize` in `dma_it_init` resets the engine, which forgets the beats it
had of a packet (`DmaItBoot`).  `Relaunch` is a launch from the IDE: the launch
configuration of `echo_server` neither resets the system nor programs the device
(`_ide/launch.json`, `resetSystem` and `programDevice` false), but it runs `psu_init`,
whose `psu_ps_pl_reset_config_data` pulses `pl_resetn0` (`_ide/psinit/psu_init.tcl:16299`);
`proc_sys_reset_0` hands that to every part (`cpu_system.bd:4133-4156`).  Since the FPGA
is not configured again, what has no reset keeps its value, which for `fir_hw` is
`cnt`, `dec_cnt`, `write_idx` and the coefficients.

`lost` counts the beats of the current packet that were counted by the core and then
lost in a reset of the engine or of the logic.  `BlocksWhole` says that the first
block after one is short by just these, with the channels still at their places, and
every other block is whole.

### CodecI2c

Every access of `i2c_init`, `i2c_write`, `i2c_read` and `codec_init` to a register is
a step; a polling loop is a step whose guard is the condition that ends the loop.  The
controller takes words from its FIFO while the bus is its own, and the codec keeps a
register pointer.  A byte may be refused, after which the controller may or may not
drop its FIFO, so both are modelled.  The program may be restarted anywhere
(`Restart`), which leaves controller, codec and enable as they are.  `i2c_read` is
called after `codec_init`, as `i2c_test` does; there `i2c_init` is called by `main`
before `codec_init` rather than within it, which makes the same sequence of accesses.

The enable is never cleared by the program: after a restart it is still set while the
codec is reset and configured again, so `ConfiguredBeforeEnable` speaks of the moment
it is written.

### EchoMain

A step of `main` reads or writes one variable it shares with `timer_callback`, which
may run before any of them: the `while` condition is two steps, and so are the tests
before the fallback address.  `pc` is `"fast"` or `"slow"` from the test of a flag to
its reset, that is, while `tcp_fasttmr` or `tcp_slowtmr` runs.  The timers are counts
modulo their periods.  The build is the one with `SDT` and `LWIP_DHCP`.  lwIP's DHCP
client binds an address in `xemacif_input`, or, when it checks for conflicts first,
in `acd_tmr`, which `timer_callback` calls.  It may also take an address away and ask
again (`LoseAddress`): in `dhcp_coarse_tmr` when the lease has expired, in
`dhcp_fine_tmr` when a request is not answered, and in `xemacif_input` on a NAK.  This
goes for the fallback address too: the client goes on asking after `main` has set it.  Which of
these happens is lwIP's business, so each is a choice at the calls that may cause it.  The counter is bounded below by 0
(`CounterFloor`): `main` asks only whether it is above.

History: `waited` counts ticks since `dhcp_start`; `due` and `during` remember periods
that ended since the last call began, and during it; `collided` a lease bound between
the last test and the fallback; `lost` that an address was taken away after the `while`
loop of the wait.

### PolledDma, BlockLoop, LoopbackTest

Memory is counted in cache lines.  `dma_snd` and `dma_rcv` take three steps each (cache
maintenance, address, LENGTH), between which the engine and the cache go on: the
processor may load any line at any time (`CacheFill`), and any line may leave the cache
and is written back if it is dirty (`CacheEvict`).  Whether an invalidation writes
dirty lines back first depends on the library, so either may happen.  A channel
ignores LENGTH while it is busy or after an error, and sets IDLE only when a transfer
is complete.

`BlockLoop` has a packet's number in every line of it, so that `mem[l] = packets` says
the line holds the newest packet.  A restart clears the buffer through the cache and
leaves the engine alone; `mine` says whether the transfer is one this run asked for.
`NextOffs` keeps the source's `>=` (`final_test/main.cpp:119`): when BLOCK_SIZE divides
DMA_BUFFER_SIZE the ring's last block is never used, which is a waste and no error.

`LoopbackTest` is `dma_test` with a block of 128 bytes as one line; the stream between
the channels holds a bounded number of them.

### BypassHw, RegSlice, BypassRtl

`BypassHw` reads as `bypass_hw.cpp`: a call takes a pair and writes two beats, with
TLAST where the counter meets `tlast_dnum`.  `BypassRtl` is the generated machine, a step
for each clock: in state 1 it takes both inputs, offers the left beat and computes
TLAST of both and the counter after them; in state 2 it offers the right beat; in
state 3 it waits until the slice is empty.  Inputs, receiver, register and reset do what
they like in each clock.  `RegSlice` is the slice's next-state function, kept apart
since `fir_hw` has the same one.  The refinement maps the beats in the slice and in the
right register to those the function has written; a reset in the clock of a call
counts a pair that is lost (`BypassHw!Reset`), as in `fir_hw`.

## 3. Runs

| run | bounds | states | what it shows |
|---|---|---|---|
| `streamer` | 3 segments, 6 blocks, 2 hosts, 2 descriptors, all faults | 119,819 | ring, hand-off, zero copy, cache; hand-offs are consumed, the engine is restarted |
| `handoff_kept` | as `streamer`, no faults | stops | the lost hand-off, see Findings |
| `fir_filter` | rings of 3, 3-bit `cnt`, 2-bit `dec_cnt`, 3 configurations, 8 samples, 2 reprogrammings | 56,608 | convolution, framing, decimation |
| `fir_arithmetic` | 3-bit samples, 5-bit coefficients, 4-bit results, 6 taps | 7,397 | exact if it fits, off by turns, RTL the same |
| `audio_interface` | 5-bit slots, 3-bit words, 2 to 5 `clk` edges per half bit, 5 slots | 13,966 | the receiver implements `SampleSource` |
| `capture_path` | blocks of 4 beats, input FIFOs of 2, output FIFO of 3, 5 frames, 3 programs, a restart or relaunch | 403,019 | skew, blocks, halts, no lock-up |
| `codec_i2c` | 6 entries of the table, 2 restarts, any byte refused | 295,281 | configured before enabled, no stray write, read back, no wait lasts for ever |
| `echo_main` | a timeout of 24 ticks, periods of 2, 5, 10, 10 and 20 | 737,757 | address, fallback, timer calls, the wait ends |
| `block_loop` | ring of 5 lines, blocks of 2, 3 packets, a restart, errors | 305,268 | in the buffer, in memory, fresh, each packet once, the wait ends |
| `block_loop_stale` | ring of 3 lines, blocks of 1 | stops | `dma_test_final` reads an old line, see Findings |
| `loopback` | 3 blocks of the 8, a stream of 2 | 22,975 | delivered, errors only by an early load, ends |
| `bypass` | 3-bit counter, 4 values of the register, 5 pairs, 2 resets | 17,305 | the hardware implements the function; a call ends |

Why these bounds are enough to meet the hard cases: six blocks go twice round a
ring of three segments, so frames are lapped; two descriptors let the queue fill.
Eight samples go more than twice round a ring of three, and the configurations
shorten and lengthen each register, with a `tlast_dnum` below a running `cnt`.  Five
frames overflow input FIFOs of two and fill two blocks of four; an output FIFO of
three is full before a block is, so the core stops in mid-call; a restart or relaunch
may fall on each of these.  Five slots have both channels as first and as later ones,
and a slot two bits longer than the word.  Six entries are eighteen words, more than the
controller's FIFO of sixteen holds, and include a value (8) that is also the number of
a register; the second restart meets what the first left behind.  The periods of
`EchoMain` are those of the source but for `dhcp_coarse_tmr`'s 1200, which are 20; a
timeout of 24 ticks (240) lasts at least one of each, and since `main` may take any time
between its steps, its tests may fall on any tick of any of them.  Five lines with blocks of two leave a rest
at the end of the ring, where a late wrap would write behind it; three packets take it
round once.  Six taps of the widest products turn the accumulator over more than once.
Five pairs wrap a counter of eight, and the register's values are one, both parities,
and one that a running counter may have passed.

Two edges of `clk` in half a bit is the least for which `DeliversSamples` holds: with
one, the single sample taken of a level may be the uncertain one, and a rise of the
bit clock can be missed.  `InterfaceAssumption` asks for two; the testbench has four
and five.

`CHECK_DEADLOCK FALSE` is set where a bound on samples, packets or pairs ends the
behaviour (`FirFilter`, `AudioInterface`, `CapturePath`, `BlockLoop`, `BypassRtl`), where
`main` returns or waits for good (`LoopbackTest`, `CodecI2c`).  In `CapturePath` and
`BlockLoop` the real system may stop as well, when the channel has halted.

### Fairness

Weak fairness only, and only where something drives the step:

* `streamer`: the main thread (its loop never blocks), the handler (interrupts stay
  enabled), the engine (the codec's clock keeps it supplied; it may fail instead of
  finishing) and the Ethernet controller (it drains its queue).  Faults are allowed:
  `EngineRestarted` asks for a restart only after a completed block; a channel that halted
  stays so (`HaltIsFinal`, a theorem only).
* `capture_path`: the program, the core and the engine, and none of the codec, the
  restarts or the relaunches.
* `codec_i2c`: the program and the controller.  `Finishes` leaves out the runs in which
  the codec refused a byte.
* `echo_main`: the main thread and the timer.
* `block_loop` and `loopback`: the program and the engine, none of the cache.  `WaitEnds`
  leaves out a channel with an error, after which nothing is received in any run
  (`ErrorIsFinal`, a theorem only).
* `bypass`: the clock, and a receiver that is ready again and again.  A receiver that
  is ready only in clocks of its choice is in the run too, as long as it does not stay
  away; in the design it is a FIFO the engine empties.

## 4. Findings

`handoff_kept`: `transfer_data` clears `dma_data_available` at its end
(`echo/application.cpp:81`) whether or not `RxIntrHandler` has set it again since it
was tested in line 58.  If the handler runs in between, the segment it handed over
("2. Hand-off filled segment to the Ethernet task", `echo/dma_controller.cpp:30`) is
not sent, without any failure and however fast the network is.
`LossOnlyInsideTransfer` and its proof bound the damage: no other path but a failed
`pbuf_alloc` loses a block from the flag.  Clearing the flag before `dma_ptr_eth` is
read would close the window.

The same window lets `dma_ptr_eth` change between the invalidation (line 68) and the
assignment of the payload (line 72), so that a segment is queued that was not
invalidated: `StalePayloadOnlyIfRaced` says this race, or a lap of the ring, is the
only way to it.

`block_loop_stale`: `dma_test_final` says after its wait "Data is now in DDR. We can
process it." (`vitis/dma_test_final/src/main.cpp:93`).  It is in DDR (`InMemory`), but a
line the processor loaded between `dma_rcv`'s invalidation and the engine's write hides
it.  `final_test` invalidates the block once more (`final_test/main.cpp:116`), and
`FreshInFinalTest` holds of it.

Met while modelling, and no disagreement with a line of the repository:

* `HaltsOnlyIfLate`: a program that sets `tlast_dnum` before it calls `codec_init`, as
  `final_test` does, never overruns a transfer, whenever it is started again.
  `start_application` and `dma_test_final` call `codec_init` first; there an overrun
  takes a whole block of results counted by calls that began before `tlast_dnum` was
  set, that is, a program that is slow between the two calls for as long as a block
  lasts.
* `FallbackLast` leaves one window: a lease that an interrupt binds between
  `echo/main.c:203` and `206` is overwritten by the fallback address, while the DHCP
  client goes on renewing it.  It takes an lwIP that checks for address conflicts,
  since only then the timers bind addresses.
* `EachPacketOnce`: after a restart of a polled program one block may be of a transfer
  the run before asked for, at that run's address; the new run takes it for its own.
* `AddressBeforeStart`: `main` tests the address for the last time in line 198 or 203 of
  `echo/main.c`.  If the client takes it away after that, the application is without an
  address until the client has another; `main` has no fallback then.
* In `dma_test` the third comparison cannot fail: its data were in the buffer before
  (`ErrorOnlyIfEarly`).
* `OffByTurns` describes what becomes of a sum that does not fit `dout_t`.  The three
  filters of `filter_coeffs.h` have absolute sums of 2.46, 2.36 and 2.38, so such sums
  exist; a full-scale constant already exceeds the range with `filter_128`, whose
  coefficients add up to 1.0000032.

## 5. Proofs

Every safety property that a run checks, invariant or step property, and the three
refinements are also theorems, for every value of the constants under the named
assumptions of the modules:

| assumption | what it asks for, and why the code grants it |
|---|---|
| `SizesAssumption` | the buffer is two or more whole transfers: the call in `application.cpp:128` |
| `FirAssumption`, `ArithmeticAssumption`, `RtlAssumption` | values fit their widths: the types of the ports and of `types.h` |
| `LoopAssumption`, `LoopbackAssumption` | the ring holds a block; there is a block: the constants of the programs |
| `BlockAssumption` | every configuration's `tlast_dnum` is a block (256 in all three programs), 0 after configuring the FPGA; a block and the counter's range (2^16) are even, and the range is two blocks at least |
| `CodecAssumption` | the table of `codec_init` is not empty and names no register twice, and at most one register is read back, as `i2c_test` does |
| `InterfaceAssumption` | a word is no longer than a slot, and half a bit lasts two edges of `clk` or more |

The two theorems about `LoopbackTest` have a hypothesis besides, `TwoBuffers`: the memory
of `PolledDma` is `dma_rx_buf` and `dma_tx_buf`, as in its run.  It is no assumption of the
module, since the proof module that extends it also speaks of `BlockLoop`, whose memory is
of any size; for the same reason the names of `LoopbackTest` and `FirArithmetic` are not
those of the modules they are proved beside (`TestSpec`, `ArithSpec`).

**`AudioStreamerProofs`** proves the six safety properties of `streamer`, and three
more (types, `FramesInOrder`, `HaltIsFinal`).  The inductive invariant `IInv` is
needed because none of them is inductive alone: `DmaInv` ties the channel's address to
`dma_ptr_axi` and that to the segment handed over last; `FramesTracked` says where the
engine is relative to each queued segment, in bytes travelled since its hand-off,
until the ring is lapped; `MainInv` says which hand-off the main thread may still take
at each point of `transfer_data`; `CacheInv` and `LossInv` carry the history of the
race.  `SegmentFits` and `AdvanceOnRing` are the arithmetic of a ring whose size is a
multiple of its step.  `Refinement` proves that the streamer implements
`LatestHandoff`: initial states map to initial states, `Interrupt` to `Produce`,
`SetPayload` to `Take`, `UdpSendto` to `Release`, and all else to stuttering.

**`FirFilterProofs`** proves the types and the three properties of `fir_filter`.
`RingInv` says what every word of the sample rings holds at every moment of a call,
across wraps; `AccInv` what has been summed so far; `CoeffInv` how far `FIR_init` has
come; `FrameInv` that `cnt` is the position in the packet; `GapInv` that `dec_cnt` is the
number of calls since a result.

Its second part proves the three properties of `fir_arithmetic`.  The
invariant says that the accumulator differs from the truncated exact sum by whole
turns of `AccMod`, and that the exact sum is at most one unit per tap above it;
the lemmas about `Wrap` and `Trunc` (range, congruence, order) do the rest.  That the
RTL's bit ranges are the same numbers is a congruence modulo the wider sum.

**`AudioInterfaceProofs`** proves that the receiver implements `SampleSource`, for every
length of slots and words and every bit clock within the assumption, whose halves may
differ and change.  The invariant follows an edge of the codec through the
synchronisers: `BclkSeen` and `LrclkSeen` list what the three flip-flops may hold, by the
number of `clk` edges since the last edge on the wire.  From this, every rise of the
bit clock is seen exactly once before the next one (`Pending`), with the data wire's
value of that bit beside it (`DataInv`); so the register always ends with the bits of
the slot so far, preceded by those of the slot before (`ShiftInv`).  A strobe comes while the
first bit of a slot is on the wire and not yet shifted in (`StrobeFindsWord`), when the
register is the slot that has ended and nothing else.  `LastInv` says that what was
written last cannot be this sample yet, so the step is `SampleSource!Write`; and when a
slot ends, the word clock has been stable for long enough that the strobe has
happened, so the step is `NextSlot`.

**`CapturePathProofs`** proves all safety properties of `capture_path`, for every depth
of the FIFOs, size of a block, program and speed of the core, with restarts and
relaunches:

* `SkewAtMostOne` and `PairsOfOneFrame`, by a balance: at most one sample waits for its
  partner, it is of the current frame, and the channel the codec sends next is the one
  that lacks it.  A refused write leaves this true: a FIFO refuses only when it is
  full, and since its level differs from the other's by one at most, the write that
  follows on the other side either is refused as well or makes the levels equal
  again.  A relaunch empties both.
* `BlocksWhole`, by the place of each beat in its packet (`PacketInv`): `cnt`, TLAST and
  the channel of every beat in the output FIFO agree with its place, where the beats
  `lost` in a reset keep theirs.  A call counts two beats and a packet ends with a
  call (`ParityInv`), so a beat's channel is the parity of its place; this is where the
  even block and the even range of the counter are needed.  `OrderInv` follows the
  samples of a channel, in order, from the codec through the input FIFO, the call in
  progress and the output FIFO into the block.
* `HaltsOnlyIfLate`, by the order of initialisation (`BootInv`): in a program that sets
  `tlast_dnum` before the codec's samples flow, no call starts with another value, in
  any of its runs, and only calls that did can count past a block (`LateInv`).  The
  order has to hold of the whole program: `FramesBeforeSamples` asks for it before
  each `codec_init`.

**`CodecI2cProofs`** proves all safety properties of `codec_i2c`, for every table and any
number of restarts and refused bytes.  The words that the program has put, up to the
one on the bus, are one transfer: each may follow the one before it (`LinkInv`), and the
codec expects what is on the bus (`HeldInv`, `ByteInv`).  The transfer is whole as long as
nothing was refused (`WholeInv`); one that was cut, by a restart or a refused byte, never
starts in the middle, so no value reaches a register it was not meant for.

**`EchoMainProofs`** proves all safety properties of `echo_main`.  `PcInv` says what
each point of `main` may rely on, `TimeoutInv` that the counter never runs ahead of
the ticks waited, `LeaseInv` who may set the address, and `FlagInv` that a period
without a flag ended during a call.  `ClientStepInv` is what the client may do to the
address wherever `main` is.

**`PolledDmaProofs`** proves all safety properties of `block_loop`, for every ring and
block.  The invariant says which lines of the block the engine has written so far,
that none of the block's lines is dirty from the invalidation on (so that no
write-back can undo them), and which of the run before's transfers may still be
under way.

Its second part proves both of `loopback`, for every number of blocks and every depth of
the stream.  The cached lines of the source are written back by `dma_snd` before the
engine reads them (`TestSource`); no line of the target is dirty from `dma_rcv` on, so
what the engine writes there stays (`TestTarget`); the stream holds the lines sent
and not received, in order (`TestStream`).  A clean copy that differs from memory was
loaded between the invalidation and the write, which is what `early` records
(`TestStale`), and in the third test the old contents are the new ones.

**`BypassRtlProofs`** proves that the generated hardware implements the C++ function.
`Handshake` is the invariant: the slice is empty in state 1, holds the left beat and is
ready in state 2, and in state 3 it is full exactly when it is not ready.  From it
`SliceStep` gives the slice after each clock.  `BothBeats` shows that counting two beats
at once, modulo the counter's width, is counting them one after the other.  A clock
that takes a pair is then `Call`, one that delivers a beat `Receive`, any other `Idle`, and
a reset `Reset`.

Only model-checked is liveness, as the prover handles neither fairness nor `ENABLED`:
`HandoffConsumed`, `EngineRestarted`, `InputDrains`, `Finishes`, `StartsOrReturns`, `WaitEnds`,
`Ends` and `CallEnds`; and the two properties that are violated (section 4).

## 6. Not modelled

* The electrical side of I2C (arbitration, clock stretching), and a codec that does
  not answer at all beyond the refused bytes of `codec_i2c`.
* What lwIP does inside: the DHCP client's retries and renewals, TCP, the link's
  state.  lwIP, the Ethernet driver, the DMA driver and the engine are external: they
  are modelled by how the code uses them.
* The pipeline of the FIR core's tap loop and its AXI-Lite slave, clock by clock; of
  its RTL, the arithmetic (`FirArithmetic`), the output's register slice (`RegSlice`) and
  the reset (`FirHw`) are modelled.
* `gpio_test` (one store), the vendor's DMA example, board files for other boards, and
  debug cores.  `lwip_echo_server` is an earlier state of `echo_server` in which nothing
  streams: the calls of `codec_init` and `FIR_init` are commented out and `dma_it_init`
  is not called.
* The HLS compiler's intermediate files (`.autopilot`), which are most of the
  repository's lines, and `filter_coeffs.h`, which is data.

## 7. Plan

1. `fir_hw.v` clock by clock as an implementation of `FirHw`, on `RegSlice`, as
   `BypassRtl` does for the bypass core.
2. The composition of `AudioInterface` and `CapturePath` at `SampleSource`: that the
   strobes `CapturePath` allows are those `SampleSource` can make.
