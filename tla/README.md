# Flexi-Ninja: a TLA+ verification project

Flexi-Ninja connects LinuxCNC to a RP2350 board that generates step pulses,
drives outputs and PWM, and counts encoders. A HAL driver on the PC and the
firmware on the board exchange one frame for one reply in every servo period.
This project models both ends, the two links between them (SPI and Ethernet) and
what the board does with what it receives; it model-checks the models with TLC
and proves their invariants with TLAPS for every value of the parameters.

Paths below are relative to the repository; `main.c` is `firmware/src/main.c`.

## 1. The system

| component | source | state | operations |
|---|---|---|---|
| HAL driver (SPI) | `hal-driver/flexi-ninja.c` | pins (`connected`, `io-ready-*`, commands, feedback), watchdog clock, `prev_pos`/`last_dir`/`first_data` per axis, encoder filters, `tx_buffer`, `rx_buffer` | `watchdog_process`, `udp_io_process_send` (ends in `_send`), `udp_io_process_recv`, called in this order by the realtime thread |
| HAL driver (Ethernet) | `hal-driver/flexi-ninja-eth.c` | as above, and a socket | the same three functions, without blocking |
| SPI exchange | `_send`, `spi_read_fulldup`, `handle_udp` | `GPIO_INT`, two 8-entry FIFOs, bytes read and written so far | pull `GPIO_INT` low, clock bytes, fill and empty the FIFOs |
| firmware, core 0 | `main.c` `handle_data`, `apply_stepgen_commands`, `handle_udp` | `checksum_error`, `checksum_ok_count`, `stepgen_position`, outputs, the staged reply | one call per frame |
| firmware, core 1 | `main.c` `core1_entry`, `gpio_callback` | `timeout_error`, `connected`, the patched PIO timing, encoder interrupt switches, PWM frequency | endless loop: timeout check, then disconnect or serve |
| PIO step generator | `pio/freq_generator.pio` | TX FIFO, steps left, DIR | pull a word, set DIR, wait, step |
| step ring (timer build) | `main.c` under `use_timer_interrupt` | ring of 3 frames, an alarm | enqueue (core 0), `timer_callback` (interrupt), reset (core 1) |
| encoders | `irq_encoder.c`, `main.c`, the driver | counts, offsets, index flags | edges, index, resets, switches, read |
| PWM | `pwm.c`, `main.c`, the driver | duty, frequency, wrap | duty by core 0, frequency by core 1 |
| configuration, terminal | `flash_config.c`, `serial_terminal.c` | a flash sector, its copy in RAM, requests between the cores | load, save, restore, reset, reload |
| FlexGPIO expander | `flexgpio.c`, `rp2040_ram_loader.c` | its registers, an interrupt flag, the loader's state | load, sync inputs, push outputs |
| PIO allocation | `pio_utils.c` | none | search for a free state machine at boot |
| picobob-dlx driver | `hal-driver/picobob-dlx.c` | as the Ethernet driver | as the Ethernet driver |
| vendored code | bcm2835, rp1lib, spi-dw, W5x00, DHCP, sh1106 | - | register access and protocol stacks |

**Interaction.** Over SPI the driver is the master and a transfer is full
duplex: the reply it receives was staged when the previous frame was handled.
Over Ethernet frame and answer are datagrams that may be lost, late, queued or
garbled, and a frame that is refused is not answered. On the board the two cores
share memory without locks: core 0 writes `rx_buffer`, `last_packet_time`, the
outputs, the duty and the PIO FIFOs; core 1 reads them, patches the PIO program,
sets the PWM frequency, switches and serves the encoder interrupts, runs the
terminal, and on a timeout, true or not, resets what core 0 works with. Core 1 can ask core 0
for a save; core 0 stops core 1 while it erases or programs. The expander is a
computer of its own on an I2C bus, which both cores may use. Nothing tells one
end of the link that the other has given up: each has a clock of its own (the
driver's 10 thread periods; the firmware's 1 s, `DEFAULT_TIMEOUT`, settable without
a lower bound). The firmware's clock may also be wrong: core 1 computes the
difference of two times that core 0 is free to change in between, and cuts it off
to 32 bits (main.c:260).

**What is hard.** The order of the driver's three functions within a period and
the early returns in each; frames, replies and whole transfers lost, late or
garbled; queued answers that make a dead link look alive; a slave that is late
for a transfer; core 1 acting between any two steps of core 0, and interrupts
between any two steps of either; a PIO program patched while it is stepping;
queues that are full; two hystereses (driver watchdog, firmware checksum) that
must not lock each other out; power that fails in the middle of a save.
`PROJECT.json` lists each at its line ("hazards").

**What makes each part correct.** Driver: the pins say what the link is, giving
up is final, no step is lost. Exchange: a whole frame for a whole reply. Core 0:
no step from a frame that is not trusted; the reported position is that of the
machine. Core 1: a dead link stops the machine, a live one is not dropped. PIO:
every counted step comes out. Ring: frames leave in the order they came, none
twice, none left behind. Encoders: the count is the travel since the last reset,
and a reset is never taken for motion. PWM: duty and frequency belong together.
Configuration: what was saved is what is loaded, and something whole always is.
Expander: outputs stay off until a frame asks, and inputs are not stale for good.

## 2. Modules

| module | models | built on |
|---|---|---|
| `HalDriver` | the SPI driver, one axis in position mode, against any device | - |
| `Firmware` | core 0, core 1 and the PIO for the same axis | - |
| `ServoLink` | driver, wire with faults, firmware, by joint actions | `HalDriver`, `Firmware` |
| `SpiExchange` | one transfer byte by byte | `FrameSwap` |
| `FrameSwap` | abstract: a frame for a reply, each handled once | - |
| `UdpLink` | the Ethernet link: driver, datagrams, W5500, both cores | - |
| `StepRing` | the step ring, every shared access a step | `StepQueue` |
| `StepQueue` | abstract: a bounded queue that may be cleared, and torn where the code tears it | - |
| `IrqEncoder` | an encoder counted by interrupts | - |
| `EncoderIndex` | a PIO encoder with index, from the pins to the driver | - |
| `PwmOutput` | PWM frequency and duty over both cores | - |
| `FlashConfig` | the configuration and the terminal | - |
| `Board` | a boot, the expander, and power cuts | `FlashConfig` |
| `MC...` | the small instances | the module they name |
| `...Proofs` | theorems | the module they name, TLAPS |

`ServoLinkProofs` holds the theorems of `HalDriver` and `Firmware` as well:
`ServoLink` extends both, and a theorem about the driver is used on the link.

Two pairs are tied together by refinement. `FrameSwap` is the transfer as
`ServoLink` takes it, in one step, and `SpiExchange` implements it while the slave
is on time (`ImplementsFrameSwap`; `SwapSafety` is its part without fairness, which
is proved). `StepQueue` is what `apply_stepgen_commands` may assume of the ring,
and `StepRing` implements it (`ImplementsStepQueue`) with the frames between `tail`
and `head` as the queue.

`HalSpec` is the driver with a device that answers anything. `ServoLink` takes its
steps, and no others, from the driver's own actions: that every behaviour of the
link is one of `HalSpec` follows from how the module is written, so that it is a
lemma of the proofs (`LinkInherits`, by which the driver's theorems hold on the
link) and not a property.

**HalDriver.** `thread` says which function the realtime thread calls next; each
function is an action per outcome (`SendExpired`, `SendFrame`, `SendNoWatchdog`;
`RecvExpired`, `RecvBad`, `RecvGood`; `WatchdogProcess`). `Motion` is the rest of
the thread and external: it writes the driver's input pins. `Exchange(reply)` is
`_send()`. Positions are whole steps relative to the fixed command offset;
`current_time - last_received_time` is one variable, `age`, because the code
uses nothing else of the two. The timing table is its last non-zero index
(`TimingMax`). `LateWatchdog` allows a HAL file that adds `watchdog-process`
late or never.

**Firmware.** `handle_data()` is four steps in the order of the code: `TakeFrame`
(the frame is in `rx_buffer` and stamped, main.c:788), `CheckFrame` (the checksum
and its hysteresis), `ApplyCommands` (the step word) and `SetOutputs` (the outputs
and the reply). Core 1 gets in between any two: `Core1Clock` computes the time
difference, `Core1Serve` acts on a small one, `Core1Late` and `Core1Outputs` on a
large one, the flags before the outputs. C leaves the order of the two reads in
main.c:260 open; `ClockFirst` is the unfavourable one, in which a frame stamped
between them looks like a timeout. `PioPull`, `PioDir`, `PioWait` and `PioStep` are
the PIO program; the patch sends it back to its pull from wherever it is. Time is
counted in servo periods: `silence` is the time since `last_packet_time` as the
`uint32_t` of core 1 sees it, so that after `ClockWrap` periods (71.6 minutes) a
dead link looks alive for one timeout. `stepgen_position` is an `int32_t`
(main.c:41), modelled as an integer: what happens at 2^31 steps is not claimed.
`good_run`, `settled`, `cut` and `aborted` are history: nothing reads them but the
properties.

**ServoLink.** `NewPeriod` starts a servo period for both ends; `Thread` is a step
of the driver; `Transfer` joins `Exchange` and `TakeFrame`, with either direction
garbled; `TransferMissed` is a transfer whose clock never reaches the board, or
that the board is not ready for; `Handle` is a step of core 0 with its frame;
`Device` is a step of core 1 or of the PIO, at any time. With `Core0Prompt` core 0
is done before the next period begins. `origin` and `skipped` are the books
`CommandIsConserved` is stated with: where the firmware was when the axis was last
enabled, and which steps the timing table had no entry for.

**SpiExchange.** The master's `_send()` is `MasterStart`, a `MasterClock` per byte,
and `MasterEnd`; the slave's loop is `SlaveEnter` (prefill), `SlaveLoop`,
`SlaveDone` (drain, handle, stage) and `SlaveFree`. A slave that reads keeps up
with the clock (`CaughtUp`). A byte is its frame and its place in it, so that a
shifted frame is recognised.

**UdpLink.** `phase` is the driver's function that runs next, in the order of
`config-samples/flexi-ninja-eth/flexi-ninja.hal:15-17`: watchdog, send, recv. A
datagram is "good" or "garbled"; `socket` and `inbox` are the queues of the PC
and of the W5500. `ClearInterrupt`, `ReadFrame`, `CheckFrame`, `Obey`, `SetOutputs`
and `Answer` are `handle_udp()` with `handle_data()` in it; `checksum_error` is looked
at in `Obey` (main.c:810) and again in `Answer` (main.c:1066). Core 1's `Disconnect`,
which clears it, comes at any point in between, after a true timeout (`Notice`) or
a false one (`ReadFrame`), and `DisconnectOutputs` after it. Answers that come in
time and answers that come after the driver's read are both there, because core 0
runs at any point of the period.
A period that ends before core 0 is done costs a fault. `Carry` loses or garbles
a datagram, at the cost of a fault, and `Unplug` pulls the cable for good. History:
`missed` counts the frames that were sent and not obeyed as sent, `drops` the
reads that found `connected` to be wrong, `overflows` the words a full FIFO lost and
`pardons` the disconnects that cleared `checksum_error`.

**StepRing.** Every access to what the cores share is a step: `EnqueueCheck` to
`EnqueueTest` are core 0's enqueuing, with `head` and `count` each loaded and stored,
`ArmClaim` to `ArmFlag` its `arm_step_timer()`, `AlarmCheck` to `AlarmRearm` the
interrupt, which runs on the same core and is masked during the enqueuing, and
`StopAlarm` to `ResetCount` core 1's `stop_timer()` and reset, which may begin at any
moment. There may be no free alarm (`ArmClaim`), and a target that has gone by sets
none (`ArmTarget`, `AlarmRearm`): the code looks at the first only to give up, and
at the second not at all. Three history variables say what is left: `torn`, a
reset ran into core 0 or its interrupt at the ring; `whole`, the one going on has
not; `astray`, the timer was left without its alarm, by one of the two failures or
because core 1 stopped it while core 0 was starting it.

**IrqEncoder.** `Turn` moves the shaft and makes its edge pending; `Edge` and
`EdgeStore` are `irq_encoder_handle_edge()`; `Index` the index interrupt;
`Disable`, `EnableState`, `EnableZero`, `EnableSwitch` core 1's switch;
`Disconnect`/`DisconnectReset` and `Control`/`ControlReset` the reset by core 1
and by core 0, each in three steps, at any moment. `lost` is history: what cannot be
counted because it came while the interrupts were off, or two edges at a time.
`torn` is history as well: the last reset ran into an edge, a switch or another
reset, which nothing in the code prevents.

**EncoderIndex.** `Turn`, `IndexPulse`; `Index` and `IndexFlag` are
`gpio_callback()`; `IndexSwitch`, `IndexNote` and `Disconnect` core 1's loop;
`Exchange` the transfer with what the driver makes of the reply, which it takes
(`Accept`) or throws away with its first look at the checksum (`Reject`);
`ControlReset`, `ReplyCount`, `ReplyEvent`, `ClearEvent` core 0. Core 1's interrupt
and its disconnect come at any point of it. `turned`, `moved` and `rezeroed` are
history: the travel since the index edge and since the last reply, and whether
something other than the index has reset the count. `crossed` and `before` say what
has come between a count and its event, for this reply and for the last one
accepted, and `spike` why the driver took a reset for motion.

**PwmOutput.** `Frame` is a frame as it lands in `rx_buffer`, garbled or not;
`HandleData` core 0's part; `Compare` and `SetFrequency` core 1's, which compares
the copy core 0 approved and then sets the frequency of the frame in
`rx_buffer`. A duty is known by the frequency it was computed for. One
assumption is in the guard of `Frame`: the command does not change twice before
core 1 has gone round, as its round takes a few milliseconds at most (a `printf`
on the UART); otherwise A-B-A would go unnoticed by its comparison.

**FlashConfig and Board.** `LoadConfig` to `SaveFails` are core 0's load and save,
with a step between checksum, copy, erase and program; the commands of the
terminal are core 1's. A configuration with its checksum is a record
`[data, sum]`. `Board` adds the boot (`ContactRp2040`, `UploadProgram`,
`InitExpander`), the expander's part of `handle_data()` (`SyncInputs`,
`ReadInputs`, `PushOutputs`), the interrupt of the expander (`InputChanges`),
the reload from the terminal, resets and power cuts. Any write or read over I2C
may fail, as it does when both cores use the bus. The RP2040's own program is
not in the repository: what it does is taken from how `flexgpio.c` uses it.

## 3. Runs

| run | specification | shows | bounds |
|---|---|---|---|
| `hal` | `MCHalSpec` | types; `ExpiredIsDisconnected`, `ReadyIsLive`, `ExpiryIsFinal`, `SilenceIsReported` | timeout 3, 2 steps per period with 1 in the table, replies -1..1 of either checksum |
| `link` | `Spec` | types; `CommandIsConserved`, `DirSettlesBeforeStep`, `StepsAreAccountedFor`, `FeedbackIsFresh`, `StepsNeedCleanRun` | commands 0, 3 and where the axis is, 2 steps per period with 1 in the table, enabling at 0 and 1, FIFO 1, `OkToClear` 2, one fault of any kind, timeout 1, wrap 3 |
| `link_live` | `FairSpec` | `DeadLinkStopsMachine`, `LinkSettles` | 2 garbled frames or missed transfers, an output that is asked for, timeout 2, wrap 5 |
| `spi` | `SpiSpec` | `ImplementsFrameSwap` (with its fairness) | 9 bytes, FIFO 4, no lateness |
| `ring` | `FairRingSpec` | types; `CountFits`, `StartedTimerIsArmed`, `FullRingIsServed`, `ImplementsStepQueue`, `WaitingFramesLeave` | 2 slots, counts modulo 4, 3 frame numbers |
| `encoder` | `EncSpec` | `CountIsTravel`, `StateIsCurrent` | 2 states of travel either way |
| `index` | `IndexSpec` | `IndexSwitchIsNoted`, `SpikeHasCause` | 1 count of travel either way, 4 to a turn |
| `index_tear` | `IndexSpec` | violated: `NoVelocitySpike` | the same |
| `index_reset` | `IndexSpec` | violated: `IndexResetsCount` | the same |
| `pwm` | `FairPwmSpec` | `DutyFitsFrequency`, `FrequencySettles` | a frequency below the limits, one between, one above; `OkToClear` 3 |
| `udp` | `FairUdpSpec` | types; `LossIsSeen`, `DeadBoardStopsMachine`, `NoFrameIsForgotten`, `DeadLinkIsShown`, `PulledCableIsNoticed` | watchdog 3, `OkToClear` 3, timeout 5, wrap 8, 2 faults |
| `board` | `FairBoardSpec` | types; `SavedConfigIsKept`, `RunsOnAConfig`, `OutputsOffUntilFrame`, `InputsAreCurrent`, `BootEnds` | two configurations, any number of power cuts and failures |

**Why these bounds.** The driver's watchdog is the difference between two
counters, so a timeout of 1 to 3 has every case (just in time, just too late,
late for long). `link` takes one fault, of any kind and at any moment, while
core 1 disconnects and patches, and the PIO steps, at will; `OkToClear` 2 lets the
firmware's hysteresis be interrupted half-way. Its commands are far enough apart
to be clamped (3 with 2 steps to a period) and to fall into the gap of the timing
table (2 with 1 in the table), and to reverse before the axis has arrived; it is
enabled at its origin and beside it. `link_live` and `udp` take two faults, so that
one falls into the recovery from another; `udp` keeps the two tens of the code
equal, because ten good frames race with ten silent periods. FIFO depth 1 lets
the FIFO be full with one slow word. `ClockWrap` is small so that the clock wraps,
again and again. Nine bytes over a FIFO of four make the prefill, the full FIFO
and the drain at the end different. A ring of two slots has every position of
`head` against `tail`; counts modulo 4 let a torn count go below zero; three
numbers for two slots tell a frame from the one a ring earlier. (Three slots as in
the firmware, with 12 million states, were checked once and take longer than a
run should.) Two states of travel turn an encoder over each of its transitions
with edges lost in pairs on the way; the index needs one count on either side of
zero for the sign of the half-turn test to matter. Two configurations tell what
was saved from what was there. The theorems of section 4 remove the bounds for
most of the invariants.

`link` lets core 1 be arbitrarily slow (`Core1Prompt` FALSE) and reads the clock
first, so that every false disconnect is included. Core 0 is done with a frame
before the next period (`Core0Prompt`); without that the same properties were
checked once, on 13 million states, and the theorems need neither.

**Fairness.** The realtime thread is periodic, core 1 is an endless loop without
blocking calls, the PIO and the alarm run on clocks of their own, core 0's loop
waits for nothing but a frame: weak fairness of each. Three places need more or
say more. In `link_live` `Core1Prompt` makes core 1 finish a round per period (it
takes microseconds when it prints nothing), which makes `NewPeriod` wait for it now and then: strong
fairness of `NewPeriod`. `AlarmFires` is masked again and again by core 0, but a
pending interrupt is taken as soon as it is unmasked: strong fairness. `BootEnds`
holds up to power cuts that do not go on for ever. No fault is ever assumed to
happen or not to happen; `MaxFaults` and `Faults` make them finite.
`SilenceIsReported` assumes the device silent for good and `FrequencySettles`
frames that stay the same: both say so in their hypotheses.

`link_live` takes the favourable order of core 1's two reads. With the other a
stamp can hit the window in every period; the firmware then disconnects and
reconnects for ever, and `LinkSettles` fails.

**What `index_tear` says.** Core 0 reads the count for the reply (main.c:868)
before it reads and clears the index flag (main.c:887), while `gpio_callback()`
on core 1 zeroes the counter and sets the flag (main.c:957). An edge in between
sends the flag with the count from before the reset. The driver rebases on that
count, and the next reply, with the zeroed one and without the flag, is taken
for motion: the velocity spike that the comment at `hal-driver/flexi-ninja.c:747`
says the rebasing avoids. Masking interrupts on core 0 (main.c:885) does not keep
core 1 out. `SpikeHasCause` (run `index`) says that there is one other way to a
spike and no third: section 5, garbled replies.

**What `index_reset` says.** A reset on command does not zero the PIO's counter
but remembers where it stood, in `pio_enc_offset` (main.c:853); an index edge
zeroes the counter (main.c:957) and leaves the offset, which is subtracted from it
in every reply. After a command at count 5 an index edge is reported as -5, where
the comment at main.c:956 says that the encoder is reset "exactly on the index edge".

**Deadlock** is checked in every run: each of these systems always has a step.

## 4. Theorems

All are proved from the assumptions on the constants stated in the modules
(timeouts and limits positive, positions integers that include 0, and so on),
for every value of them. Each proof takes an invariant that is inductive, one
step per action.

* `ServoLinkProofs`, the driver. `ExpiredIsDisconnected` alone is not inductive:
  `watchdog_process` may set the flag in a state where `connected` is set.
  `LinkInv` adds what excludes it: while `connected` is set the last accepted
  reply is at most one period old, and 0 periods old when `watchdog_process`
  runs; and `watchdog_expired` implies an age beyond the timeout. From it follow
  `ExpiryDisconnects`, `ReadyImpliesLive` and `ExpiryLatches`. The timeout must be
  positive: with 0 the flag would be raised while `connected` is set.
* `ServoLinkProofs`, the link. All but `CleanRun` take Positions to be the
  integers; nothing else is assumed of the timing table, of where the axis is
  enabled, or of how prompt either core is.
  - `CleanRun`: `CleanInv` says that `checksum_ok_count` never exceeds the run of
    good frames while the error stands, and that the run is complete once it is
    not; the count left behind by a disconnect is harmless because the frame that
    sets the error again resets it.
  - `FirmwareTypes`: `FwTyped` bounds the FIFO and says that what it holds are
    words of the wire format.
  - `FeedbackTracks`, with any number of faults: `FreshInv` adds to the property
    what is true between `_send()` and the read, that a reply which checks was
    staged one frame ago; and that before the first transfer no buffer checks.
  - `StepsAccounted`, with any number of faults: the property contains a
    recursive sum over the FIFO. `AccountInv` replaces it by a function of partial
    sums that must exist. A word queued extends the function, a word pulled shifts
    it; that it agrees with the recursive definition is shown by the smallest
    index at which it might not, which needs the well-foundedness of < but no
    induction theorem. `PinInv` says that DIR is as the word asks while it steps.
  - `DirectionSettles`, while no fault has happened: `DirInv` relates the
    directions of the driver's `last_dir`, of the word on the wire, of the word in
    core 0's hands, of the words queued and of the one in progress; `PinSettles`
    relates the last of these to the pin and its setup time. A patch is harmless
    unless it drops a reversal before its wait is over (`cut`), because a reversal
    whose wait is over has settled the pin for the words behind it.
  - `CommandConserved`, while no fault has happened: `BooksInv` says that from
    `process_send` on the two accounts agree, that they are opened at the enabling
    with what is still on its way, and that a disabled axis sends empty words;
    `TrustInv` that neither end gives the other up. `EndToEnd` joins it to
    `StepsAccounted`: what was commanded is what the motor has moved, plus what is
    on its way, and what core 1's patches have dropped.
  - `CleanLinkStaysUp`: without faults no timeout of the driver is too short.
* `SpiExchangeProofs`, for every size of a frame and every depth of the FIFOs
  below it, with `MaxLate` 0. `BytesSwapFrames` is the safety part of the
  refinement of `FrameSwap`. `ExchangeInv` says who is ahead (`TurnInv`: the slave
  may already wait for the next frame while the master still ends the transfer
  before), that what was clocked is in the slave's buffer but for one byte at
  most in its RX FIFO (`TakeInv`), and that what the slave has put out was clocked
  or is in its TX FIFO (`GiveInv`), every byte in its place in the frame.
* `StepRingProofs`, for a ring of any size, with core 1 free to reset it at any
  access. `RingInv` adds to the types how the timer's flags hang together at each
  place (`TimerInv`), who can be where (`ResetInv`: the interrupt is kept out while
  core 0 is at the ring, and a reset that has run into nobody finds nobody there)
  and, while the ring is not torn, that a count that was loaded is still the count
  when it is stored (`LoadInv`). `RingIsQueue` needs `EndsInv` as well: while the ring
  is not torn `head` is `count` slots beyond `tail`, give or take the frame being
  put in or taken out. The lemmas about positions modulo the size then say that
  writing the head slot appends to the queue and moving the tail drops its first.
* `UdpLinkProofs`. `LossIsSeen` needs `LossInv`: frames missed, in core 0's hands,
  waiting on the board and answered but not yet read are at most what `drops`,
  `overflows` and `pardons` say, plus the one awaited; a garbled frame whose error
  core 1 has cleared counts twice, as it will be both missed and answered.
  `InboxInv` bounds what can be left in the W5500 by the periods that ended with
  its interrupt pending, and `QueueInv` what can wait in the socket by the faults;
  `WatchdogInv` ties `elapsed` to `connected`. Without faults the bound
  `WatchdogTimeout + 1` on a dead board is tight.
* `EncoderIndexProofs`. `SwitchInv` says for each place of core 1 and its
  interrupt whether the note agrees with the switch, and that the interrupt never
  finds a note the loop is about to overwrite. `ReportInv`, for `NoSpike`: while no
  reset is to be told to the driver and nothing has come between a count and its
  event, the count is the one last reported, or last accepted, and the travel since.
* `IrqEncoderProofs`, for any reach. Each turn of the shaft changes the colour of
  its state (00 and 11 against 01 and 10), and each transition counts just when it
  changes the colour. `CountInv`: from the reading of the pins on, the count plus
  the transition still to be handled is the travel; when edges were lost in pairs,
  count, travel and the two colours still add up to an even number; with no edge
  pending the state in force is the shaft's. `ResetInv` carries this through the
  steps of a reset, and `ApartInv` says where the cores and the interrupt can be.
  All three hold while the last reset is not torn, and are established anew by the
  first one that is not, from nothing but the types.
* `PwmOutputProofs`. `FrameInv`: the frame in `rx_buffer` carries the command if it
  is obeyed, and the duty is the approved frequency's. `CommandInv`: while there
  was no new command core 1 has work only because the one command was approved.
  `MatchInv`: when core 1 has nothing to do the slice matches what it remembers, or
  the frame core 0 is handling explains why not; when it has work and does not
  match, no frame will bring back the frequency it remembers.
* `BoardProofs`. `CoresInv` (where the two cores can be together), `SettingsInv`
  (a board past its load has settings that are a configuration), `SaveInv` (at each
  step of a save what is to be saved is where the next step takes it from, unless
  touched), `OutputInv` (before the first frame nothing has switched an output on)
  and `InputInv` (an input that differs has its flag set, or is about to be read).

`PROJECT.json` lists the theorems ("theorems") with the property each states.

**Only model-checked.** Liveness: `SilenceIsReported`, `DeadLinkStopsMachine`,
`LinkSettles`, `WaitingFramesLeave`, `FrequencySettles`, `PulledCableIsNoticed`,
`BootEnds`, and in `ImplementsFrameSwap` the fairness of `FrameSwap`: the prover has
no ENABLED. Every safety property the passing runs check is stated by a theorem.

## 5. What the properties do not claim

Reading the code for the models showed behaviour that the properties exclude by
a hypothesis, a history variable or a bound, because the code does otherwise. Two
cases contradict a comment and are runs (`index_tear`, `index_reset`); the others
can be seen by lifting what is named here.

*The step path*

* **Outputs and PWM follow a garbled frame.** Only the steps and the duty of the
  PWM wait for a clean checksum. Outputs are set from the frame as received
  (main.c:901). Core 1 compares the frequency core 0 approved, but sets that of
  the frame received last (main.c:386), which may be a newer, garbled one: `strange`
  marks it in `PwmOutput`, and the wrong frequency stays until the command changes.
* **A garbled frame is obeyed** when core 1 disconnects, and so clears
  `checksum_error` (main.c:280), between its check and its use (main.c:799 and 810).
  In `StepsNeedCleanRun` a link that was given up starts a clean run.
* **Setup after a lost reversal.** `last_dir` is the driver's idea of the DIR pin
  (flexi-ninja.c:902). When the frame with a reversal is lost, the next one steps
  in the new direction without setup time. `DirSettlesBeforeStep` speaks of the
  time before the first fault; with one garbled frame it fails.
* **Changing the pulse width.** Core 1's patch of the PIO program restarts the
  state machine (main.c:362) and drops the rest of the command in progress, which
  was already reported as done: `aborted`. If that command was waiting for a
  reversal to settle, the next ones in that direction do not wait: `cut`. A patch
  while the step pin is high also merges that pulse with the next one, which is
  not modelled: a step is one action.
* **Overspeed.** Counts between the end of the timing table and the clamp of 1023
  look up a zero word (flexi-ninja.c:904) while `prev_pos` moves on. The steps are
  never made up for: `skipped`.
* **Enabling away from the origin.** Enabling restarts the baseline at 0
  (flexi-ninja.c:877), so an axis enabled elsewhere sends the whole distance from 0
  as steps. `CommandIsConserved` counts them as commanded, as the code does.
* **Disconnecting.** Core 1 clears the board's own outputs (main.c:287); the
  expander's outputs and the PWM keep what they had. After 2^32 us of silence, and
  every 71.6 minutes again, it takes the dead link for a live one for one timeout
  (main.c:260 and 296); the outputs stay off. `DeadLinkStopsMachine` says that they
  do, and that the error comes back each time, not that it stays.
* **False timeouts.** A frame stamped between core 1's two reads disconnects a live
  link. Nothing keeps that from happening in every period: `link_live` takes the
  other order of the two reads, for with this one the firmware may disconnect and
  reconnect for ever and `LinkSettles` fails. It also takes core 1's rounds to be
  shorter than a period, which a `printf` on the UART makes untrue now and then.

*The step ring* (timer build; `use_timer_interrupt` is 0 as shipped)

* **A reset that runs into core 0.** Interrupts are masked on the core that masks
  them (main.c:166 and 196), so that core 1's reset may come between a load and a
  store of `count`: the 8-bit count may then be 255, or the indices disagree with
  it, and frames are lost or put out twice until the next reset that finds core 0
  away from the ring. `torn` marks the ring from the one to the other.
* **A timer without its alarm.** A stop by core 1 between main.c:189 and 190 leaves
  `timer_started` set with nothing armed; a target that has gone by is not noticed
  (main.c:189 and 997), and without a free alarm (main.c:180) the frame that fills
  the ring starts nothing. No frame leaves the ring then until the next timeout:
  `astray`. In the model an alarm may fire at any time after it was set, and
  `hardware_alarm_set_target` with an `alarm_num` that core 1 has just made -1 sets
  no alarm; the copy of a frame into its slot is one step.

*Encoders*

* **A torn reset.** A reset that runs into an edge or another reset falsifies the
  count, and the state it goes on from, until the next reset that does not (`torn`).
  The interrupts of A and B are switched in one step.
* **Garbled replies.** The driver throws away a reply with a bad checksum
  (flexi-ninja.c:683-697), and with it an index event that core 0 has already cleared
  (main.c:888). The next reply shows the reset as motion. `SpikeHasCause` names it
  ("lost") beside the interrupt between count and event ("torn").
* **The index and the offset**: see `index_reset` in section 3. `SpikeHasCause` is about
  differences, which the wrong offset leaves alone.

*The links*

* **A late SPI slave.** A slave that is busy as a transfer begins shifts the
  frame, and nothing realigns the two ends: every later frame is garbled until a
  restart. `ImplementsFrameSwap` is checked with `MaxLate` 0.
* **Lost datagrams.** The steps of a lost frame are never made up for: the next
  command starts where this one was to end. `LossIsSeen` says that the loss is seen
  on `connected`, for one period, and that is all the driver does. Two losses it
  does not see: a word lost in a full FIFO, whose flag in the answer the Ethernet
  driver does not read (`overflows`), and a frame that is refused at main.c:810 and
  answered at 1066, because core 1 has cleared the error in between, or obeyed
  although garbled (`pardons`).
* **Garbled answers.** Over Ethernet a bad answer takes `io-ready-out` back only
  until the next send; a missing one leaves it as it is.
* **The first reply** is accepted unchecked (flexi-ninja.c:683).
* **io-ready-out without a watchdog** follows `io-ready-in` from the second period
  on when `watchdog-process` is not in the thread (flexi-ninja.c:815 and 984).

*The board*

* **A failed read of the expander** (flexgpio.c:63) reports what was on the stack as
  inputs, until the next change. `doubtful` marks it; `InputsAreCurrent` says
  nothing of it.
* **Settings and `defaults`.** The terminal's `defaults` saves the default
  configuration but leaves the settings the board runs on; a `save` after it
  writes the old ones back (serial_terminal.c:131).

## 6. Not modelled

* `pio_utils.c`: a search at boot over state machines the SDK claims.
* `picobob-dlx.c`: a near copy of the Ethernet driver, with the same link
  control; `UdpLink` describes it too.
* Velocity mode of the axes, jogging, the analog inputs, the MAC and IP set-up:
  straight-line code without a state that interacts. Encoder velocity:
  floating-point arithmetic. The values of the timing table and the cycles of
  the PIO program against the servo clock: durations, for which these models
  have no clock. `pwm_calculate_wrap`'s search: arithmetic of one expression.
* The handshake of `core0_wait` (main.c:723): no one sends the word it waits for,
  so that core 0 never enters it.
* The chunks of an upload to the RP2040 are one step; its program, and the
  bootloader's, are external. The W5500's library, the PIO quadrature program, and
  everything under `firmware/lib` are vendored and enter as what the firmware
  relies on.

The repository's sources count some 55,000 lines, nine tenths of them vendored
drivers, register headers, fonts and protocol stacks, which this project leaves
aside on purpose; of the 5,000 to 6,000 lines that are Flexi-Ninja's own, the
models stand for the parts that keep state between calls.

What is left to do: velocity mode in `HalDriver`; the checksum error between ring
and PIO in the timer build, which joins `StepRing` to `Firmware`.
