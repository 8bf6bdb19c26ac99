-------------------------------- MODULE Firmware --------------------------------
(***************************************************************************)
(* The RP2350 side of the servo link (firmware/src/main.c, SPI build, no   *)
(* step timer), one axis of it: core 0 takes a frame off the wire and      *)
(* handles it, core 1 watches the time since the last frame, and a PIO     *)
(* state machine (pio/freq_generator.pio) turns command words into steps.  *)
(* The three share memory and run concurrently: a handler that reads or    *)
(* writes what another one does is split at every such access.             *)
(*                                                                         *)
(* A frame is a record [word, out, timing, ok]; ok is the outcome of its   *)
(* checksum.  Time is counted in servo periods: silence is the time since  *)
(* last_packet_time, as the uint32_t of core 1 sees it.  Encoders, PWM and *)
(* the inputs of the reply have no part in the properties of this module   *)
(* and are left out.                                                       *)
(***************************************************************************)
EXTENDS Integers, Sequences

CONSTANTS
    TimeoutPeriods,  \* TIMEOUT_US in servo periods
    ClockWrap,       \* 2^32 us in servo periods
    OkToClear,       \* good frames in a row that clear checksum_error (10)
    FifoDepth,       \* entries of a PIO TX FIFO (4)
    ClockFirst,      \* does core 1 read the clock before last_packet_time?
    Core0Prompt,     \* is core 0 done with a frame before the next period?
    Core1Prompt,     \* does core 1 finish a round in every servo period?
    Unpatched        \* old_sety, old_nop, ...: no setting of a frame

ASSUME TimeoutAssumption   == TimeoutPeriods \in Nat \ {0}
ASSUME WrapAssumption      == ClockWrap \in Nat /\ ClockWrap > TimeoutPeriods + 1
ASSUME OkToClearAssumption == OkToClear \in Nat \ {0}
ASSUME FifoAssumption      == FifoDepth \in Nat \ {0}
ASSUME ClockAssumption     == ClockFirst \in BOOLEAN
ASSUME PromptAssumption    == Core0Prompt \in BOOLEAN /\ Core1Prompt \in BOOLEAN

VARIABLES
    core0,             \* where core 0 is in handle_data()
    rx_frame,          \* rx_buffer: the frame last received
    checksum_error,
    checksum_ok_count,
    good_run,          \* history: good frames since the last bad one, capped
    stepgen_position,
    reply,             \* tx_buffer: what the next transfer sends back
    gpio_out,          \* an output pin of the RP2350
    expander_out,      \* an output of the FlexGPIO expander
    silence,           \* time_diff: servo periods since last_packet_time
    timeout_error,     \* also the complement of connected
    core1,             \* where core 1 is in its loop
    setting,           \* the timing patched into the PIO program
    fifo,              \* TX FIFO of the state machine
    pio,               \* where the PIO program is: "dir", "wait" or "run"
    steps_left,        \* register X: steps left of the word being executed
    osr,               \* the rest of that word
    dir_pin,
    settled,           \* history: has DIR had its setup time as it is now?
    cut,               \* history: a patch dropped a reversal before its steps
    motor,             \* steps put out, signed
    aborted            \* history: steps dropped by core 1's patch, signed

fwCheck == <<checksum_error, checksum_ok_count, good_run>>
fwOut   == <<gpio_out, expander_out>>
fwCore1 == <<timeout_error, core1, setting>>
fwPio   == <<pio, osr, steps_left, dir_pin, settled, motor>>
fwLost  == <<cut, aborted>>
fwVars  == <<core0, rx_frame, fwCheck, stepgen_position, reply, fwOut, silence,
             fwCore1, fifo, fwPio, fwLost>>

--------------------------------------------------------------------------------
NoCommand == [steps |-> 0, sign |-> 0, changed |-> FALSE]

Towards(sign, steps) == IF sign = 1 THEN steps ELSE -steps
StepsOf(word)        == Towards(word.sign, word.steps)

FwInit(boot) ==
    /\ core0 = "idle"
    /\ rx_frame = [word |-> NoCommand, out |-> 0, timing |-> boot, ok |-> FALSE]
    /\ checksum_error = FALSE
    /\ checksum_ok_count = 0
    /\ good_run = OkToClear
    /\ stepgen_position = 0
    /\ reply = [ok |-> TRUE, pos |-> 0]
    /\ gpio_out = 0
    /\ expander_out = 0
    /\ silence = 0
    /\ timeout_error = TRUE
    /\ core1 = "idle"
    /\ setting = Unpatched
    /\ fifo = << >>
    /\ pio = "run"
    /\ osr = [sign |-> 0, changed |-> FALSE]
    /\ steps_left = 0
    /\ dir_pin = 0
    /\ settled = TRUE
    /\ cut = FALSE
    /\ motor = 0
    /\ aborted = 0

--------------------------------------------------------------------------------
(***************************************************************************)
(* Core 0: handle_data(), in the order of the code: the stamp, the         *)
(* checksum, the step commands, the outputs and the reply.  Core 1 may     *)
(* clear checksum_error and the outputs between any two of them.           *)
(***************************************************************************)
(* A stamp set while core 1 is between its two reads makes the difference  *)
(* negative, which as a uint32_t is longer than any timeout.               *)
TakeFrame(frame) ==
    /\ core0 = "idle"
    /\ core0' = "check"
    /\ rx_frame' = frame
    /\ silence' = 0
    /\ core1' = IF core1 = "clock" /\ ClockFirst THEN "late" ELSE core1
    /\ UNCHANGED <<fwCheck, stepgen_position, reply, fwOut, timeout_error,
                   setting, fifo, fwPio, fwLost>>

(* One bad frame sets checksum_error; it takes OkToClear good ones in a    *)
(* row to clear it, the last of which is obeyed.                           *)
CheckBad ==
    /\ checksum_error' = TRUE
    /\ checksum_ok_count' = 0
    /\ good_run' = 0

(* Mutant: the count of good frames is not carried on.                     *)
CheckGood_Forgets ==
    /\ good_run' = IF good_run < OkToClear THEN good_run + 1 ELSE good_run
    /\ LET clears == checksum_error /\ checksum_ok_count + 1 >= OkToClear
       IN  checksum_error' = (checksum_error /\ ~clears)
    /\ checksum_ok_count' = 0

(* Mutant: the error is cleared one good frame early.                      *)
CheckGood_Early ==
    /\ good_run' = IF good_run < OkToClear THEN good_run + 1 ELSE good_run
    /\ LET clears == checksum_error /\ checksum_ok_count + 2 >= OkToClear
       IN  /\ checksum_error' = (checksum_error /\ ~clears)
           /\ checksum_ok_count' = IF clears THEN 0
                                   ELSE IF checksum_error THEN checksum_ok_count + 1
                                   ELSE checksum_ok_count

CheckGood ==
    /\ good_run' = IF good_run < OkToClear THEN good_run + 1 ELSE good_run
    /\ LET clears == checksum_error /\ checksum_ok_count + 1 >= OkToClear
       IN  /\ checksum_error' = (checksum_error /\ ~clears)
           /\ checksum_ok_count' = IF clears THEN 0
                                   ELSE IF checksum_error THEN checksum_ok_count + 1
                                   ELSE checksum_ok_count

CheckFrame ==
    /\ core0 = "check"
    /\ core0' = "apply"
    /\ IF rx_frame.ok THEN CheckGood ELSE CheckBad
    /\ UNCHANGED <<rx_frame, stepgen_position, reply, fwOut, silence, fwCore1,
                   fifo, fwPio, fwLost>>

(* Mutant: the FIFO is never taken to be full.                             *)
Lost_Never == FALSE

(* apply_stepgen_commands(): a zero word is skipped; a TX FIFO that stays  *)
(* full for 1000 polls loses the word.                                     *)
Skipped == checksum_error \/ rx_frame.word = NoCommand
Lost    == ~Skipped /\ Len(fifo) >= FifoDepth

(* Mutant: a lost word is counted.                                         *)
ApplyCommands_CountsLost ==
    /\ core0 = "apply"
    /\ core0' = "output"
    /\ IF Skipped
       THEN UNCHANGED <<fifo, stepgen_position>>
       ELSE /\ fifo' = IF Lost THEN fifo ELSE Append(fifo, rx_frame.word)
            /\ stepgen_position' = stepgen_position + StepsOf(rx_frame.word)
    /\ UNCHANGED <<rx_frame, fwCheck, reply, fwOut, silence, fwCore1, fwPio, fwLost>>

ApplyCommands ==
    /\ core0 = "apply"
    /\ core0' = "output"
    /\ IF Skipped \/ Lost
       THEN UNCHANGED <<fifo, stepgen_position>>
       ELSE /\ fifo' = Append(fifo, rx_frame.word)
            /\ stepgen_position' = stepgen_position + StepsOf(rx_frame.word)
    /\ UNCHANGED <<rx_frame, fwCheck, reply, fwOut, silence, fwCore1, fwPio, fwLost>>

(* Only steps (and the duty of the PWM) wait for a clean checksum: the     *)
(* outputs follow the frame as received.                                   *)
SetOutputs ==
    /\ core0 = "output"
    /\ core0' = "idle"
    /\ gpio_out' = rx_frame.out
    /\ expander_out' = rx_frame.out
    /\ reply' = [ok |-> TRUE, pos |-> stepgen_position]
    /\ UNCHANGED <<rx_frame, fwCheck, stepgen_position, silence, fwCore1, fifo,
                   fwPio, fwLost>>

HandleData == CheckFrame \/ ApplyCommands \/ SetOutputs

--------------------------------------------------------------------------------
(***************************************************************************)
(* Core 1: each round computes time_diff, then acts on it.  A frame may    *)
(* arrive in between.  With Core1Prompt, core1 is "done" once a round has   *)
(* been finished in the running servo period.                              *)
(***************************************************************************)
RoundEnd == IF Core1Prompt THEN "done" ELSE "idle"

Core1Clock ==
    /\ core1 \in {"idle", "done"}
    /\ core1' = IF silence > TimeoutPeriods THEN "late" ELSE "clock"
    /\ UNCHANGED <<core0, rx_frame, fwCheck, stepgen_position, reply, fwOut,
                   silence, timeout_error, setting, fifo, fwPio, fwLost>>

(* In time: connected, and the PIO program is patched when the last frame  *)
(* asks for another timing.  The patch sends the state machine back to its *)
(* pull, wherever it is: what it was doing is lost.                        *)
Core1Serve ==
    /\ core1 = "clock"
    /\ core1' = RoundEnd
    /\ timeout_error' = FALSE
    /\ setting' = rx_frame.timing
    /\ IF rx_frame.timing # setting
       THEN /\ aborted' = aborted + Towards(osr.sign, steps_left)
            /\ cut' = (cut \/ (pio # "run" /\ osr.changed))
            /\ pio' = "run"
            /\ steps_left' = 0
       ELSE UNCHANGED <<fwLost, pio, steps_left>>
    /\ UNCHANGED <<core0, rx_frame, fwCheck, stepgen_position, reply, fwOut,
                   silence, fifo, osr, dir_pin, settled, motor>>

(* Timed out: the first round disconnects, the others only poll the        *)
(* terminal.                                                               *)
Core1Late ==
    /\ core1 = "late"
    /\ IF timeout_error
       THEN /\ core1' = RoundEnd
            /\ UNCHANGED <<timeout_error, checksum_error, good_run>>
       ELSE /\ core1' = "outputs"
            /\ timeout_error' = TRUE
            /\ checksum_error' = FALSE
            /\ good_run' = OkToClear
    /\ UNCHANGED <<core0, rx_frame, checksum_ok_count, stepgen_position, reply,
                   fwOut, silence, setting, fifo, fwPio, fwLost>>

(* Mutant: the disconnect leaves the outputs as they are.                  *)
Core1Outputs_Keeps ==
    /\ core1 = "outputs"
    /\ core1' = RoundEnd
    /\ UNCHANGED <<core0, rx_frame, fwCheck, stepgen_position, reply, fwOut,
                   silence, timeout_error, setting, fifo, fwPio, fwLost>>

(* The end of the disconnect: of the outputs only the RP2350's own pins    *)
(* are cleared.                                                            *)
Core1Outputs ==
    /\ core1 = "outputs"
    /\ core1' = RoundEnd
    /\ gpio_out' = 0
    /\ UNCHANGED <<core0, rx_frame, fwCheck, stepgen_position, reply,
                   expander_out, silence, timeout_error, setting, fifo, fwPio,
                   fwLost>>

Core1 == Core1Clock \/ Core1Serve \/ Core1Late \/ Core1Outputs

--------------------------------------------------------------------------------
(***************************************************************************)
(* The PIO program: pull a word, set DIR, wait out the setup time only if  *)
(* the word says the direction changed, then put out its steps.  At "run"  *)
(* with no steps left it stands at the pull.                               *)
(***************************************************************************)
PioPull ==
    /\ pio = "run"
    /\ steps_left = 0
    /\ fifo # << >>
    /\ pio' = "dir"
    /\ osr' = [sign |-> Head(fifo).sign, changed |-> Head(fifo).changed]
    /\ steps_left' = Head(fifo).steps
    /\ fifo' = Tail(fifo)
    /\ UNCHANGED <<core0, rx_frame, fwCheck, stepgen_position, reply, fwOut,
                   silence, fwCore1, dir_pin, settled, motor, fwLost>>

PioDir ==
    /\ pio = "dir"
    /\ pio' = IF osr.changed THEN "wait" ELSE "run"
    /\ dir_pin' = osr.sign
    /\ settled' = (settled /\ dir_pin = osr.sign)
    /\ UNCHANGED <<core0, rx_frame, fwCheck, stepgen_position, reply, fwOut,
                   silence, fwCore1, fifo, osr, steps_left, motor, fwLost>>

PioWait ==
    /\ pio = "wait"
    /\ pio' = "run"
    /\ settled' = TRUE
    /\ cut' = FALSE
    /\ UNCHANGED <<core0, rx_frame, fwCheck, stepgen_position, reply, fwOut,
                   silence, fwCore1, fifo, osr, steps_left, dir_pin, motor,
                   aborted>>

PioStep ==
    /\ pio = "run"
    /\ steps_left > 0
    /\ steps_left' = steps_left - 1
    /\ motor' = motor + Towards(dir_pin, 1)
    /\ UNCHANGED <<core0, rx_frame, fwCheck, stepgen_position, reply, fwOut,
                   silence, fwCore1, fifo, pio, osr, dir_pin, settled, fwLost>>

Pio == PioPull \/ PioDir \/ PioWait \/ PioStep

(* A servo period goes by.  The difference of two clocks is cut off to 32  *)
(* bits, so that a silence of ClockWrap looks like none.                   *)
Elapse ==
    /\ Core0Prompt => core0 = "idle"
    /\ Core1Prompt => core1 = "done"
    /\ core1' = IF core1 = "done" THEN "idle" ELSE core1
    /\ silence' = (silence + 1) % ClockWrap
    /\ UNCHANGED <<core0, rx_frame, fwCheck, stepgen_position, reply, fwOut,
                   timeout_error, setting, fifo, fwPio, fwLost>>

--------------------------------------------------------------------------------
(* What is left to put out: the command in progress and the queue.         *)
Queued ==
    LET sum[i \in 0 .. Len(fifo)] ==
            IF i = 0 THEN 0 ELSE sum[i - 1] + StepsOf(fifo[i])
    IN  sum[Len(fifo)]

(* stepgen_position is "signed actual step position per axis"              *)
(* (transmission.h) although it is counted when a word is queued: every    *)
(* counted step is put out, still to come, or was dropped by a patch of    *)
(* the PIO program; none is counted for a word the full FIFO lost, or put  *)
(* out without being counted.                                              *)
StepsAreAccountedFor ==
    stepgen_position = motor + Towards(osr.sign, steps_left) + Queued + aborted

(* After a bad frame no step is queued until OkToClear good frames have    *)
(* arrived in a row, unless the link was given up in between.              *)
StepsNeedCleanRun ==
    [][stepgen_position' # stepgen_position => good_run' >= OkToClear]_fwVars

(* Every variable has its type, and the FIFO its depth.                    *)
FwTypeOK ==
    /\ core0 \in {"idle", "check", "apply", "output"}
    /\ checksum_error \in BOOLEAN
    /\ checksum_ok_count \in 0 .. OkToClear - 1
    /\ good_run \in 0 .. OkToClear
    /\ stepgen_position \in Int
    /\ reply.pos \in Int
    /\ gpio_out \in {0, 1}
    /\ expander_out \in {0, 1}
    /\ silence \in 0 .. ClockWrap - 1
    /\ timeout_error \in BOOLEAN
    /\ core1 \in {"idle", "clock", "late", "outputs", "done"}
    /\ Len(fifo) <= FifoDepth
    /\ pio \in {"dir", "wait", "run"}
    /\ osr.sign \in {0, 1}
    /\ steps_left \in Nat
    /\ dir_pin \in {0, 1}
    /\ settled \in BOOLEAN
    /\ cut \in BOOLEAN
    /\ motor \in Int
    /\ aborted \in Int
================================================================================
