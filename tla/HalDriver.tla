------------------------------- MODULE HalDriver -------------------------------
(***************************************************************************)
(* The LinuxCNC side of the servo link: the SPI HAL driver                 *)
(* (hal-driver/flexi-ninja.c), one axis of it in position mode.            *)
(*                                                                         *)
(* The realtime thread calls the exported functions in a fixed order,      *)
(*                                                                         *)
(*    motion -> watchdog-process -> process-send -> process-recv -> ...    *)
(*                                                                         *)
(* "motion" stands for the rest of the thread, which writes the driver's   *)
(* input pins.  process-send ends in the full-duplex SPI transfer of       *)
(* _send(), a step of its own ("exchange") because the device takes part   *)
(* in it: ServoLink joins it to the firmware.  Here, and in the theorems   *)
(* about this module, the device may answer anything at all.               *)
(*                                                                         *)
(* Positions are counted in steps, relative to the fixed command offset.   *)
(* The clock current_time is seen only through its distance from           *)
(* last_received_time, so the model keeps that distance, age.              *)
(***************************************************************************)
EXTENDS Integers

CONSTANTS
    WatchdogTimeout,  \* watchdog_timeout: thread periods without a reply
    LateWatchdog,     \* may the thread run before watchdog-process is added?
    StepLimit,        \* the clamp on steps per period (1023 in the code)
    TimingMax,        \* last non-zero entry of the timing table
    Positions,        \* the step positions a reply may report
    Commands,         \* the positions motion commands an enabled axis to
    Outputs,          \* the values of an output pin
    Requests,         \* the values of io-ready-in
    Timings           \* the values of pulse-width / dir-setup

ASSUME WatchdogTimeoutAssumption == WatchdogTimeout \in Nat \ {0}
ASSUME LateWatchdogAssumption    == LateWatchdog \in BOOLEAN
ASSUME StepLimitAssumption       == StepLimit \in Nat \ {0}
ASSUME TimingMaxAssumption       == TimingMax \in 0 .. StepLimit
ASSUME PositionsAssumption       == Positions \subseteq Int /\ 0 \in Positions
ASSUME CommandsAssumption        == Commands \subseteq Positions
ASSUME OutputsAssumption         == Outputs \subseteq {0, 1}
ASSUME RequestsAssumption        == Requests \subseteq BOOLEAN

VARIABLES
    thread,            \* the function the thread calls next
    io_ready_in,       \* pin
    enable,            \* pin
    command,           \* pin
    pulse_width,       \* pins pulse-width and dir-setup, as one setting
    output,            \* an output pin
    watchdog_running,
    age,               \* current_time - last_received_time
    received,          \* last_received_time # 0
    watchdog_expired,
    connected,         \* pin
    io_ready_out,      \* pin
    error_triggered,
    prev_pos,          \* the position commanded so far
    first_data,
    last_dir,          \* -1 until the first step
    last_actual,       \* last_actual_position
    feedback,          \* pin
    tx_buffer,
    rx_buffer

halPins  == <<io_ready_in, enable, command, pulse_width, output>>
halLink  == <<watchdog_running, age, received, watchdog_expired, connected,
              io_ready_out, error_triggered>>
halSteps == <<prev_pos, first_data, last_dir>>
halBack  == <<last_actual, feedback>>
halVars  == <<thread, halPins, halLink, halSteps, halBack, tx_buffer, rx_buffer>>

--------------------------------------------------------------------------------
(***************************************************************************)
(* The wire format: a step command word (step count, direction bit,        *)
(* direction-changed bit), the frame that carries it, and the reply.       *)
(***************************************************************************)
Word  == [steps : 0 .. StepLimit, sign : {0, 1}, changed : BOOLEAN]
Frame == [word : Word, out : {0, 1}, timing : Timings, ok : BOOLEAN]
Reply == [ok : BOOLEAN, pos : Positions]

NoWord == [steps |-> 0, sign |-> 0, changed |-> FALSE]

Idle(t) == [word |-> NoWord, out |-> 0, timing |-> t, ok |-> FALSE]

Signed(word) == IF word.sign = 1 THEN word.steps ELSE -word.steps

HalInit ==
    /\ thread = "motion"
    /\ io_ready_in = FALSE
    /\ enable = FALSE
    /\ command = 0
    /\ pulse_width \in Timings
    /\ output = 0
    /\ watchdog_running = FALSE
    /\ age = 0
    /\ received = FALSE
    /\ watchdog_expired = FALSE
    /\ connected = FALSE
    /\ io_ready_out = FALSE
    /\ error_triggered = FALSE
    /\ prev_pos = 0
    /\ first_data = TRUE
    /\ last_dir = -1
    /\ last_actual = 0
    /\ feedback = 0
    /\ tx_buffer = Idle(pulse_width)
    /\ rx_buffer = [ok |-> FALSE, pos |-> 0]

--------------------------------------------------------------------------------
(***************************************************************************)
(* The rest of the thread sets the driver's input pins.  While the axis is *)
(* disabled LinuxCNC keeps the commanded position on the feedback.  A HAL  *)
(* file may add watchdog-process to the thread late, or never.             *)
(***************************************************************************)
Motion(en, cmd, pw, out, ready) ==
    /\ thread = "motion"
    /\ enable' = en
    /\ command' = cmd
    /\ IF en /\ enable THEN cmd \in Commands ELSE cmd = feedback
    /\ pulse_width' = pw
    /\ output' = out
    /\ io_ready_in' = ready
    /\ \/ thread' = "watchdog"
       \/ LateWatchdog /\ ~watchdog_running /\ thread' = "send"
    /\ UNCHANGED <<halLink, halSteps, halBack, tx_buffer, rx_buffer>>

(* One tick of the driver's clock; age is kept only as far as it matters.  *)
NextAge == IF age > WatchdogTimeout THEN age ELSE age + 1

WatchdogProcess ==
    /\ thread = "watchdog"
    /\ age' = NextAge
    /\ watchdog_running' = TRUE
    /\ watchdog_expired' = (NextAge > WatchdogTimeout)
    /\ thread' = "send"
    /\ UNCHANGED <<halPins, received, connected, io_ready_out, error_triggered,
                   halSteps, halBack, tx_buffer, rx_buffer>>

--------------------------------------------------------------------------------
(***************************************************************************)
(* Step generation in process-send: what position mode makes of the        *)
(* command.  The steps due are clamped to StepLimit.  The table entry of a *)
(* count above TimingMax is zero, so the word keeps only its direction     *)
(* bits, while prev_pos moves on by the full count.                        *)
(***************************************************************************)
Base == IF first_data THEN 0 ELSE prev_pos

StepsDue ==
    LET distance == IF command >= Base THEN command - Base ELSE Base - command
    IN  IF distance > StepLimit THEN StepLimit ELSE distance

Sign == IF Base < command THEN 1 ELSE 0

(* Mutant: the table is taken to be an entry shorter than it is.           *)
StepWord_ShortTable ==
    IF StepsDue = 0
    THEN NoWord
    ELSE [steps   |-> IF StepsDue < TimingMax THEN StepsDue ELSE 0,
          sign    |-> Sign,
          changed |-> Sign # last_dir]

StepWord ==
    IF StepsDue = 0
    THEN NoWord
    ELSE [steps   |-> IF StepsDue <= TimingMax THEN StepsDue ELSE 0,
          sign    |-> Sign,
          changed |-> Sign # last_dir]

(* Mutant: a period without steps also sets last_dir.                      *)
StepGen_IdleSetsDir ==
    IF enable
    THEN /\ first_data' = FALSE
         /\ prev_pos' = IF Sign = 1 THEN Base + StepsDue ELSE Base - StepsDue
         /\ last_dir' = Sign
    ELSE /\ first_data' = TRUE
         /\ UNCHANGED <<prev_pos, last_dir>>

StepGen ==
    IF enable
    THEN /\ first_data' = FALSE
         /\ prev_pos' = IF Sign = 1 THEN Base + StepsDue ELSE Base - StepsDue
         /\ last_dir' = IF StepsDue > 0 THEN Sign ELSE last_dir
    ELSE /\ first_data' = TRUE
         /\ UNCHANGED <<prev_pos, last_dir>>

(* process-send after the watchdog has expired: nothing goes out.          *)
SendExpired ==
    /\ thread = "send"
    /\ watchdog_expired
    /\ io_ready_out' = FALSE
    /\ tx_buffer' = Idle(tx_buffer.timing)
    /\ thread' = "recv"
    /\ UNCHANGED <<halPins, watchdog_running, age, received, watchdog_expired,
                   connected, error_triggered, halSteps, halBack, rx_buffer>>

(* process-send proper, up to the point where _send() starts the transfer. *)
SendFrame ==
    /\ thread = "send"
    /\ ~watchdog_expired
    /\ watchdog_running
    /\ io_ready_out' = io_ready_in
    /\ StepGen
    /\ tx_buffer' = [word   |-> IF enable THEN StepWord ELSE NoWord,
                     out    |-> output,
                     timing |-> pulse_width,
                     ok     |-> TRUE]
    /\ thread' = "exchange"
    /\ UNCHANGED <<halPins, watchdog_running, age, received, watchdog_expired,
                   connected, error_triggered, halBack, rx_buffer>>

(* process-send when watchdog-process has never run: it complains once,    *)
(* clears io-ready-out that one time, and sends nothing.                   *)
SendNoWatchdog ==
    /\ thread = "send"
    /\ ~watchdog_expired
    /\ ~watchdog_running
    /\ io_ready_out' = (io_ready_in /\ error_triggered)
    /\ error_triggered' = TRUE
    /\ tx_buffer' = Idle(tx_buffer.timing)
    /\ thread' = "recv"
    /\ UNCHANGED <<halPins, watchdog_running, age, received, watchdog_expired,
                   connected, halSteps, halBack, rx_buffer>>

ProcessSend == SendExpired \/ SendFrame \/ SendNoWatchdog

(* The transfer of _send(): whatever came back is the new rx_buffer.       *)
Exchange(reply) ==
    /\ thread = "exchange"
    /\ rx_buffer' = reply
    /\ thread' = "recv"
    /\ UNCHANGED <<halPins, halLink, halSteps, halBack, tx_buffer>>

--------------------------------------------------------------------------------
(* Mutant: process-recv dates a reply before it looks at the flag.         *)
RecvExpired_Restamps ==
    /\ thread = "recv"
    /\ watchdog_expired
    /\ io_ready_out' = FALSE
    /\ age' = 0
    /\ thread' = "motion"
    /\ UNCHANGED <<halPins, watchdog_running, received, watchdog_expired,
                   connected, error_triggered, halSteps, halBack,
                   tx_buffer, rx_buffer>>

(* process-recv after the watchdog has expired.                            *)
RecvExpired ==
    /\ thread = "recv"
    /\ watchdog_expired
    /\ io_ready_out' = FALSE
    /\ thread' = "motion"
    /\ UNCHANGED <<halPins, watchdog_running, age, received, watchdog_expired,
                   connected, error_triggered, halSteps, halBack,
                   tx_buffer, rx_buffer>>

(* Before the first reply was accepted the checksum is not looked at.      *)
Accepted == received => rx_buffer.ok

(* Mutants: a bad reply leaves connected alone, leaves io-ready-out alone, *)
(* or counts as a sign of life.                                            *)
RecvBad_StaysConnected ==
    /\ thread = "recv"
    /\ ~watchdog_expired
    /\ ~Accepted
    /\ io_ready_out' = FALSE
    /\ thread' = "motion"
    /\ UNCHANGED <<halPins, watchdog_running, age, received, watchdog_expired,
                   connected, error_triggered, halSteps, halBack, tx_buffer, rx_buffer>>

RecvBad_StaysReady ==
    /\ thread = "recv"
    /\ ~watchdog_expired
    /\ ~Accepted
    /\ connected' = FALSE
    /\ thread' = "motion"
    /\ UNCHANGED <<halPins, watchdog_running, age, received, watchdog_expired,
                   io_ready_out, error_triggered, halSteps, halBack, tx_buffer, rx_buffer>>

RecvBad_KeepsAlive ==
    /\ thread = "recv"
    /\ ~watchdog_expired
    /\ ~Accepted
    /\ age' = 0
    /\ thread' = "motion"
    /\ UNCHANGED <<halPins, watchdog_running, received, watchdog_expired, connected,
                   io_ready_out, error_triggered, halSteps, halBack, tx_buffer, rx_buffer>>

RecvBad ==
    /\ thread = "recv"
    /\ ~watchdog_expired
    /\ ~Accepted
    /\ connected' = FALSE
    /\ io_ready_out' = FALSE
    /\ thread' = "motion"
    /\ UNCHANGED <<halPins, watchdog_running, age, received, watchdog_expired,
                   error_triggered, halSteps, halBack, tx_buffer, rx_buffer>>

(* Mutant: the whole position is added, not the change of it.              *)
RecvGood_AddsPosition ==
    /\ thread = "recv"
    /\ ~watchdog_expired
    /\ Accepted
    /\ connected' = TRUE
    /\ age' = 0
    /\ received' = watchdog_running
    /\ last_actual' = rx_buffer.pos
    /\ feedback' = feedback + rx_buffer.pos
    /\ thread' = "motion"
    /\ UNCHANGED <<halPins, watchdog_running, watchdog_expired, io_ready_out,
                   error_triggered, halSteps, tx_buffer, rx_buffer>>

(* last_received_time becomes current_time, which is 0 for as long as      *)
(* watchdog-process has not run.                                           *)
RecvGood ==
    /\ thread = "recv"
    /\ ~watchdog_expired
    /\ Accepted
    /\ connected' = TRUE
    /\ age' = 0
    /\ received' = watchdog_running
    /\ last_actual' = rx_buffer.pos
    /\ feedback' = feedback + (rx_buffer.pos - last_actual)
    /\ thread' = "motion"
    /\ UNCHANGED <<halPins, watchdog_running, watchdog_expired, io_ready_out,
                   error_triggered, halSteps, tx_buffer, rx_buffer>>

ProcessRecv == RecvExpired \/ RecvBad \/ RecvGood

--------------------------------------------------------------------------------
MotionAny ==
    \E en \in BOOLEAN, cmd \in Commands \cup {feedback},
      pw \in Timings, out \in Outputs, ready \in Requests :
        Motion(en, cmd, pw, out, ready)

ExchangeAny == \E reply \in Reply : Exchange(reply)

HalNext == MotionAny \/ WatchdogProcess \/ ProcessSend \/ ExchangeAny \/ ProcessRecv

(* The driver with an arbitrary device at the other end of the wire.       *)
HalSpec == HalInit /\ [][HalNext]_halVars

--------------------------------------------------------------------------------
(* Every variable has its type; the pin feedback, summed up from position  *)
(* differences, is the position last received.                             *)
HalTypeOK ==
    /\ thread \in {"motion", "watchdog", "send", "exchange", "recv"}
    /\ io_ready_in \in BOOLEAN
    /\ enable \in BOOLEAN
    /\ command \in Positions
    /\ pulse_width \in Timings
    /\ output \in {0, 1}
    /\ watchdog_running \in BOOLEAN
    /\ age \in 0 .. WatchdogTimeout + 1
    /\ received \in BOOLEAN
    /\ watchdog_expired \in BOOLEAN
    /\ connected \in BOOLEAN
    /\ io_ready_out \in BOOLEAN
    /\ error_triggered \in BOOLEAN
    /\ prev_pos \in Int
    /\ first_data \in BOOLEAN
    /\ last_dir \in {-1, 0, 1}
    /\ last_actual \in Positions
    /\ feedback = last_actual
    /\ tx_buffer \in Frame
    /\ rx_buffer \in Reply

(* The sample E-stop chain listens to connected alone.  Once the watchdog  *)
(* has expired the early return of process-recv no longer touches that     *)
(* pin, so it must have been cleared on the way there.                     *)
ExpiredIsDisconnected == watchdog_expired => ~connected

(* When a thread period ends with io-ready-out set, the request for it is  *)
(* still there, the link is up, and this period's reply was accepted.  The *)
(* pin is written by process-send and taken back by process-recv.          *)
ReadyIsLive ==
    (thread = "motion" /\ io_ready_out) =>
        /\ io_ready_in
        /\ connected
        /\ ~watchdog_expired
        /\ age = 0

(* "Check connections and restart LinuxCNC": nothing short of a restart    *)
(* revives the link.  An expired watchdog stays expired, connected stays   *)
(* off, no transfer is started and the feedback freezes, although          *)
(* watchdog-process would clear the flag if a reply still got through.     *)
ExpiryIsFinal ==
    [][watchdog_expired =>
        /\ watchdog_expired'
        /\ ~connected'
        /\ thread' # "exchange"
        /\ UNCHANGED feedback]_halVars

(* Without watchdog-process in the thread nothing is ever sent: no frame,  *)
(* no step, and the clock that would date a reply stands still.            *)
UnwatchedIsSilent ==
    ~watchdog_running => /\ thread # "exchange"
                         /\ ~received
                         /\ first_data
                         /\ age = 0
================================================================================
