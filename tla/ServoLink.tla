-------------------------------- MODULE ServoLink --------------------------------
(***************************************************************************)
(* The servo link as a whole: the HAL driver, the firmware and the wire    *)
(* between them.  One transfer per servo period carries a frame to the     *)
(* device and, at the same time, the reply the device staged a period      *)
(* earlier.  The wire may garble either or both, the firmware may miss the *)
(* transfer altogether, and the PIO may be so slow that its FIFO is full;  *)
(* MaxFaults bounds how often.  The driver does not wait for the firmware: *)
(* unless Core0Prompt, a period may begin while core 0 still handles the   *)
(* last frame; its transfer is then taken when core 0 is back, or missed.  *)
(***************************************************************************)
EXTENDS HalDriver, Firmware

CONSTANTS
    FaultKinds,    \* which faults happen
    MaxFaults,     \* how many of them
    EnableAt,      \* positions at which the operator enables the axis
    Travel,        \* positions of the motor between the limit switches
    GarbledWords,  \* words a garbled frame may seem to carry
    Garbage,       \* positions a garbled reply may seem to report
    BootSetting    \* pio_timing and dir_setup_ns of the zeroed rx_buffer

ASSUME FaultAssumption ==
    /\ FaultKinds \subseteq {"frame", "reply", "missed", "slow"}
    /\ MaxFaults \in Nat
    /\ GarbledWords \subseteq Word
    /\ Garbage \subseteq Positions

VARIABLES
    faults,       \* history: faults so far
    origin,       \* history: the firmware's position at the last enabling
    skipped       \* history: steps since then that prev_pos moved on but the
                  \* timing table has no entry for, signed; both are kept
                  \* until the first fault

history == <<faults, origin, skipped>>
vars    == <<halVars, fwVars, history>>

Init ==
    /\ HalInit
    /\ FwInit(BootSetting)
    /\ faults = 0
    /\ origin = 0
    /\ skipped = 0

--------------------------------------------------------------------------------
(* The steps on their way: in the frame on the wire, and in the frame core *)
(* 0 has taken but not yet obeyed.                                         *)
OnWire   == IF thread = "exchange" THEN Signed(tx_buffer.word) ELSE 0
Pending  == IF core0 \in {"check", "apply"} THEN StepsOf(rx_frame.word) ELSE 0

(* A thread period begins; time passes for the firmware too.               *)
NewPeriod ==
    /\ \E en \in BOOLEAN, cmd \in Commands \cup {feedback},
         pw \in Timings, out \in Outputs, ready \in Requests :
           /\ (en /\ ~enable) => cmd \in EnableAt
           /\ en => stepgen_position \in Travel
           /\ Motion(en, cmd, pw, out, ready)
    /\ Elapse
    /\ UNCHANGED history

(* process-send, with the books that are kept of it.                       *)
SendBooked ==
    /\ ProcessSend
    /\ IF thread' = "exchange" /\ enable /\ faults = 0
       THEN /\ UNCHANGED faults
            /\ origin' = IF first_data THEN stepgen_position + Pending ELSE origin
            /\ skipped' = (IF first_data THEN 0 ELSE skipped) +
                          (IF StepsDue <= TimingMax THEN 0 ELSE Towards(Sign, StepsDue))
       ELSE UNCHANGED history

Thread ==
    /\ \/ SendBooked
       \/ (WatchdogProcess \/ ProcessRecv) /\ UNCHANGED history
    /\ UNCHANGED fwVars

(* What the two ends may make of a transfer.                               *)
Sent      == [ok |-> TRUE, pos |-> reply.pos]
Arriving  == {tx_buffer} \cup
             IF "frame" \notin FaultKinds THEN {}
             ELSE [word : {tx_buffer.word} \cup GarbledWords,
                   out : Outputs, timing : Timings, ok : {FALSE}]
Returning == {Sent} \cup
             IF "reply" \notin FaultKinds THEN {} ELSE [ok : {FALSE}, pos : Garbage]

Fault ==
    /\ faults < MaxFaults
    /\ faults' = faults + 1
    /\ origin' = 0
    /\ skipped' = 0

(* Both ends take part.  It counts as a fault when a checksum is bad.      *)
Transfer ==
    \E frame \in Arriving, back \in Returning :
        /\ Exchange(back)
        /\ TakeFrame(frame)
        /\ IF frame.ok /\ back.ok THEN UNCHANGED history ELSE Fault

(* The clock does not reach the board, or the board is not ready for it:   *)
(* nothing is taken, nothing answers.                                      *)
TransferMissed ==
    /\ "missed" \in FaultKinds
    /\ Fault
    /\ \E pos \in Garbage : Exchange([ok |-> FALSE, pos |-> pos])
    /\ UNCHANGED fwVars

(* Core 0 goes on with its frame.  It counts as a fault when the FIFO      *)
(* stays full for as long as core 0 waits.                                 *)
Handle ==
    /\ HandleData
    /\ IF core0 = "apply" /\ Lost THEN "slow" \in FaultKinds /\ Fault
                                  ELSE UNCHANGED history
    /\ UNCHANGED halVars

Device == (Core1 \/ Pio) /\ UNCHANGED <<halVars, history>>

Next == NewPeriod \/ Thread \/ Transfer \/ TransferMissed \/ Handle \/ Device

Spec == Init /\ [][Next]_vars

(* The realtime thread, core 0, the main loop of core 1 and the state      *)
(* machine all run on.  The next period is due whatever core 1 is doing,   *)
(* and Core1Prompt only says that its rounds are shorter than a period:    *)
(* hence the strong fairness of NewPeriod.                                 *)
Fairness ==
    /\ SF_vars(NewPeriod)
    /\ WF_vars(Thread \/ Transfer \/ TransferMissed)
    /\ WF_vars(Handle)
    /\ WF_vars(Core1 /\ UNCHANGED <<halVars, history>>)
    /\ WF_vars(Pio /\ UNCHANGED <<halVars, history>>)

FairSpec == Spec /\ Fairness

--------------------------------------------------------------------------------
Distance(p, q) == IF p >= q THEN p - q ELSE q - p

(* Without faults no step is lost or made up on the way to the PIO: what   *)
(* the driver has commanded since the axis was enabled, but for the steps  *)
(* its timing table has no entry for, is what the firmware has counted     *)
(* since then plus what is on the way, however often the axis is disabled  *)
(* and enabled in between, and wherever.                                   *)
CommandIsConserved ==
    (faults = 0 /\ enable /\ ~first_data) =>
        prev_pos - skipped = (stepgen_position - origin) + OnWire + Pending

(* Closed-loop tracking: at the end of a period whose reply was accepted,  *)
(* faults before it or not, the feedback pin is no further from the        *)
(* firmware's position than the steps of one frame.                        *)
FeedbackIsFresh ==
    (thread = "motion" /\ connected /\ rx_buffer.ok) =>
        Distance(feedback, stepgen_position) <= StepLimit

(* A step in a new direction waits for the DIR setup time: the driver      *)
(* decides from last_dir, its own idea of the pin, whether the PIO waits.  *)
(* The exception is a patch that drops the word with the reversal before   *)
(* its wait is over: the words after it do not wait.                       *)
DirSettlesBeforeStep ==
    (faults = 0 /\ ~cut /\ pio = "run" /\ steps_left > 0) => settled

(* Once the driver has given the link up, the firmware finds out by its    *)
(* own clock: its outputs go off for good and the motor comes to rest.     *)
(* The error it shows is taken back for a while every time that clock      *)
(* wraps, but always shown again.                                          *)
DeadLinkStopsMachine ==
    [](watchdog_expired =>
        /\ <>[](gpio_out = 0 /\ fifo = << >> /\ steps_left = 0)
        /\ []<>timeout_error)

(* When the faults are over, either the driver has given the link up or    *)
(* both ends come to trust each other again.                               *)
LinkSettles ==
    <>[](\/ watchdog_expired
         \/ ~checksum_error /\ ~timeout_error /\ (thread = "motion" => connected))
================================================================================
