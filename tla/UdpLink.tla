--------------------------------- MODULE UdpLink ---------------------------------
(***************************************************************************)
(* The Ethernet build of the servo link: hal-driver/flexi-ninja-eth.c on   *)
(* the PC and the W5500 half of firmware/src/main.c on the board.          *)
(*                                                                         *)
(* Unlike on SPI the two sides do not meet.  In every servo period the     *)
(* driver runs watchdog_process, process_send and process_recv, in the     *)
(* order of the sample .hal files, and takes at most one datagram off its  *)
(* socket; the board answers a frame when it gets round to it, before or   *)
(* after that read, and does not answer one it refuses.  The W5500 keeps   *)
(* the frames that wait for core 0 and raises its interrupt once for each  *)
(* arrival.  Core 0 handles a frame step by step, and core 1 may disconnect *)
(* between any two steps.                                                  *)
(*                                                                         *)
(* A datagram is "good" or "garbled", which is all its checksum tells; how *)
(* the driver makes step words is the subject of HalDriver, what the board *)
(* does with them of Firmware.  Faults bounds what the network and the     *)
(* board's other work may do wrong.                                        *)
(***************************************************************************)
EXTENDS Naturals, Sequences

CONSTANTS
    WatchdogTimeout,  \* watchdog_timeout, in servo periods (10)
    OkToClear,        \* good frames in a row that clear checksum_error (10)
    TimeoutPeriods,   \* TIMEOUT_US in servo periods
    ClockWrap,        \* 2^32 us in servo periods
    Faults            \* bound: datagrams lost or garbled, words the full FIFO
                      \* lost, periods that core 0 slept through

ASSUME UdpAssumption ==
    /\ {WatchdogTimeout, OkToClear, TimeoutPeriods} \subseteq Nat \ {0}
    /\ ClockWrap \in Nat /\ ClockWrap > TimeoutPeriods + 1
    /\ Faults \in Nat

VARIABLES
    phase,              \* the function of the servo thread that runs next
    elapsed,            \* current_time - last_received_time, capped
    watchdog_expired,
    connected,
    io_ready_out,
    socket,             \* datagrams in the PC's socket
    inbox,              \* datagrams in the W5500
    irq,                \* its interrupt: Sn_IR has RECV
    core0,              \* where core 0 is in handle_udp() and handle_data()
    frame,              \* rx_buffer: the datagram last read
    checksum_error,
    checksum_ok_count,
    silence,            \* time_diff: periods since last_packet_time
    timeout_error,
    core1,              \* where core 1 is in its loop
    gpio_out,           \* are the outputs as the last frame set them?
    cable,              \* FALSE when it is pulled, for good
    faults,             \* faults so far
    stalls,             \* history: periods ended with the interrupt pending
    unanswered,         \* history: periods since the board answered, capped
    missed,             \* history: frames sent and not obeyed as sent
    drops,              \* history: reads that found connected to be wrong
    pardons,            \* history: disconnects that cleared checksum_error
    overflows           \* history: frames with a word the full FIFO lost

driver  == <<phase, elapsed, watchdog_expired, connected, io_ready_out>>
checks  == <<checksum_error, checksum_ok_count>>
clock1  == <<silence, timeout_error, core1>>
board   == <<irq, core0, frame, checks, clock1, gpio_out>>
history == <<faults, stalls, unanswered, missed, drops, pardons, overflows>>
udpVars == <<driver, socket, inbox, board, cable, history>>

--------------------------------------------------------------------------------
UdpInit ==
    /\ phase = "watchdog"
    /\ elapsed = 0
    /\ watchdog_expired = FALSE
    /\ connected = FALSE
    /\ io_ready_out = FALSE
    /\ socket = << >>
    /\ inbox = << >>
    /\ irq = FALSE
    /\ core0 = "poll"
    /\ frame = "garbled"
    /\ checksum_error = FALSE
    /\ checksum_ok_count = 0
    /\ silence = 0
    /\ timeout_error = TRUE
    /\ core1 = "idle"
    /\ gpio_out = FALSE
    /\ cable = TRUE
    /\ faults = 0
    /\ stalls = 0
    /\ unanswered = 0
    /\ missed = 0
    /\ drops = 0
    /\ pardons = 0
    /\ overflows = 0

UpTo(bound, n) == IF n < bound THEN n + 1 ELSE n

(* What becomes of a datagram put on the wire: it arrives, or, at the cost *)
(* of a fault, it is garbled or lost.  A pulled cable loses all for free.  *)
Carry(queue, queue2) ==
    \/ cable /\ queue2 = Append(queue, "good") /\ UNCHANGED faults
    \/ /\ cable /\ faults < Faults
       /\ queue2 \in {Append(queue, "garbled"), queue}
       /\ faults' = faults + 1
    \/ ~cable /\ queue2 = queue /\ UNCHANGED faults

--------------------------------------------------------------------------------
(***************************************************************************)
(* The servo thread.                                                       *)
(***************************************************************************)
(* Mutant: the watchdog gives the board one more period.                   *)
Watchdog_OneMore ==
    /\ phase = "watchdog"
    /\ phase' = "send"
    /\ elapsed' = UpTo(WatchdogTimeout + 2, elapsed)
    /\ watchdog_expired' = (elapsed' > WatchdogTimeout + 1)
    /\ UNCHANGED <<connected, io_ready_out, socket, inbox, board, cable, history>>

Watchdog ==
    /\ phase = "watchdog"
    /\ phase' = "send"
    /\ elapsed' = UpTo(WatchdogTimeout + 1, elapsed)
    /\ watchdog_expired' = (elapsed' > WatchdogTimeout)
    /\ UNCHANGED <<connected, io_ready_out, socket, inbox, board, cable, history>>

SendExpired ==
    /\ phase = "send" /\ watchdog_expired
    /\ phase' = "recv"
    /\ io_ready_out' = FALSE
    /\ UNCHANGED <<elapsed, watchdog_expired, connected, socket, inbox, board,
                   cable, history>>

(* io_ready_in is the machine's to set.                                    *)
Send ==
    /\ phase = "send" /\ ~watchdog_expired
    /\ phase' = "recv"
    /\ io_ready_out' \in BOOLEAN
    /\ Carry(inbox, inbox')
    /\ irq' = (irq \/ inbox' # inbox)
    /\ missed' = missed + (IF inbox' = inbox THEN 1 ELSE 0)
    /\ UNCHANGED <<elapsed, watchdog_expired, connected, socket, core0, frame,
                   checks, clock1, gpio_out, cable, stalls, unanswered, drops,
                   pardons, overflows>>

(* Expired, the driver looks at its socket no more.                        *)
RecvExpired ==
    /\ phase = "recv" /\ watchdog_expired
    /\ phase' = "tick"
    /\ io_ready_out' = FALSE
    /\ UNCHANGED <<elapsed, watchdog_expired, connected, socket, inbox, board,
                   cable, history>>

RecvGood ==
    /\ phase = "recv" /\ ~watchdog_expired
    /\ socket # << >> /\ Head(socket) = "good"
    /\ phase' = "tick"
    /\ socket' = Tail(socket)
    /\ connected' = TRUE
    /\ elapsed' = 0
    /\ UNCHANGED <<watchdog_expired, io_ready_out, inbox, board, cable, history>>

RecvGarbled ==
    /\ phase = "recv" /\ ~watchdog_expired
    /\ socket # << >> /\ Head(socket) = "garbled"
    /\ phase' = "tick"
    /\ socket' = Tail(socket)
    /\ connected' = FALSE
    /\ drops' = drops + 1
    /\ io_ready_out' = FALSE
    /\ UNCHANGED <<elapsed, watchdog_expired, inbox, board, cable, faults, stalls,
                   unanswered, missed, pardons, overflows>>

(* Mutant: a period without an answer is let pass.                         *)
RecvNothing_LetsPass ==
    /\ phase = "recv" /\ ~watchdog_expired
    /\ socket = << >>
    /\ phase' = "tick"
    /\ UNCHANGED <<elapsed, watchdog_expired, connected, io_ready_out, socket,
                   inbox, board, cable, history>>

(* No answer yet: connected goes, io_ready_out stays as it is.             *)
RecvNothing ==
    /\ phase = "recv" /\ ~watchdog_expired
    /\ socket = << >>
    /\ phase' = "tick"
    /\ connected' = FALSE
    /\ drops' = drops + 1
    /\ UNCHANGED <<elapsed, watchdog_expired, io_ready_out, socket, inbox, board,
                   cable, faults, stalls, unanswered, missed, pardons,
                   overflows>>

Driver == \/ Watchdog \/ SendExpired \/ Send
          \/ RecvExpired \/ RecvGood \/ RecvGarbled \/ RecvNothing

--------------------------------------------------------------------------------
(***************************************************************************)
(* Core 0: handle_udp() takes one frame for an interrupt it has cleared,   *)
(* handle_data() stamps and checks it, obeys it, sets the outputs, and     *)
(* handle_udp() answers.                                                   *)
(***************************************************************************)
ClearInterrupt ==
    /\ core0 = "poll" /\ irq
    /\ core0' = "read"
    /\ irq' = FALSE
    /\ UNCHANGED <<driver, socket, inbox, frame, checks, clock1, gpio_out, cable,
                   history>>

(* Mutant: the interrupt is cleared here, with what came in since.         *)
ReadFrame_ClearsInterrupt ==
    /\ core0 = "read" /\ inbox # << >>
    /\ core0' = "check"
    /\ irq' = FALSE
    /\ frame' = Head(inbox)
    /\ inbox' = Tail(inbox)
    /\ silence' = 0
    /\ core1' \in {core1, IF core1 = "idle" THEN "late" ELSE core1}
    /\ UNCHANGED <<driver, socket, checks, timeout_error, gpio_out, cable, history>>

(* The new stamp may meet core 1 between the clock it has read and the     *)
(* stamp it is to read: the difference is negative, which as a uint32_t is *)
(* longer than any timeout.                                                *)
ReadFrame ==
    /\ core0 = "read" /\ inbox # << >>
    /\ core0' = "check"
    /\ frame' = Head(inbox)
    /\ inbox' = Tail(inbox)
    /\ silence' = 0
    /\ core1' \in {core1, IF core1 = "idle" THEN "late" ELSE core1}
    /\ UNCHANGED <<driver, socket, irq, checks, timeout_error, gpio_out, cable,
                   history>>

CheckBad == checksum_error' = TRUE /\ checksum_ok_count' = 0

(* Mutant: one good frame too many is asked for.                           *)
CheckGood_OneMore ==
    LET clears == checksum_error /\ checksum_ok_count + 1 > OkToClear
    IN  /\ checksum_error' = (checksum_error /\ ~clears)
        /\ checksum_ok_count' = IF clears \/ ~checksum_error THEN 0
                                ELSE checksum_ok_count + 1

CheckGood ==
    LET clears == checksum_error /\ checksum_ok_count + 1 >= OkToClear
    IN  /\ checksum_error' = (checksum_error /\ ~clears)
        /\ checksum_ok_count' = IF clears THEN 0
                                ELSE IF checksum_error THEN checksum_ok_count + 1
                                ELSE checksum_ok_count

CheckFrame ==
    /\ core0 = "check"
    /\ core0' = "obey"
    /\ IF frame = "good" THEN CheckGood ELSE CheckBad
    /\ UNCHANGED <<driver, socket, inbox, irq, frame, clock1, gpio_out, cable,
                   history>>

(* Unless checksum_error is set the steps are queued.  A FIFO that stays   *)
(* full loses a word, which counts as a fault.  Core 1 may have cleared    *)
(* the error of a garbled frame: what is queued then is not what was sent. *)
Obey ==
    /\ core0 = "obey"
    /\ core0' = "output"
    /\ \/ /\ ~checksum_error /\ faults < Faults
          /\ faults' = faults + 1
          /\ overflows' = overflows + 1
          /\ missed' = missed + 1
       \/ /\ missed' = missed + (IF ~checksum_error /\ frame = "good" THEN 0 ELSE 1)
          /\ UNCHANGED <<faults, overflows>>
    /\ UNCHANGED <<driver, socket, inbox, irq, frame, checks, clock1, gpio_out,
                   cable, stalls, unanswered, drops, pardons>>

(* The outputs follow every frame.                                         *)
SetOutputs ==
    /\ core0 = "output"
    /\ core0' = "answer"
    /\ gpio_out' = TRUE
    /\ UNCHANGED <<driver, socket, inbox, irq, frame, checks, clock1, cable,
                   history>>

(* Mutant: every frame is answered.                                        *)
Answer_Always ==
    /\ core0 = "answer"
    /\ core0' = "poll"
    /\ Carry(socket, socket') /\ unanswered' = 0
    /\ UNCHANGED <<driver, inbox, irq, frame, checks, clock1, gpio_out, cable,
                   stalls, missed, drops, pardons, overflows>>

(* handle_udp() looks at checksum_error once more: a frame refused above   *)
(* is answered when core 1 has disconnected since.                         *)
Answer ==
    /\ core0 = "answer"
    /\ core0' = "poll"
    /\ IF checksum_error
       THEN UNCHANGED <<socket, faults, unanswered>>
       ELSE Carry(socket, socket') /\ unanswered' = 0
    /\ UNCHANGED <<driver, inbox, irq, frame, checks, clock1, gpio_out, cable,
                   stalls, missed, drops, pardons, overflows>>

Core0 == ClearInterrupt \/ ReadFrame \/ CheckFrame \/ Obey \/ SetOutputs \/ Answer

--------------------------------------------------------------------------------
(***************************************************************************)
(* Core 1's loop, of which Firmware has the detail.                        *)
(***************************************************************************)
Serve ==
    /\ core1 = "idle"
    /\ timeout_error /\ silence <= TimeoutPeriods
    /\ timeout_error' = FALSE
    /\ UNCHANGED <<driver, socket, inbox, irq, core0, frame, checks, silence, core1,
                   gpio_out, cable, history>>

Notice ==
    /\ core1 = "idle"
    /\ ~timeout_error /\ silence > TimeoutPeriods
    /\ core1' = "late"
    /\ UNCHANGED <<driver, socket, inbox, irq, core0, frame, checks, silence,
                   timeout_error, gpio_out, cable, history>>

Disconnect ==
    /\ core1 = "late"
    /\ IF timeout_error
       THEN core1' = "idle" /\ UNCHANGED <<timeout_error, checksum_error, pardons>>
       ELSE /\ core1' = "outputs"
            /\ timeout_error' = TRUE
            /\ checksum_error' = FALSE
            /\ pardons' = pardons + (IF checksum_error THEN 1 ELSE 0)
    /\ UNCHANGED <<driver, socket, inbox, irq, core0, frame, checksum_ok_count,
                   silence, gpio_out, cable, faults, stalls, unanswered, missed,
                   drops, overflows>>

(* Mutant: the outputs stay as they are.                                   *)
DisconnectOutputs_Keeps ==
    /\ core1 = "outputs"
    /\ core1' = "idle"
    /\ UNCHANGED <<driver, socket, inbox, irq, core0, frame, checks, silence,
                   timeout_error, gpio_out, cable, history>>

DisconnectOutputs ==
    /\ core1 = "outputs"
    /\ core1' = "idle"
    /\ gpio_out' = FALSE
    /\ UNCHANGED <<driver, socket, inbox, irq, core0, frame, checks, silence,
                   timeout_error, cable, history>>

Core1 == Serve \/ Notice \/ Disconnect \/ DisconnectOutputs

--------------------------------------------------------------------------------
(* The period ends with core 0 idle, or, as a fault, with core 0 still at  *)
(* work: a printf of a lost frame alone takes it several periods.  Core 1  *)
(* goes round at least once in a period.  The difference of the clocks is  *)
(* cut off to 32 bits.                                                     *)
Quiet == core0 = "poll" /\ ~irq

Tick ==
    /\ phase = "tick"
    /\ core1 = "idle" /\ timeout_error = (silence > TimeoutPeriods)
    /\ phase' = "watchdog"
    /\ \/ Quiet /\ UNCHANGED <<faults, stalls>>
       \/ ~Quiet /\ faults < Faults /\ faults' = faults + 1
          /\ stalls' = IF irq THEN stalls + 1 ELSE stalls
    /\ silence' = (silence + 1) % ClockWrap
    /\ unanswered' = UpTo(WatchdogTimeout + Faults + 3, unanswered)
    /\ UNCHANGED <<elapsed, watchdog_expired, connected, io_ready_out, socket,
                   inbox, irq, core0, frame, checks, timeout_error, core1,
                   gpio_out, cable, missed, drops, pardons, overflows>>

Unplug ==
    /\ cable
    /\ cable' = FALSE
    /\ UNCHANGED <<driver, socket, inbox, board, history>>

UdpNext == Driver \/ Core0 \/ Core1 \/ Tick \/ Unplug

UdpSpec == UdpInit /\ [][UdpNext]_udpVars

(* The servo thread is periodic and both cores loop for ever.              *)
FairUdpSpec ==
    UdpSpec /\ WF_udpVars(Driver \/ Tick) /\ WF_udpVars(Core0) /\ WF_udpVars(Core1)

--------------------------------------------------------------------------------
Datagrams == {"good", "garbled"}

(* Every variable has its type; checksum_ok_count is below what clears the *)
(* error.                                                                  *)
UdpTypeOK ==
    /\ phase \in {"watchdog", "send", "recv", "tick"}
    /\ elapsed \in 0 .. WatchdogTimeout + 1
    /\ {watchdog_expired, connected, io_ready_out, irq, checksum_error,
        timeout_error, gpio_out, cable} \subseteq BOOLEAN
    /\ socket \in Seq(Datagrams) /\ inbox \in Seq(Datagrams)
    /\ frame \in Datagrams
    /\ core0 \in {"poll", "read", "check", "obey", "output", "answer"}
    /\ core1 \in {"idle", "late", "outputs"}
    /\ checksum_ok_count \in 0 .. OkToClear - 1
    /\ silence \in 0 .. ClockWrap - 1
    /\ {stalls, unanswered, missed, drops, pardons, overflows} \subseteq Nat
    /\ faults \in 0 .. Faults

(* The steps of a frame that is lost or refused are never made up for: the *)
(* next command starts from where this one was to end.  Each such frame    *)
(* costs connected a period, even when queued answers make a dead period   *)
(* look alive; the last may still be on its way.  The driver does not see  *)
(* two kinds: a word lost in a full FIFO, whose flag in the reply it does  *)
(* not read, and at most one frame for a disconnect that clears            *)
(* checksum_error while core 0 is at work on the frame.                    *)
LossIsSeen ==
    missed <= drops + overflows + pardons + (IF phase = "recv" THEN 1 ELSE 0)

(* Answers that pile up on the PC keep the machine going when the board no *)
(* longer answers, but only for as many periods as the piling up cost.     *)
DeadBoardStopsMachine ==
    io_ready_out /\ phase \in {"recv", "tick"} => unanswered <= WatchdogTimeout + 1 + faults

(* Core 0 takes one frame for one interrupt, so frames that share one stay *)
(* behind for good.  Only a period that core 0 ends with the interrupt     *)
(* pending leaves one: a frame that arrives while it reads another is not  *)
(* forgotten.                                                              *)
NoFrameIsForgotten == Quiet => Len(inbox) <= stalls

(* The driver that has given up says so on connected as well: it leaves    *)
(* process_recv before the place that clears it.                           *)
DeadLinkIsShown == watchdog_expired => ~connected

(* A pulled cable stops the machine, for good, and the board drops its     *)
(* outputs, whatever was queued on either side.                            *)
PulledCableIsNoticed ==
    ~cable ~> [](watchdog_expired /\ ~io_ready_out /\ ~gpio_out)
================================================================================
