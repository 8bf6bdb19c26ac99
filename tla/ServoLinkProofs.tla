----------------------------- MODULE ServoLinkProofs -----------------------------
(***************************************************************************)
(* Theorems about the HAL driver by itself, and about the link it makes    *)
(* with the firmware.                                                      *)
(*                                                                         *)
(* The first part holds for every timeout, step limit, timing table and    *)
(* set of positions, against a device that answers anything, with          *)
(* watchdog-process in the thread from the start, later, or never.  The    *)
(* second holds for every FIFO depth and number of faults of every kind as *)
(* well; positions are all integers where the firmware's counter has to be *)
(* one the driver may be told.                                             *)
(***************************************************************************)
EXTENDS ServoLink, WellFoundedInduction, TLAPS

USE WatchdogTimeoutAssumption, StepLimitAssumption

(***************************************************************************)
(* What one period does to the age of the last accepted reply: it is 0     *)
(* between process-recv and watchdog-process and at most 1 elsewhere, as   *)
(* long as connected is set.  The flag watchdog_expired is never ahead of  *)
(* the age, and io-ready-out never ahead of its request once it was        *)
(* written in this period.                                                 *)
(***************************************************************************)
LinkInv ==
    /\ connected => age <= 1
    /\ connected /\ thread \in {"motion", "watchdog"} => age = 0
    /\ watchdog_expired => age > WatchdogTimeout
    /\ io_ready_out /\ thread \in {"exchange", "recv"} => io_ready_in
    /\ ReadyIsLive

Inv == HalTypeOK /\ LinkInv

--------------------------------------------------------------------------------
(* The word process-send computes fits the wire format, and prev_pos stays *)
(* an integer.                                                             *)
LEMMA StepWordType ==
    ASSUME HalTypeOK
    PROVE  /\ StepsDue \in 0 .. StepLimit
           /\ Sign \in {0, 1}
           /\ Base \in Int
           /\ StepWord \in Word
           /\ NoWord \in Word
<1>1. command \in Int /\ prev_pos \in Int
  BY PositionsAssumption, CommandsAssumption DEF HalTypeOK
<1>2. Base \in Int
  BY <1>1 DEF HalTypeOK, Base
<1>3. StepsDue \in 0 .. StepLimit
  BY <1>1, <1>2 DEF StepsDue
<1>4. Sign \in {0, 1}
  BY DEF Sign
<1>5. StepWord \in Word /\ NoWord \in Word
  BY <1>3, <1>4 DEF StepWord, NoWord, Word
<1> QED
  BY <1>2, <1>3, <1>4, <1>5

(* Every variable keeps its type in every step of the driver.              *)
LEMMA TypeStep ==
    ASSUME HalTypeOK, [HalNext]_halVars
    PROVE  HalTypeOK'
<1> USE DEF HalTypeOK
<1>0. CASE UNCHANGED halVars
  BY <1>0 DEF halVars, halPins, halLink, halSteps, halBack
<1>1. CASE MotionAny
  BY <1>1, CommandsAssumption, OutputsAssumption, RequestsAssumption
     DEF MotionAny, Motion, halLink, halSteps, halBack
<1>2. CASE WatchdogProcess
  BY <1>2 DEF WatchdogProcess, NextAge, halPins, halSteps, halBack
<1>3. CASE SendExpired
  <2>1. tx_buffer' \in Frame
    BY <1>3, StepWordType DEF SendExpired, Idle, Frame
  <2> QED
    BY <1>3, <2>1 DEF SendExpired, halPins, halSteps, halBack
<1>4. CASE SendFrame
  <2>1. tx_buffer' \in Frame
    BY <1>4, StepWordType DEF SendFrame, Frame
  <2>2. StepGen
    BY <1>4 DEF SendFrame
  <2>3. Base + StepsDue \in Int /\ Base - StepsDue \in Int
    BY StepWordType
  <2>4. prev_pos' \in Int
    BY <2>2, <2>3 DEF StepGen
  <2>5. first_data' \in BOOLEAN /\ last_dir' \in {-1, 0, 1}
    BY <2>2, StepWordType DEF StepGen
  <2> QED
    BY <1>4, <2>1, <2>4, <2>5 DEF SendFrame, halPins, halBack
<1>5. CASE SendNoWatchdog
  <2>1. tx_buffer' \in Frame
    BY <1>5, StepWordType DEF SendNoWatchdog, Idle, Frame
  <2> QED
    BY <1>5, <2>1 DEF SendNoWatchdog, halPins, halSteps, halBack
<1>6. CASE ExchangeAny
  BY <1>6 DEF ExchangeAny, Exchange, halPins, halLink, halSteps, halBack
<1>7. CASE RecvExpired
  BY <1>7 DEF RecvExpired, halPins, halSteps, halBack
<1>8. CASE RecvBad
  BY <1>8 DEF RecvBad, halPins, halSteps, halBack
<1>9. CASE RecvGood
  <2>1. rx_buffer.pos \in Positions /\ rx_buffer.pos \in Int /\ last_actual \in Int
    BY PositionsAssumption DEF Reply
  <2>2. /\ feedback' = feedback + (rx_buffer.pos - last_actual)
        /\ last_actual' = rx_buffer.pos
        /\ feedback = last_actual
    BY <1>9 DEF RecvGood
  <2>3. feedback' = last_actual'
    BY <2>1, <2>2
  <2> QED
    BY <1>9, <2>1, <2>2, <2>3 DEF RecvGood, halPins, halSteps
<1> QED
  BY <1>0, <1>1, <1>2, <1>3, <1>4, <1>5, <1>6, <1>7, <1>8, <1>9
     DEF HalNext, ProcessSend, ProcessRecv

(* Every step of the driver keeps the age of the last reply in order.      *)
LEMMA LinkStep ==
    ASSUME Inv, [HalNext]_halVars
    PROVE  LinkInv'
<1> USE DEF Inv, HalTypeOK, LinkInv, ReadyIsLive
<1>0. CASE UNCHANGED halVars
  BY <1>0 DEF halVars, halPins, halLink
<1>1. CASE MotionAny
  BY <1>1 DEF MotionAny, Motion, halLink
<1>2. CASE WatchdogProcess
  BY <1>2 DEF WatchdogProcess, NextAge, halPins
<1>3. CASE SendExpired
  BY <1>3 DEF SendExpired, halPins
<1>4. CASE SendFrame
  BY <1>4 DEF SendFrame, halPins
<1>5. CASE SendNoWatchdog
  BY <1>5 DEF SendNoWatchdog, halPins
<1>6. CASE ExchangeAny
  BY <1>6 DEF ExchangeAny, Exchange, halPins, halLink
<1>7. CASE RecvExpired
  BY <1>7 DEF RecvExpired, halPins
<1>8. CASE RecvBad
  BY <1>8 DEF RecvBad, halPins
<1>9. CASE RecvGood
  BY <1>9 DEF RecvGood, halPins
<1> QED
  BY <1>0, <1>1, <1>2, <1>3, <1>4, <1>5, <1>6, <1>7, <1>8, <1>9
     DEF HalNext, ProcessSend, ProcessRecv

(* Every variable has its type initially.                                  *)
LEMMA InitType == HalInit => HalTypeOK
<1> SUFFICES ASSUME HalInit PROVE HalTypeOK
  OBVIOUS
<1>1. NoWord \in Word
  BY DEF NoWord, Word
<1>2. Idle(pulse_width) \in Frame
  BY <1>1 DEF HalInit, Idle, Frame
<1>3. [ok |-> FALSE, pos |-> 0] \in Reply
  BY PositionsAssumption DEF Reply
<1>4. tx_buffer \in Frame /\ rx_buffer \in Reply
  BY <1>2, <1>3 DEF HalInit
<1>5. /\ age \in 0 .. WatchdogTimeout + 1
      /\ command \in Positions
      /\ last_actual \in Positions
      /\ feedback = last_actual
      /\ prev_pos \in Int
      /\ last_dir \in {-1, 0, 1}
  BY PositionsAssumption DEF HalInit
<1>6. /\ thread \in {"motion", "watchdog", "send", "exchange", "recv"}
      /\ io_ready_in \in BOOLEAN
      /\ enable \in BOOLEAN
      /\ pulse_width \in Timings
      /\ output \in {0, 1}
  BY DEF HalInit
<1>7. /\ watchdog_running \in BOOLEAN
      /\ received \in BOOLEAN
      /\ watchdog_expired \in BOOLEAN
      /\ connected \in BOOLEAN
      /\ io_ready_out \in BOOLEAN
      /\ error_triggered \in BOOLEAN
      /\ first_data \in BOOLEAN
  BY DEF HalInit
<1> QED
  BY <1>4, <1>5, <1>6, <1>7, Zenon DEF HalTypeOK

(* The inductive invariant holds in every state of the driver.             *)
THEOREM Invariance == HalSpec => []Inv
<1>1. HalInit => Inv
  <2>1. ASSUME HalInit PROVE HalTypeOK
    BY <2>1, InitType
  <2>2. ASSUME HalInit PROVE LinkInv
    BY <2>2 DEF HalInit, LinkInv, ReadyIsLive
  <2> QED
    BY <2>1, <2>2 DEF Inv
<1>2. Inv /\ [HalNext]_halVars => Inv'
  BY TypeStep, LinkStep DEF Inv
<1> QED
  BY <1>1, <1>2, PTL DEF HalSpec

--------------------------------------------------------------------------------
(* Type correctness of the driver.                                         *)
THEOREM TypeCorrect == HalSpec => []HalTypeOK
<1>1. Inv => HalTypeOK
  BY DEF Inv
<1> QED
  BY <1>1, Invariance, PTL

(* An expired watchdog and a set connected pin exclude each other: the age *)
(* is more than the timeout on one side and at most 1 on the other.        *)
THEOREM ExpiryDisconnects == HalSpec => []ExpiredIsDisconnected
<1>1. Inv => ExpiredIsDisconnected
  BY DEF Inv, LinkInv, HalTypeOK, ExpiredIsDisconnected
<1> QED
  BY <1>1, Invariance, PTL

(* io-ready-out at the end of a period means request, connection and a     *)
(* reply accepted in that very period.                                     *)
THEOREM ReadyImpliesLive == HalSpec => []ReadyIsLive
<1>1. Inv => ReadyIsLive
  BY DEF Inv, LinkInv
<1> QED
  BY <1>1, Invariance, PTL

(* Nothing the device does brings an expired link back.                    *)
THEOREM ExpiryLatches == HalSpec => ExpiryIsFinal
<1> DEFINE Final == watchdog_expired =>
                       /\ watchdog_expired'
                       /\ ~connected'
                       /\ thread' # "exchange"
                       /\ UNCHANGED feedback
<1>1. ASSUME Inv, Inv', HalNext, watchdog_expired PROVE Final
  <2>1. ~connected /\ age > WatchdogTimeout /\ age \in Int
    BY <1>1 DEF Inv, LinkInv, HalTypeOK
  <2> USE <1>1, <2>1
  <2>2. CASE MotionAny
    BY <2>2 DEF MotionAny, Motion, halLink, halBack
  <2>3. CASE WatchdogProcess
    BY <2>3 DEF WatchdogProcess, NextAge, halBack
  <2>4. CASE ProcessSend
    BY <2>4 DEF ProcessSend, SendExpired, SendFrame, SendNoWatchdog, halBack
  <2>5. CASE ExchangeAny
    BY <2>5 DEF ExchangeAny, Exchange, halLink, halBack
  <2>6. CASE ProcessRecv
    BY <2>6 DEF ProcessRecv, RecvExpired, RecvBad, RecvGood, halBack
  <2> QED
    BY <2>2, <2>3, <2>4, <2>5, <2>6 DEF HalNext
<1>2. Inv /\ Inv' /\ [HalNext]_halVars => [Final]_halVars
  BY <1>1
<1> QED
  BY <1>2, Invariance, PTL DEF HalSpec, ExpiryIsFinal

(* A driver whose watchdog-process has not run has sent nothing.  The      *)
(* invariant is inductive as it stands.                                    *)
THEOREM UnwatchedSilence == HalSpec => []UnwatchedIsSilent
<1>1. HalInit => UnwatchedIsSilent
  BY DEF HalInit, UnwatchedIsSilent
<1>2. ASSUME UnwatchedIsSilent, [HalNext]_halVars PROVE UnwatchedIsSilent'
  <2> USE <1>2 DEF UnwatchedIsSilent
  <2>0. CASE UNCHANGED halVars
    BY <2>0 DEF halVars, halLink, halSteps
  <2>1. CASE MotionAny
    BY <2>1 DEF MotionAny, Motion, halLink, halSteps
  <2>2. CASE WatchdogProcess
    BY <2>2 DEF WatchdogProcess
  <2>3. CASE ProcessSend
    BY <2>3 DEF ProcessSend, SendExpired, SendFrame, SendNoWatchdog, halSteps
  <2>4. CASE ExchangeAny
    BY <2>4 DEF ExchangeAny, Exchange, halLink, halSteps
  <2>5. CASE ProcessRecv
    BY <2>5 DEF ProcessRecv, RecvExpired, RecvBad, RecvGood, halSteps
  <2> QED
    BY <2>0, <2>1, <2>2, <2>3, <2>4, <2>5 DEF HalNext
<1> QED
  BY <1>1, <1>2, PTL DEF HalSpec

(***************************************************************************)
(* The second part: the link.                                              *)
(***************************************************************************)
USE TimeoutAssumption, WrapAssumption, OkToClearAssumption, FifoAssumption,
    FaultAssumption

--------------------------------------------------------------------------------
(***************************************************************************)
(* What core 0 has taken is a frame of the wire format, and what it has    *)
(* staged is its position, as soon as it is done with the frame.           *)
(***************************************************************************)
StagedInv ==
    /\ stepgen_position \in Int
    /\ reply.pos \in Int
    /\ core0 \in {"idle", "check", "apply", "output"}
    /\ core0 = "idle" => reply.pos = stepgen_position
    /\ rx_frame.word \in Word
    /\ rx_frame.out \in {0, 1}

(* A word changes the firmware's position by an integer.                   *)
LEMMA WordSteps ==
    ASSUME NEW word \in Word
    PROVE  StepsOf(word) \in Int
BY DEF Word, StepsOf, Towards

(* Every frame that arrives is one of the wire format.                     *)
LEMMA ArrivingFrame ==
    ASSUME HalTypeOK, NEW frame \in Arriving
    PROVE  frame.word \in Word /\ frame.out \in {0, 1}
<1>1. tx_buffer.word \in Word /\ tx_buffer.out \in {0, 1}
  BY DEF HalTypeOK, Frame
<1> QED
  BY <1>1, OutputsAssumption DEF Arriving

(* Every reply that comes back is one the driver's device may give.        *)
LEMMA ReturningReply ==
    ASSUME Positions = Int, StagedInv, NEW back \in Returning
    PROVE  back \in Reply
<1>1. CASE back = Sent
  BY <1>1 DEF StagedInv, Sent, Reply
<1>2. CASE back \in [ok : {FALSE}, pos : Garbage]
  BY <1>2 DEF Reply
<1> QED
  BY <1>1, <1>2 DEF Returning

(* Every step of the link is a step the driver may take, or leaves the     *)
(* driver alone: what holds of the driver against any device holds here.   *)
LEMMA LinkIsDriver ==
    ASSUME Positions = Int, StagedInv, [Next]_vars
    PROVE  [HalNext]_halVars
<1>0. CASE UNCHANGED vars
  BY <1>0 DEF vars
<1>1. CASE NewPeriod
  BY <1>1 DEF NewPeriod, HalNext, MotionAny
<1>2. CASE Thread
  BY <1>2 DEF Thread, SendBooked, HalNext
<1>3. CASE Transfer
  <2>1. PICK back \in Returning : Exchange(back)
    BY <1>3 DEF Transfer
  <2> QED
    BY <2>1, ReturningReply DEF HalNext, ExchangeAny
<1>4. CASE TransferMissed
  <2>1. PICK pos \in Garbage : Exchange([ok |-> FALSE, pos |-> pos])
    BY <1>4 DEF TransferMissed
  <2>2. [ok |-> FALSE, pos |-> pos] \in Reply
    BY <2>1 DEF Reply
  <2> QED
    BY <2>1, <2>2 DEF HalNext, ExchangeAny
<1>5. CASE Handle \/ Device
  BY <1>5 DEF Handle, Device
<1> QED
  BY <1>0, <1>1, <1>2, <1>3, <1>4, <1>5 DEF Next

(* Core 1, the PIO and the passing of time leave core 0 and what it has    *)
(* taken, counted and staged alone.                                        *)
LEMMA Core0Alone ==
    ASSUME NewPeriod \/ Thread \/ TransferMissed \/ Device \/ UNCHANGED vars
    PROVE  UNCHANGED <<core0, rx_frame, stepgen_position, reply>>
<1>1. CASE NewPeriod
  BY <1>1 DEF NewPeriod, Elapse
<1>2. CASE Thread \/ TransferMissed \/ UNCHANGED vars
  BY <1>2 DEF Thread, TransferMissed, vars, fwVars
<1>3. CASE Core1
  BY <1>3 DEF Core1, Core1Clock, Core1Serve, Core1Late, Core1Outputs
<1>4. CASE Pio
  BY <1>4 DEF Pio, PioPull, PioDir, PioWait, PioStep
<1> QED
  BY <1>1, <1>2, <1>3, <1>4 DEF Device

(* What core 0 makes of a word: it counts it, or it does not.              *)
LEMMA Counted ==
    ASSUME StagedInv, ApplyCommands
    PROVE  /\ stepgen_position' \in Int
           /\ \/ UNCHANGED <<fifo, stepgen_position>>
              \/ /\ ~Skipped /\ ~Lost
                 /\ fifo' = Append(fifo, rx_frame.word)
                 /\ stepgen_position' = stepgen_position + StepsOf(rx_frame.word)
<1>1. StepsOf(rx_frame.word) \in Int
  BY WordSteps DEF StagedInv
<1> QED
  BY <1>1 DEF ApplyCommands, StagedInv

(* What core 0 has taken and staged stays of its type.                     *)
LEMMA StagedStep ==
    ASSUME HalTypeOK, StagedInv, [Next]_vars
    PROVE  StagedInv'
<1> USE DEF StagedInv
<1>1. CASE NewPeriod \/ Thread \/ TransferMissed \/ Device \/ UNCHANGED vars
  BY <1>1, Core0Alone
<1>2. CASE Transfer
  <2>1. PICK frame \in Arriving : TakeFrame(frame)
    BY <1>2 DEF Transfer
  <2>2. core0' = "check" /\ rx_frame' = frame /\ UNCHANGED <<stepgen_position, reply>>
    BY <2>1 DEF TakeFrame
  <2> QED
    BY <2>1, <2>2, ArrivingFrame
<1>3. CASE Handle
  <2>1. CASE CheckFrame
    BY <2>1 DEF CheckFrame
  <2>2. CASE ApplyCommands
    BY <2>2, Counted DEF ApplyCommands
  <2>3. CASE SetOutputs
    BY <2>3 DEF SetOutputs
  <2> QED
    BY <1>3, <2>1, <2>2, <2>3 DEF Handle, HandleData
<1> QED
  BY <1>1, <1>2, <1>3 DEF Next

(* The driver's invariants hold on the link: the theorems about the driver *)
(* need nothing of the device but that it answers something.               *)
LEMMA LinkInherits ==
    ASSUME Positions = Int
    PROVE  Spec => HalSpec /\ []StagedInv
<1> DEFINE Joint == HalTypeOK /\ StagedInv
<1>1. Init => HalInit /\ StagedInv
  <2>1. NoCommand \in Word
    BY DEF NoCommand, Word
  <2> QED
    BY <2>1 DEF Init, FwInit, StagedInv
<1>2. HalInit => HalTypeOK
  BY InitType
<1>3. Joint /\ [Next]_vars => Joint' /\ [HalNext]_halVars
  BY LinkIsDriver, StagedStep, TypeStep
<1> QED
  BY <1>1, <1>2, <1>3, PTL DEF Spec, HalSpec

(* What the driver guarantees against any device it guarantees against     *)
(* this one, however many frames, replies and transfers the wire loses.    *)
THEOREM LinkExpiry ==
    ASSUME Positions = Int
    PROVE  Spec => []ExpiredIsDisconnected /\ []ReadyIsLive /\ ExpiryIsFinal
BY LinkInherits, ExpiryDisconnects, ReadyImpliesLive, ExpiryLatches, PTL

--------------------------------------------------------------------------------
(***************************************************************************)
(* Steps need a clean run.  The counter checksum_ok_count, reset by every  *)
(* bad frame but not by a disconnect, is the length of the run while the   *)
(* error stands; once it is cleared the run is long enough.                *)
(***************************************************************************)
CleanInv ==
    /\ checksum_ok_count \in 0 .. OkToClear - 1
    /\ good_run \in 0 .. OkToClear
    /\ checksum_error \in BOOLEAN
    /\ checksum_error => good_run >= checksum_ok_count
    /\ ~checksum_error => good_run = OkToClear

(* The bounds the initial and the cleared counts sit at.                   *)
LEMMA CleanBounds == 0 \in 0 .. OkToClear - 1 /\ OkToClear \in 0 .. OkToClear
OBVIOUS

(* The checksum of a frame keeps the count in step with the run.           *)
LEMMA CleanCheck ==
    ASSUME CleanInv, CheckGood \/ CheckBad
    PROVE  CleanInv'
<1>1. CASE CheckBad
  BY <1>1 DEF CheckBad, CleanInv
<1>2. CASE CheckGood
  <2>1. good_run' \in 0 .. OkToClear
    BY <1>2 DEF CheckGood, CleanInv
  <2>2. CASE ~checksum_error
    <3>1. /\ checksum_error' = FALSE
          /\ good_run' = good_run
          /\ checksum_ok_count' = checksum_ok_count
      BY <1>2, <2>2 DEF CheckGood, CleanInv
    <3> QED
      BY <2>2, <3>1 DEF CleanInv
  <2>3. CASE checksum_error /\ checksum_ok_count + 1 >= OkToClear
    <3>1. checksum_error' = FALSE /\ checksum_ok_count' = 0
      BY <1>2, <2>3 DEF CheckGood
    <3>2. good_run' = OkToClear
      BY <1>2, <2>3 DEF CheckGood, CleanInv
    <3> QED
      BY <2>1, <3>1, <3>2, CleanBounds DEF CleanInv
  <2>4. CASE checksum_error /\ ~(checksum_ok_count + 1 >= OkToClear)
    <3>1. checksum_error' = TRUE /\ checksum_ok_count' = checksum_ok_count + 1
      BY <1>2, <2>4 DEF CheckGood
    <3>2. good_run' >= checksum_ok_count + 1
      BY <1>2, <2>4 DEF CheckGood, CleanInv
    <3> QED
      BY <2>1, <2>4, <3>1, <3>2 DEF CleanInv
  <2> QED
    BY <2>2, <2>3, <2>4
<1> QED
  BY <1>1, <1>2

(* Core 0 applies a word only while the error is cleared; core 1 gives up  *)
(* the error together with the link; every other step leaves both alone.   *)
LEMMA CleanStep ==
    ASSUME CleanInv, [Next]_vars
    PROVE  CleanInv' /\ (stepgen_position' # stepgen_position => good_run' >= OkToClear)
<1>1. ASSUME UNCHANGED <<fwCheck, stepgen_position>>
      PROVE  CleanInv' /\ (stepgen_position' # stepgen_position => good_run' >= OkToClear)
  BY <1>1 DEF fwCheck, CleanInv
<1>2. CASE UNCHANGED vars \/ NewPeriod \/ Thread \/ Transfer \/ TransferMissed
  BY <1>1, <1>2 DEF vars, fwVars, NewPeriod, Elapse, Thread, Transfer, TakeFrame, TransferMissed
<1>3. CASE CheckFrame
  BY <1>3, CleanCheck DEF CheckFrame
<1>4. CASE ApplyCommands
  <2>1. UNCHANGED <<checksum_error, checksum_ok_count, good_run>>
    BY <1>4 DEF ApplyCommands, fwCheck
  <2>2. checksum_error => UNCHANGED stepgen_position
    BY <1>4 DEF ApplyCommands, Skipped
  <2> QED
    BY <2>1, <2>2 DEF CleanInv
<1>5. CASE SetOutputs
  BY <1>1, <1>5 DEF SetOutputs
<1>6. CASE Core1Late
  <2>1. UNCHANGED <<checksum_ok_count, stepgen_position>>
    BY <1>6 DEF Core1Late
  <2>2. CASE timeout_error
    BY <1>6, <2>1, <2>2 DEF Core1Late, CleanInv
  <2>3. CASE ~timeout_error
    <3>1. checksum_error' = FALSE /\ good_run' = OkToClear
      BY <1>6, <2>3 DEF Core1Late
    <3> QED
      BY <2>1, <3>1, CleanBounds DEF CleanInv
  <2> QED
    BY <2>2, <2>3
<1>7. CASE Core1Clock \/ Core1Serve \/ Core1Outputs
  BY <1>1, <1>7 DEF Core1Clock, Core1Serve, Core1Outputs
<1>8. CASE Pio
  BY <1>1, <1>8 DEF Pio, PioPull, PioDir, PioWait, PioStep
<1> QED
  BY <1>2, <1>3, <1>4, <1>5, <1>6, <1>7, <1>8 DEF Next, Handle, HandleData, Device, Core1

(* The board boots with a clean run.                                       *)
LEMMA CleanInit == Init => CleanInv
<1>1. Init => checksum_error = FALSE /\ checksum_ok_count = 0 /\ good_run = OkToClear
  BY DEF Init, FwInit
<1> QED
  BY <1>1, CleanBounds DEF CleanInv

(* No step is queued before OkToClear good frames have followed a bad one. *)
THEOREM CleanRun == Spec => StepsNeedCleanRun
<1>1. CleanInv /\ [Next]_vars =>
        CleanInv' /\ [stepgen_position' # stepgen_position => good_run' >= OkToClear]_fwVars
  BY CleanStep
<1> QED
  BY <1>1, CleanInit, PTL DEF Spec, StepsNeedCleanRun

--------------------------------------------------------------------------------
(***************************************************************************)
(* What is known of both ends in every state, and the steps the link can   *)
(* take as long as no fault has happened.                                  *)
(***************************************************************************)
BaseInv ==
    /\ Inv
    /\ UnwatchedIsSilent
    /\ StagedInv
    /\ faults \in Nat

(* Faults are only counted up.                                             *)
LEMMA FaultsStep ==
    ASSUME faults \in Nat, [Next]_vars
    PROVE  /\ faults' \in Nat
           /\ faults' = 0 => faults = 0
<1>1. faults' = faults \/ faults' = faults + 1
  BY DEF Next, NewPeriod, Thread, SendBooked, Transfer, TransferMissed, Handle, Device,
         Fault, vars, history
<1> QED
  BY <1>1

(* The link inherits what the driver guarantees against any device.        *)
LEMMA BaseInvariance ==
    ASSUME Positions = Int
    PROVE  Spec => []BaseInv
<1>1. Init => faults \in Nat
  BY DEF Init
<1>2. (faults \in Nat) /\ [Next]_vars => (faults \in Nat)'
  BY FaultsStep
<1>3. BaseInv <=> (Inv /\ UnwatchedIsSilent /\ StagedInv /\ faults \in Nat)
  BY DEF BaseInv
<1> QED
  BY <1>1, <1>2, <1>3, LinkInherits, Invariance, UnwatchedSilence, PTL DEF Spec

(* A transfer on a wire without faults: the frame arrives as it was sent,  *)
(* and the staged reply comes back.                                        *)
CleanTransfer ==
    /\ Exchange(Sent)
    /\ TakeFrame(tx_buffer)
    /\ tx_buffer.ok
    /\ UNCHANGED history

(* Core 0 going on with a frame whose word the FIFO takes.                 *)
CleanHandle ==
    /\ HandleData
    /\ core0 = "apply" => ~Lost
    /\ UNCHANGED <<halVars, history>>

(* While no fault has been counted these are the steps of the link.        *)
LEMMA FaultFree ==
    ASSUME faults \in Nat, faults' = 0, [Next]_vars
    PROVE  NewPeriod \/ Thread \/ CleanTransfer \/ CleanHandle \/ Device \/ UNCHANGED vars
<1>1. faults = 0 /\ ~Fault
  BY FaultsStep DEF Fault
<1>2. ~TransferMissed
  BY <1>1 DEF TransferMissed
<1>3. ASSUME Transfer PROVE CleanTransfer
  <2>1. PICK frame \in Arriving, back \in Returning :
             /\ Exchange(back)
             /\ TakeFrame(frame)
             /\ IF frame.ok /\ back.ok THEN UNCHANGED history ELSE Fault
    BY <1>3, Zenon DEF Transfer
  <2>2. frame.ok /\ back.ok /\ UNCHANGED history
    BY <1>1, <2>1
  <2>3. frame = tx_buffer
    BY <2>2 DEF Arriving
  <2>4. back = Sent
    BY <2>2 DEF Returning
  <2> QED
    BY <2>1, <2>2, <2>3, <2>4 DEF CleanTransfer
<1>4. ASSUME Handle PROVE CleanHandle
  BY <1>1, <1>4, Zenon DEF Handle, CleanHandle
<1> QED
  BY <1>2, <1>3, <1>4 DEF Next

--------------------------------------------------------------------------------
(***************************************************************************)
(* The feedback is fresh.  A reply was staged before the frame it crosses  *)
(* was handled, so that it is the firmware's position until that frame's   *)
(* steps are counted, and lags by them afterwards.  The buffer of a period *)
(* without a transfer does not check, or is not looked at.                 *)
(***************************************************************************)
Behind(pos) ==
    IF core0 \in {"check", "apply"} THEN pos = stepgen_position
    ELSE Distance(pos, stepgen_position) <= StepLimit

FreshInv ==
    /\ (thread = "recv" /\ rx_buffer.ok /\ ~watchdog_expired) => Behind(rx_buffer.pos)
    /\ (thread = "motion" /\ rx_buffer.ok /\ connected) => Behind(feedback)
    /\ ~watchdog_running => ~rx_buffer.ok

(* The steps of one frame are at most StepLimit.                           *)
LEMMA OneFrame ==
    ASSUME StagedInv, ApplyCommands
    PROVE  Distance(stepgen_position, stepgen_position') <= StepLimit
<1>1. /\ StepsOf(rx_frame.word) \in Int
      /\ StepsOf(rx_frame.word) <= StepLimit
      /\ 0 - StepLimit <= StepsOf(rx_frame.word)
  <2>1. rx_frame.word.steps \in 0 .. StepLimit
    BY DEF Word, StagedInv
  <2>2. \/ StepsOf(rx_frame.word) = rx_frame.word.steps
        \/ StepsOf(rx_frame.word) = 0 - rx_frame.word.steps
    BY <2>1 DEF StepsOf, Towards
  <2> QED
    BY <2>1, <2>2
<1> QED
  BY <1>1, Counted DEF StagedInv, Distance

(* Core 0 going on with its frame leaves a fresh position fresh.           *)
LEMMA BehindHandle ==
    ASSUME StagedInv, HandleData, NEW pos \in Int, Behind(pos)
    PROVE  Behind(pos)'
<1>1. CASE CheckFrame
  BY <1>1 DEF CheckFrame, Behind, Distance
<1>2. CASE ApplyCommands
  BY <1>2, OneFrame DEF ApplyCommands, Behind, Distance
<1>3. CASE SetOutputs
  BY <1>3 DEF SetOutputs, Behind, Distance
<1> QED
  BY <1>1, <1>2, <1>3 DEF HandleData

(* The driver's own steps keep the feedback fresh; process-recv makes it   *)
(* so.                                                                     *)
LEMMA FreshThread ==
    ASSUME BaseInv, FreshInv, Thread
    PROVE  FreshInv'
<1>1. UNCHANGED <<core0, stepgen_position>>
  BY DEF Thread, fwVars
<1>2. \A pos : Behind(pos)' <=> Behind(pos)
  BY <1>1 DEF Behind, Distance
<1>3. UNCHANGED rx_buffer
  BY DEF Thread, SendBooked, WatchdogProcess, ProcessSend, SendExpired, SendFrame,
         SendNoWatchdog, ProcessRecv, RecvExpired, RecvBad, RecvGood
<1>4. CASE WatchdogProcess
  BY <1>4, <1>3 DEF FreshInv, WatchdogProcess
<1>5. CASE ProcessSend
  BY <1>3, <1>5 DEF FreshInv, ProcessSend, SendExpired, SendFrame, SendNoWatchdog
<1>6. CASE RecvExpired
  <2>1. ~connected
    BY <1>6 DEF RecvExpired, BaseInv, Inv, HalTypeOK, LinkInv
  <2> QED
    BY <1>3, <1>6, <2>1 DEF RecvExpired, FreshInv
<1>7. CASE RecvBad
  BY <1>3, <1>7 DEF RecvBad, FreshInv
<1>8. CASE RecvGood
  <2>1. feedback' = rx_buffer.pos /\ thread' = "motion" /\ UNCHANGED watchdog_running
    BY <1>8, TypeStep DEF RecvGood, BaseInv, Inv, HalTypeOK, HalNext, ProcessRecv
  <2>2. rx_buffer.ok => Behind(rx_buffer.pos)
    BY <1>8 DEF RecvGood, FreshInv
  <2>3. rx_buffer.ok => Behind(feedback)'
    BY <1>1, <2>1, <2>2 DEF Behind, Distance
  <2> QED
    BY <1>3, <2>1, <2>3 DEF FreshInv
<1> QED
  BY <1>4, <1>5, <1>6, <1>7, <1>8 DEF Thread, SendBooked, ProcessRecv

(* Every step of the link keeps the feedback fresh.                        *)
LEMMA FreshStep ==
    ASSUME Positions = Int, BaseInv, FreshInv, [Next]_vars
    PROVE  FreshInv'
<1>1. CASE Device \/ UNCHANGED vars
  <2>1. UNCHANGED halVars /\ UNCHANGED <<core0, stepgen_position>>
    BY <1>1, Core0Alone DEF Device, vars
  <2> QED
    BY <2>1 DEF halVars, halLink, halBack, FreshInv, Behind, Distance
<1>2. CASE NewPeriod
  <2>1. /\ thread' \in {"watchdog", "send"}
        /\ UNCHANGED <<rx_buffer, watchdog_running>>
    BY <1>2 DEF NewPeriod, Motion, halLink
  <2> QED
    BY <2>1 DEF FreshInv
<1>3. CASE Thread
  BY <1>3, FreshThread
<1>4. CASE Transfer
  <2>1. PICK frame \in Arriving, back \in Returning : Exchange(back) /\ TakeFrame(frame)
    BY <1>4 DEF Transfer
  <2>2. thread' = "recv" /\ rx_buffer' = back /\ watchdog_running' /\ watchdog_running
    BY <2>1 DEF Exchange, halLink, BaseInv, UnwatchedIsSilent
  <2>3. /\ core0 = "idle" /\ core0' = "check"
        /\ UNCHANGED stepgen_position
    BY <2>1 DEF TakeFrame
  <2>4. back.ok => rx_buffer'.pos = stepgen_position'
    <3>1. back = Sent \/ ~back.ok
      BY DEF Returning
    <3> QED
      BY <2>2, <2>3, <3>1 DEF Sent, BaseInv, StagedInv
  <2> QED
    BY <2>2, <2>3, <2>4 DEF FreshInv, Behind
<1>5. CASE TransferMissed
  <2>1. thread' = "recv" /\ ~rx_buffer'.ok
    BY <1>5 DEF TransferMissed, Exchange
  <2> QED
    BY <2>1 DEF FreshInv
<1>6. CASE Handle
  <2>1. UNCHANGED <<thread, watchdog_running, watchdog_expired, connected, feedback, rx_buffer>>
    BY <1>6 DEF Handle, halVars, halLink, halBack
  <2>2. PICK pos, back : pos = feedback /\ back = rx_buffer.pos
    OBVIOUS
  <2>3. pos \in Int /\ back \in Int
    BY <2>2 DEF BaseInv, Inv, HalTypeOK, Reply
  <2>4. (Behind(pos) => Behind(pos)') /\ (Behind(back) => Behind(back)')
    BY <1>6, <2>3, BehindHandle DEF BaseInv, Handle
  <2>5. (Behind(feedback) => Behind(feedback)') /\ (Behind(rx_buffer.pos) => Behind(rx_buffer.pos)')
    BY <2>1, <2>2, <2>4 DEF Behind, Distance
  <2> QED
    BY <2>1, <2>5 DEF FreshInv
<1> QED
  BY <1>1, <1>2, <1>3, <1>4, <1>5, <1>6 DEF Next

(* However many frames, replies and transfers were lost before: when a     *)
(* reply is accepted the feedback is at most one frame behind.             *)
THEOREM FeedbackTracks ==
    ASSUME Positions = Int
    PROVE  Spec => []FeedbackIsFresh
<1>1. Init => FreshInv
  BY DEF Init, HalInit, FreshInv
<1>2. BaseInv /\ FreshInv /\ [Next]_vars => FreshInv'
  BY FreshStep
<1>3. BaseInv /\ FreshInv => FeedbackIsFresh
  BY DEF FreshInv, FeedbackIsFresh, Behind, Distance, BaseInv, Inv, HalTypeOK, StagedInv
<1> QED
  BY <1>1, <1>2, <1>3, BaseInvariance, PTL DEF Spec

--------------------------------------------------------------------------------
(***************************************************************************)
(* The firmware's types: its counters come from CleanInv and StagedInv,    *)
(* and its FIFO holds the words of the wire format.                        *)
(***************************************************************************)
FwTyped ==
    /\ fifo \in Seq(Word)
    /\ osr \in [sign : {0, 1}, changed : BOOLEAN]
    /\ FwTypeOK

(* Queueing a word keeps the FIFO within its depth.                        *)
LEMMA FifoStep ==
    ASSUME StagedInv, FwTyped, ApplyCommands
    PROVE  fifo' \in Seq(Word) /\ Len(fifo') <= FifoDepth
<1>1. fifo \in Seq(Word) /\ Len(fifo) <= FifoDepth /\ Len(fifo) \in Nat
  BY DEF FwTyped, FwTypeOK
<1>2. CASE UNCHANGED fifo
  BY <1>1, <1>2
<1>3. CASE ~Lost /\ fifo' = Append(fifo, rx_frame.word) /\ ~Skipped
  <2>1. Len(fifo) < FifoDepth
    BY <1>1, <1>3 DEF Lost
  <2>2. Append(fifo, rx_frame.word) \in Seq(Word)
    BY <1>1 DEF StagedInv
  <2>3. Len(Append(fifo, rx_frame.word)) = Len(fifo) + 1
    BY <1>1
  <2> QED
    BY <1>1, <1>3, <2>1, <2>2, <2>3
<1> QED
  BY <1>2, <1>3, Counted

(* handle_data() keeps the types.                                          *)
LEMMA FwTypeHandle ==
    ASSUME StagedInv, FwTyped, StagedInv', CleanInv', HandleData
    PROVE  FwTyped'
<1> USE DEF FwTyped, FwTypeOK
<1>0. /\ checksum_error' \in BOOLEAN
      /\ checksum_ok_count' \in 0 .. OkToClear - 1
      /\ good_run' \in 0 .. OkToClear
      /\ stepgen_position' \in Int
      /\ reply'.pos \in Int
  BY DEF CleanInv, StagedInv
<1>1. CASE CheckFrame
  BY <1>0, <1>1 DEF CheckFrame, fwOut, fwCore1, fwPio, fwLost
<1>2. CASE ApplyCommands
  <2>1. fifo' \in Seq(Word) /\ Len(fifo') <= FifoDepth
    BY <1>2, FifoStep
  <2> QED
    BY <1>0, <1>2, <2>1 DEF ApplyCommands, fwOut, fwCore1, fwPio, fwLost
<1>3. CASE SetOutputs
  BY <1>0, <1>3 DEF SetOutputs, StagedInv, fwCore1, fwPio, fwLost
<1> QED
  BY <1>1, <1>2, <1>3 DEF HandleData

(* Core 1 and the PIO keep the types.                                      *)
LEMMA FwTypeDevice ==
    ASSUME CleanInv', StagedInv', FwTyped, Device
    PROVE  FwTyped'
<1> USE DEF FwTyped, FwTypeOK
<1>0. /\ checksum_error' \in BOOLEAN
      /\ checksum_ok_count' \in 0 .. OkToClear - 1
      /\ good_run' \in 0 .. OkToClear
      /\ stepgen_position' \in Int
      /\ reply'.pos \in Int
  BY DEF CleanInv, StagedInv
<1>1. CASE Core1Clock
  BY <1>0, <1>1 DEF Core1Clock, fwOut, fwPio, fwLost
<1>2. CASE Core1Serve
  <2>1. Towards(osr.sign, steps_left) \in Int
    BY DEF Towards
  <2>2. steps_left' \in Nat /\ aborted' \in Int /\ cut' \in BOOLEAN /\ pio' \in {"dir", "wait", "run"}
    BY <1>2, <2>1 DEF Core1Serve, fwLost
  <2>3. core1' \in {"idle", "done"} /\ timeout_error' = FALSE
    BY <1>2 DEF Core1Serve, RoundEnd
  <2> QED
    BY <1>0, <1>2, <2>2, <2>3 DEF Core1Serve, fwOut
<1>3. CASE Core1Late
  <2>1. core1' \in {"idle", "done", "outputs"} /\ timeout_error' \in BOOLEAN
    BY <1>3 DEF Core1Late, RoundEnd
  <2> QED
    BY <1>0, <1>3, <2>1 DEF Core1Late, fwOut, fwPio, fwLost
<1>4. CASE Core1Outputs
  <2>1. core1' \in {"idle", "done"} /\ gpio_out' = 0
    BY <1>4 DEF Core1Outputs, RoundEnd
  <2> QED
    BY <1>0, <1>4, <2>1 DEF Core1Outputs, fwPio, fwLost
<1>5. CASE PioPull
  <2>1. Head(fifo) \in Word /\ Tail(fifo) \in Seq(Word) /\ Len(Tail(fifo)) <= FifoDepth
    BY <1>5 DEF PioPull
  <2>2. steps_left' \in Nat /\ osr' \in [sign : {0, 1}, changed : BOOLEAN]
    BY <1>5, <2>1 DEF PioPull, Word
  <2> QED
    BY <1>0, <1>5, <2>1, <2>2 DEF PioPull, fwOut, fwCore1, fwLost
<1>6. CASE PioDir
  BY <1>0, <1>6 DEF PioDir, fwOut, fwCore1, fwLost
<1>7. CASE PioWait
  BY <1>0, <1>7 DEF PioWait, fwOut, fwCore1
<1>8. CASE PioStep
  <2>1. Towards(dir_pin, 1) \in Int
    BY DEF Towards
  <2> QED
    BY <1>0, <1>8, <2>1 DEF PioStep, fwOut, fwCore1, fwLost
<1> QED
  BY <1>1, <1>2, <1>3, <1>4, <1>5, <1>6, <1>7, <1>8 DEF Device, Core1, Pio

(* Every step of the link keeps the firmware's types.                      *)
LEMMA FwTypeStep ==
    ASSUME BaseInv, CleanInv, FwTyped, [Next]_vars
    PROVE  FwTyped'
<1>0. CleanInv' /\ StagedInv'
  BY CleanStep, StagedStep DEF BaseInv, Inv
<1>1. CASE UNCHANGED vars \/ Thread \/ TransferMissed
  <2>1. UNCHANGED fwVars
    BY <1>1 DEF vars, Thread, TransferMissed
  <2> QED
    BY <2>1 DEF fwVars, fwCheck, fwOut, fwCore1, fwPio, fwLost, FwTyped, FwTypeOK
<1>2. CASE NewPeriod
  <2>1. /\ silence' \in 0 .. ClockWrap - 1
        /\ core1' = core1 \/ core1' = "idle"
    BY <1>2 DEF NewPeriod, Elapse, FwTyped, FwTypeOK
  <2>2. UNCHANGED <<core0, fwCheck, stepgen_position, reply, fwOut, timeout_error, setting,
                    fifo, fwPio, fwLost>>
    BY <1>2 DEF NewPeriod, Elapse
  <2> QED
    BY <2>1, <2>2 DEF fwCheck, fwOut, fwPio, fwLost, FwTyped, FwTypeOK
<1>3. CASE Transfer
  <2>1. PICK frame : TakeFrame(frame)
    BY <1>3 DEF Transfer
  <2>2. silence' \in 0 .. ClockWrap - 1
    BY <2>1 DEF TakeFrame
  <2> QED
    BY <2>1, <2>2 DEF TakeFrame, fwCheck, fwOut, fwPio, fwLost, FwTyped, FwTypeOK
<1>4. CASE Handle
  BY <1>0, <1>4, FwTypeHandle DEF Handle, BaseInv
<1>5. CASE Device
  BY <1>0, <1>5, FwTypeDevice
<1> QED
  BY <1>1, <1>2, <1>3, <1>4, <1>5 DEF Next

(* The counters, the FIFO and the words in it are typed in every state.    *)
LEMMA FwTyping ==
    ASSUME Positions = Int
    PROVE  Spec => [](CleanInv /\ FwTyped)
<1>1. Init => FwTyped
  <2> SUFFICES ASSUME Init PROVE FwTyped
    OBVIOUS
  <2>1. CleanInv
    BY CleanInit
  <2>2. fifo = << >> /\ silence = 0 /\ reply.pos = 0
    BY DEF Init, FwInit
  <2>3. fifo \in Seq(Word) /\ Len(fifo) <= FifoDepth
    BY <2>2
  <2>4. silence \in 0 .. ClockWrap - 1
    BY <2>2
  <2>5. osr \in [sign : {0, 1}, changed : BOOLEAN] /\ osr.sign \in {0, 1}
    BY DEF Init, FwInit
  <2>6. /\ core0 = "idle" /\ core1 = "idle" /\ pio = "run"
        /\ stepgen_position = 0 /\ steps_left = 0 /\ motor = 0 /\ aborted = 0
        /\ gpio_out = 0 /\ expander_out = 0 /\ dir_pin = 0
    BY DEF Init, FwInit
  <2>7. timeout_error \in BOOLEAN /\ settled \in BOOLEAN /\ cut \in BOOLEAN
    <3>1. timeout_error = TRUE /\ settled = TRUE /\ cut = FALSE
      BY Zenon DEF Init, FwInit
    <3> QED
      BY <3>1, Zenon
  <2>8. FwTypeOK
    BY <2>1, <2>2, <2>3, <2>4, <2>5, <2>6, <2>7 DEF CleanInv, FwTypeOK
  <2> QED
    BY <2>3, <2>5, <2>8 DEF FwTyped
<1>2. BaseInv /\ CleanInv /\ FwTyped /\ [Next]_vars => CleanInv' /\ FwTyped'
  BY CleanStep, FwTypeStep
<1> QED
  BY <1>1, <1>2, CleanInit, BaseInvariance, PTL DEF Spec

(* Type correctness of the firmware; the FIFO never holds more than it can. *)
THEOREM FirmwareTypes ==
    ASSUME Positions = Int
    PROVE  Spec => []FwTypeOK
<1>1. FwTyped => FwTypeOK
  BY DEF FwTyped
<1> QED
  BY <1>1, FwTyping, PTL

--------------------------------------------------------------------------------
(***************************************************************************)
(* No step is unaccounted for.  What is queued is a sum over the FIFO; the *)
(* invariant carries its partial sums, which a word queued extends and a   *)
(* word pulled shifts, so that no step of the link has to add up the queue *)
(* again.  A step in progress goes the way DIR points: once the program is *)
(* past setting it, DIR is the direction of the word.                      *)
(***************************************************************************)
Sums(sum, words) ==
    /\ sum \in [0 .. Len(words) -> Int]
    /\ sum[0] = 0
    /\ \A i \in 1 .. Len(words) : sum[i] = sum[i - 1] + StepsOf(words[i])

Accounted ==
    \E sum :
        /\ Sums(sum, fifo)
        /\ stepgen_position =
               motor + Towards(osr.sign, steps_left) + sum[Len(fifo)] + aborted

PinInv == pio = "wait" \/ (pio = "run" /\ steps_left > 0) => dir_pin = osr.sign

AccountInv == Accounted /\ PinInv

(* A word queued adds its steps to the sum.                                *)
LEMMA SumOfAppend ==
    ASSUME NEW words \in Seq(Word), NEW word \in Word, NEW sum, Sums(sum, words)
    PROVE  \E total : /\ Sums(total, Append(words, word))
                      /\ total[Len(Append(words, word))] = sum[Len(words)] + StepsOf(word)
<1> DEFINE longer == Append(words, word)
           n == Len(words)
           total == [i \in 0 .. n + 1 |-> IF i <= n THEN sum[i] ELSE sum[n] + StepsOf(word)]
<1>1. /\ n \in Nat
      /\ Len(longer) = n + 1
      /\ longer[n + 1] = word
      /\ \A i \in 1 .. n : longer[i] = words[i]
  OBVIOUS
<1>2. StepsOf(word) \in Int
  BY WordSteps
<1>3. /\ \A i \in 0 .. n : sum[i] \in Int
      /\ sum[0] = 0
      /\ \A i \in 1 .. n : sum[i] = sum[i - 1] + StepsOf(words[i])
  BY <1>1 DEF Sums
<1> HIDE DEF longer, n
<1>4. /\ \A i \in 0 .. n : total[i] = sum[i]
      /\ total[n + 1] = sum[n] + StepsOf(word)
  BY <1>1
<1>5. total \in [0 .. n + 1 -> Int]
  BY <1>1, <1>2, <1>3
<1> HIDE DEF total
<1>6. ASSUME NEW i \in 1 .. n + 1
      PROVE  total[i] = total[i - 1] + StepsOf(longer[i])
  <2>1. CASE i = n + 1
    BY <1>1, <1>4, <2>1
  <2>2. CASE i \in 1 .. n
    <3>1. i - 1 \in 0 .. n /\ i \in 0 .. n
      BY <1>1, <2>2
    <3> QED
      BY <1>1, <1>3, <1>4, <2>2, <3>1
  <2> QED
    BY <1>1, <2>1, <2>2
<1>7. total[0] = 0
  BY <1>1, <1>3, <1>4
<1>8. Sums(total, longer) /\ total[Len(longer)] = sum[n] + StepsOf(word)
  BY <1>1, <1>4, <1>5, <1>6, <1>7 DEF Sums
<1> QED
  BY <1>8 DEF longer, n

(* A word pulled takes its steps from the sum.                             *)
LEMMA SumOfTail ==
    ASSUME NEW words \in Seq(Word), words # << >>, NEW sum, Sums(sum, words)
    PROVE  \E total : /\ Sums(total, Tail(words))
                      /\ total[Len(Tail(words))] = sum[Len(words)] - StepsOf(Head(words))
<1> DEFINE rest == Tail(words)
           n == Len(rest)
           total == [i \in 0 .. n |-> sum[i + 1] - sum[1]]
<1>1. /\ n \in Nat
      /\ Len(words) = n + 1
      /\ Head(words) = words[1]
      /\ \A i \in 1 .. n : rest[i] = words[i + 1]
  OBVIOUS
<1>2. /\ \A i \in 0 .. n + 1 : sum[i] \in Int
      /\ sum[0] = 0
      /\ \A i \in 1 .. n + 1 : sum[i] = sum[i - 1] + StepsOf(words[i])
  BY <1>1 DEF Sums
<1> HIDE DEF rest, n
<1>3. \A i \in 0 .. n : total[i] = sum[i + 1] - sum[1]
  OBVIOUS
<1>4. \A i \in 0 .. n : i + 1 \in 0 .. n + 1
  BY <1>1
<1>5. 1 \in 0 .. n + 1
  BY <1>1
<1>6. total \in [0 .. n -> Int]
  BY <1>2, <1>4, <1>5
<1> HIDE DEF total
<1>7. total[0] = 0
  BY <1>1, <1>2, <1>3, <1>5
<1>8. ASSUME NEW i \in 1 .. n
      PROVE  total[i] = total[i - 1] + StepsOf(rest[i])
  <2>1. total[i] = sum[i + 1] - sum[1] /\ total[i - 1] = sum[i] - sum[1]
    BY <1>1, <1>3
  <2>2. sum[i + 1] = sum[i] + StepsOf(words[i + 1])
    BY <1>1, <1>2
  <2>3. sum[i] \in Int /\ sum[i + 1] \in Int /\ sum[1] \in Int
    BY <1>1, <1>2, <1>5
  <2>4. rest[i] = words[i + 1]
    BY <1>1
  <2>5. StepsOf(words[i + 1]) \in Int
    <3>1. words[i + 1] \in Word
      BY <1>1
    <3> QED
      BY <3>1, WordSteps
  <2> QED
    BY <2>1, <2>2, <2>3, <2>4, <2>5
<1>9. total[n] = sum[n + 1] - StepsOf(words[1])
  <2>1. sum[1] = sum[0] + StepsOf(words[1])
    BY <1>1, <1>2
  <2>2. StepsOf(words[1]) \in Int
    <3>1. words[1] \in Word
      BY <1>1
    <3> QED
      BY <3>1, WordSteps
  <2> QED
    BY <1>1, <1>2, <1>3, <2>1, <2>2
<1>10. Sums(total, rest) /\ total[Len(rest)] = sum[Len(words)] - StepsOf(Head(words))
  BY <1>1, <1>6, <1>7, <1>8, <1>9 DEF Sums, n
<1> QED
  BY <1>10 DEF rest

(* No steps are no steps in either direction.                              *)
LEMMA NoSteps == \A sign : Towards(sign, 0) = 0
<1>1. \A n \in Int : -n = 0 - n
  OBVIOUS
<1>2. 0 \in Int /\ 0 - 0 = 0
  OBVIOUS
<1>3. -0 = 0
  BY <1>1, <1>2, Zenon
<1> QED
  BY <1>3, Zenon DEF Towards

(* A word obeyed: its steps are queued as they are counted.                *)
LEMMA AccountHandle ==
    ASSUME StagedInv, FwTyped, AccountInv, HandleData
    PROVE  AccountInv'
<1>1. PICK sum : /\ Sums(sum, fifo)
                 /\ stepgen_position =
                        motor + Towards(osr.sign, steps_left) + sum[Len(fifo)] + aborted
  BY DEF AccountInv, Accounted
<1>2. UNCHANGED <<motor, osr, steps_left, aborted, pio, dir_pin>>
  BY DEF HandleData, CheckFrame, ApplyCommands, SetOutputs, fwPio, fwLost
<1>3. PinInv'
  BY <1>2 DEF AccountInv, PinInv
<1>4. CASE UNCHANGED <<fifo, stepgen_position>>
  BY <1>1, <1>2, <1>3, <1>4 DEF AccountInv, Accounted
<1>5. CASE /\ fifo' = Append(fifo, rx_frame.word)
           /\ stepgen_position' = stepgen_position + StepsOf(rx_frame.word)
  <2>1. fifo \in Seq(Word) /\ rx_frame.word \in Word
    BY DEF FwTyped, StagedInv
  <2>2. PICK total : /\ Sums(total, fifo')
                     /\ total[Len(fifo')] = sum[Len(fifo)] + StepsOf(rx_frame.word)
    BY <1>1, <1>5, <2>1, SumOfAppend
  <2>3. /\ motor \in Int
        /\ aborted \in Int
        /\ Towards(osr.sign, steps_left) \in Int
        /\ sum[Len(fifo)] \in Int
        /\ StepsOf(rx_frame.word) \in Int
    <3>1. Len(fifo) \in 0 .. Len(fifo)
      BY <2>1
    <3> QED
      BY <1>1, <2>1, <3>1, WordSteps DEF FwTyped, FwTypeOK, Towards, Sums
  <2>4. stepgen_position' =
            motor + Towards(osr.sign, steps_left) + total[Len(fifo')] + aborted
    BY <1>1, <1>5, <2>2, <2>3
  <2> QED
    BY <1>2, <1>3, <2>2, <2>4 DEF AccountInv, Accounted
<1> QED
  BY <1>4, <1>5, Counted DEF HandleData, CheckFrame, SetOutputs

(* Core 1's patch turns the steps in progress into steps dropped.          *)
LEMMA AccountCore1 ==
    ASSUME FwTyped, AccountInv, Core1
    PROVE  AccountInv'
<1>1. PICK sum : /\ Sums(sum, fifo)
                 /\ stepgen_position =
                        motor + Towards(osr.sign, steps_left) + sum[Len(fifo)] + aborted
  BY DEF AccountInv, Accounted
<1>2. motor \in Int /\ aborted \in Int /\ steps_left \in Nat /\ osr.sign \in {0, 1}
  BY DEF FwTyped, FwTypeOK
<1>3. CASE Core1Clock \/ Core1Late \/ Core1Outputs
  BY <1>1, <1>3 DEF Core1Clock, Core1Late, Core1Outputs, fwPio, fwLost, AccountInv,
                    Accounted, PinInv
<1>4. CASE Core1Serve
  <2>1. UNCHANGED <<stepgen_position, fifo, osr, dir_pin, motor>>
    BY <1>4 DEF Core1Serve
  <2>2. CASE UNCHANGED <<aborted, pio, steps_left>>
    BY <1>1, <2>1, <2>2 DEF AccountInv, Accounted, PinInv
  <2>3. CASE /\ aborted' = aborted + Towards(osr.sign, steps_left)
             /\ pio' = "run"
             /\ steps_left' = 0
    <3>1. Towards(osr.sign, steps_left') = 0
      BY <2>3, NoSteps
    <3>2. Towards(osr.sign, steps_left) \in Int
      BY <1>2 DEF Towards
    <3>3. sum[Len(fifo)] \in Int
      <4>1. Len(fifo) \in 0 .. Len(fifo)
        BY DEF FwTyped
      <4> QED
        BY <1>1, <4>1 DEF Sums
    <3>4. stepgen_position =
              motor + Towards(osr.sign, steps_left') + sum[Len(fifo)] + aborted'
      BY <1>1, <1>2, <2>3, <3>1, <3>2, <3>3
    <3>5. PinInv'
      BY <2>3 DEF PinInv
    <3> QED
      BY <1>1, <2>1, <3>4, <3>5 DEF AccountInv, Accounted
  <2> QED
    BY <1>4, <2>2, <2>3 DEF Core1Serve, fwLost
<1> QED
  BY <1>3, <1>4 DEF Core1

(* The PIO turns queued steps into steps in progress, and those into steps *)
(* put out, one for one.                                                   *)
LEMMA AccountPio ==
    ASSUME FwTyped, AccountInv, Pio
    PROVE  AccountInv'
<1>1. PICK sum : /\ Sums(sum, fifo)
                 /\ stepgen_position =
                        motor + Towards(osr.sign, steps_left) + sum[Len(fifo)] + aborted
  BY DEF AccountInv, Accounted
<1>2. /\ motor \in Int /\ aborted \in Int /\ steps_left \in Nat
      /\ osr.sign \in {0, 1} /\ dir_pin \in {0, 1}
  BY DEF FwTyped, FwTypeOK
<1>3. fifo \in Seq(Word)
  BY DEF FwTyped
<1>4. sum[Len(fifo)] \in Int
  <2>1. Len(fifo) \in 0 .. Len(fifo)
    BY <1>3
  <2> QED
    BY <1>1, <2>1 DEF Sums
<1>5. CASE PioPull
  <2>1. /\ fifo # << >> /\ fifo' = Tail(fifo) /\ steps_left = 0
        /\ UNCHANGED <<stepgen_position, motor, aborted>>
        /\ Towards(osr'.sign, steps_left') = StepsOf(Head(fifo))
        /\ pio' = "dir"
    BY <1>5 DEF PioPull, StepsOf, fwLost
  <2>2. Towards(osr.sign, steps_left) = 0
    BY <2>1, NoSteps
  <2>3. PICK total : /\ Sums(total, fifo')
                     /\ total[Len(fifo')] = sum[Len(fifo)] - StepsOf(Head(fifo))
    BY <1>1, <1>3, <2>1, SumOfTail
  <2>4. StepsOf(Head(fifo)) \in Int
    BY <1>3, <2>1, WordSteps
  <2>5. stepgen_position' =
            motor + Towards(osr'.sign, steps_left') + total[Len(fifo')] + aborted
    BY <1>1, <1>2, <1>4, <2>1, <2>2, <2>3, <2>4
  <2> QED
    BY <2>1, <2>3, <2>5 DEF AccountInv, Accounted, PinInv
<1>6. CASE PioDir \/ PioWait
  <2>1. UNCHANGED <<stepgen_position, fifo, osr, steps_left, motor, aborted>>
    BY <1>6 DEF PioDir, PioWait, fwLost
  <2>2. PinInv'
    BY <1>6 DEF PioDir, PioWait, AccountInv, PinInv
  <2> QED
    BY <1>1, <2>1, <2>2 DEF AccountInv, Accounted
<1>7. CASE PioStep
  <2>1. UNCHANGED <<stepgen_position, fifo, pio, osr, dir_pin, aborted>>
    BY <1>7 DEF PioStep, fwLost
  <2>2. dir_pin = osr.sign
    BY <1>7 DEF PioStep, AccountInv, PinInv
  <2>3. motor' + Towards(osr.sign, steps_left') = motor + Towards(osr.sign, steps_left)
    BY <1>2, <1>7, <2>2 DEF PioStep, Towards
  <2>4. /\ Towards(osr.sign, steps_left) \in Int
        /\ Towards(osr.sign, steps_left') \in Int
        /\ motor' \in Int
    BY <1>2, <1>7 DEF PioStep, Towards
  <2>5. stepgen_position' =
            motor' + Towards(osr.sign, steps_left') + sum[Len(fifo)] + aborted
    BY <1>1, <1>2, <1>4, <2>1, <2>3, <2>4
  <2>6. PinInv'
    BY <2>1, <2>2 DEF PinInv
  <2> QED
    BY <1>1, <2>1, <2>5, <2>6 DEF AccountInv, Accounted
<1> QED
  BY <1>5, <1>6, <1>7 DEF Pio

(* Every step of the link keeps the account.                               *)
LEMMA AccountStep ==
    ASSUME BaseInv, FwTyped, AccountInv, [Next]_vars
    PROVE  AccountInv'
<1>1. CASE UNCHANGED vars \/ Thread \/ TransferMissed
  BY <1>1 DEF vars, Thread, TransferMissed, fwVars, fwPio, fwLost, AccountInv, Accounted, PinInv
<1>2. CASE NewPeriod
  BY <1>2 DEF NewPeriod, Elapse, fwPio, fwLost, AccountInv, Accounted, PinInv
<1>3. CASE Transfer
  BY <1>3 DEF Transfer, TakeFrame, fwPio, fwLost, AccountInv, Accounted, PinInv
<1>4. CASE Handle
  BY <1>4, AccountHandle DEF Handle, BaseInv
<1>5. CASE Device
  BY <1>5, AccountCore1, AccountPio DEF Device
<1> QED
  BY <1>1, <1>2, <1>3, <1>4, <1>5 DEF Next

(* Partial sums are unique, so that what the FIFO adds up to is the last   *)
(* of any partial sums of it: were they to differ, they would differ at a  *)
(* first word, but agree before it and so at it.                           *)
LEMMA QueuedIsSum ==
    ASSUME fifo \in Seq(Word), NEW sum, Sums(sum, fifo)
    PROVE  Queued = sum[Len(fifo)]
<1> DEFINE n == Len(fifo)
           Total(s) == [i \in 0 .. n |-> IF i = 0 THEN 0 ELSE s[i - 1] + StepsOf(fifo[i])]
           total == CHOOSE s : s = Total(s)
           Apart == {i \in 0 .. n : total[i] # sum[i]}
<1>1. n \in Nat
  OBVIOUS
<1>2. /\ sum \in [0 .. n -> Int]
      /\ sum[0] = 0
      /\ \A i \in 1 .. n : sum[i] = sum[i - 1] + StepsOf(fifo[i])
  BY DEF Sums
<1>3. Queued = total[n]
  BY DEF Queued
<1> HIDE DEF n
<1>4. sum = Total(sum)
  <2>1. \A i \in 0 .. n : sum[i] = Total(sum)[i]
    BY <1>1, <1>2
  <2> QED
    BY <1>2, <2>1
<1>5. total = Total(total)
  BY <1>4
<1> HIDE DEF total
<1>6. /\ total[0] = 0
      /\ \A i \in 1 .. n : total[i] = total[i - 1] + StepsOf(fifo[i])
  BY <1>1, <1>5
<1> HIDE DEF Total
<1>7. ASSUME Apart # {} PROVE FALSE
  <2>1. Apart \subseteq Nat
    BY <1>1
  <2>2. PICK m \in Apart : \A k \in Apart : ~(<<k, m>> \in OpToRel(<, Nat))
    BY <1>7, <2>1, WFMin, NatLessThanWellFounded
  <2>3. m \in 1 .. n
    BY <1>1, <1>2, <1>6
  <2>4. m - 1 \notin Apart
    <3>1. m - 1 \in Nat /\ m \in Nat /\ m - 1 < m
      BY <1>1, <2>3
    <3>2. <<m - 1, m>> \in OpToRel(<, Nat)
      BY <3>1 DEF OpToRel
    <3> QED
      BY <2>2, <3>2
  <2>5. total[m - 1] = sum[m - 1]
    BY <1>1, <2>3, <2>4
  <2> QED
    BY <1>2, <1>6, <2>3, <2>5
<1> QED
  BY <1>1, <1>3, <1>7 DEF n

(* Every step the firmware has counted was put out, is in progress, is     *)
(* queued or was dropped by core 1's patch; and no other was put out.      *)
THEOREM StepsAccounted ==
    ASSUME Positions = Int
    PROVE  Spec => []StepsAreAccountedFor
<1>1. Init => AccountInv
  <2> SUFFICES ASSUME Init PROVE AccountInv
    OBVIOUS
  <2>1. /\ fifo = << >> /\ motor = 0 /\ aborted = 0
        /\ steps_left = 0 /\ osr.sign = 0 /\ stepgen_position = 0
    BY DEF Init, FwInit
  <2>2. Sums([i \in 0 .. 0 |-> 0], fifo) /\ Len(fifo) = 0
    BY <2>1 DEF Sums
  <2>3. [i \in 0 .. 0 |-> 0][Len(fifo)] = 0
    BY <2>2
  <2>4. Towards(osr.sign, steps_left) = 0
    BY <2>1, NoSteps
  <2> QED
    BY <2>1, <2>2, <2>3, <2>4 DEF AccountInv, Accounted, PinInv
<1>2. BaseInv /\ FwTyped /\ AccountInv /\ [Next]_vars => AccountInv'
  BY AccountStep
<1>3. FwTyped /\ AccountInv => StepsAreAccountedFor
  <2> SUFFICES ASSUME FwTyped, AccountInv PROVE StepsAreAccountedFor
    OBVIOUS
  <2>1. PICK sum : /\ Sums(sum, fifo)
                   /\ stepgen_position =
                          motor + Towards(osr.sign, steps_left) + sum[Len(fifo)] + aborted
    BY DEF AccountInv, Accounted
  <2>2. Queued = sum[Len(fifo)]
    BY <2>1, QueuedIsSum DEF FwTyped
  <2> QED
    BY <2>1, <2>2 DEF StepsAreAccountedFor
<1> QED
  BY <1>1, <1>2, <1>3, BaseInvariance, FwTyping, PTL DEF Spec

--------------------------------------------------------------------------------
(***************************************************************************)
(* The two ends trust each other.  While no fault has happened the driver  *)
(* accepts every reply, so that it never gives the link up, and the        *)
(* firmware never doubts a frame.                                          *)
(***************************************************************************)
TrustInv ==
    /\ ~checksum_error
    /\ core0 = "check" => rx_frame.ok
    /\ ~watchdog_expired
    /\ age <= 1
    /\ thread \in {"motion", "watchdog"} => age = 0
    /\ thread = "recv" /\ watchdog_running => rx_buffer.ok

(* The driver's own steps: process-recv accepts the reply.                 *)
LEMMA TrustThread ==
    ASSUME BaseInv, TrustInv, Thread
    PROVE  TrustInv' /\ ~SendExpired /\ ~RecvExpired /\ ~RecvBad
<1> USE DEF TrustInv
<1>1. UNCHANGED <<core0, rx_frame, checksum_error>>
  BY DEF Thread, fwVars, fwCheck
<1>2. CASE WatchdogProcess
  <2>1. age = 0 /\ thread' = "send" /\ UNCHANGED rx_buffer
    BY <1>2 DEF WatchdogProcess
  <2>2. NextAge = 1 /\ ~(NextAge > WatchdogTimeout)
    BY <2>1 DEF NextAge
  <2>3. age' = 1 /\ ~watchdog_expired'
    BY <1>2, <2>2 DEF WatchdogProcess
  <2> QED
    BY <1>1, <1>2, <2>1, <2>3 DEF WatchdogProcess, SendExpired, RecvExpired, RecvBad
<1>3. CASE SendFrame
  BY <1>1, <1>3 DEF SendFrame, SendExpired, RecvExpired, RecvBad
<1>4. CASE SendNoWatchdog
  BY <1>1, <1>4 DEF SendNoWatchdog, SendExpired, RecvExpired, RecvBad
<1>5. ~SendExpired /\ ~RecvExpired
  BY DEF SendExpired, RecvExpired
<1>6. ~RecvBad
  <2>1. received => watchdog_running
    BY DEF BaseInv, UnwatchedIsSilent
  <2> QED
    BY <2>1 DEF RecvBad, Accepted
<1>7. CASE RecvGood
  BY <1>1, <1>5, <1>6, <1>7 DEF RecvGood
<1> QED
  BY <1>2, <1>3, <1>4, <1>5, <1>6, <1>7 DEF Thread, SendBooked, ProcessSend, ProcessRecv

(* A driver and a device that trust each other go on doing so.             *)
LEMMA TrustStep ==
    ASSUME BaseInv, TrustInv, [Next]_vars, faults' = 0
    PROVE  TrustInv'
<1> USE DEF TrustInv
<1>1. CASE UNCHANGED vars
  BY <1>1 DEF vars, halVars, halLink, fwVars, fwCheck
<1>2. CASE NewPeriod
  BY <1>2 DEF NewPeriod, Motion, halLink, Elapse, fwCheck
<1>3. CASE Thread
  BY <1>3, TrustThread
<1>4. CASE CleanTransfer
  <2>1. /\ thread' = "recv" /\ rx_buffer' = Sent
        /\ UNCHANGED <<watchdog_expired, age>>
    BY <1>4 DEF CleanTransfer, Exchange, halLink
  <2>2. ~checksum_error' /\ rx_frame'.ok
    BY <1>4 DEF CleanTransfer, TakeFrame, fwCheck
  <2> QED
    BY <2>1, <2>2 DEF Sent
<1>5. CASE CleanHandle
  <2>1. UNCHANGED <<thread, watchdog_running, watchdog_expired, age, rx_buffer>>
    BY <1>5 DEF CleanHandle, halVars, halLink
  <2>2. ~checksum_error' /\ core0' # "check"
    <3>1. CASE CheckFrame
      BY <3>1 DEF CheckFrame, CheckGood
    <3>2. CASE ApplyCommands \/ SetOutputs
      BY <3>2 DEF ApplyCommands, SetOutputs, fwCheck
    <3> QED
      BY <1>5, <3>1, <3>2 DEF CleanHandle, HandleData
  <2> QED
    BY <2>1, <2>2
<1>6. CASE Device
  <2>1. UNCHANGED <<thread, watchdog_running, watchdog_expired, age, rx_buffer>>
    BY <1>6 DEF Device, halVars, halLink
  <2>2. UNCHANGED <<core0, rx_frame>>
    BY <1>6, Core0Alone
  <2>3. ~checksum_error'
    BY <1>6 DEF Device, Core1, Core1Clock, Core1Serve, Core1Late, Core1Outputs,
                Pio, PioPull, PioDir, PioWait, PioStep, fwCheck
  <2> QED
    BY <2>1, <2>2, <2>3
<1> QED
  BY <1>1, <1>2, <1>3, <1>4, <1>5, <1>6, FaultFree DEF BaseInv

(* It holds for as long as no fault has happened.                          *)
LEMMA Trusting ==
    ASSUME Positions = Int
    PROVE  Spec => [](faults = 0 => TrustInv)
<1>1. Init => TrustInv
  BY DEF Init, HalInit, FwInit, TrustInv
<1>2. ASSUME BaseInv, faults = 0 => TrustInv, [Next]_vars
      PROVE  (faults = 0 => TrustInv)'
  <2>1. faults' = 0 => faults = 0
    BY <1>2, FaultsStep DEF BaseInv
  <2> QED
    BY <1>2, <2>1, TrustStep
<1> QED
  BY <1>1, <1>2, BaseInvariance, PTL DEF Spec

(* As long as no fault has happened the driver never gives the link up and *)
(* the device never doubts a frame, whatever the operator, core 1 and the  *)
(* PIO do in between: no WatchdogTimeout is too short for a clean link.    *)
CleanLinkHolds == faults = 0 => ~watchdog_expired /\ ~checksum_error

(* The driver's clock counts at most one period between two replies.       *)
THEOREM CleanLinkStaysUp ==
    ASSUME Positions = Int
    PROVE  Spec => []CleanLinkHolds
<1>1. (faults = 0 => TrustInv) => CleanLinkHolds
  BY DEF TrustInv, CleanLinkHolds
<1> QED
  BY <1>1, Trusting, PTL

--------------------------------------------------------------------------------
(***************************************************************************)
(* DIR settles before a step.  While no fault has happened the driver's    *)
(* last_dir is the direction of the word on the wire, or of the last word  *)
(* before it.  The words follow one another the way DIR will: a word       *)
(* without the changed bit has the direction of the one before it, on the  *)
(* wire, in rx_buffer, in the FIFO and in the state machine.  Unless a     *)
(* patch cut off a reversal, DIR and its setup time follow the words.      *)
(***************************************************************************)
SignBefore(i) == IF i = 1 THEN osr.sign ELSE fifo[i - 1].sign

LastSign == IF fifo = << >> THEN osr.sign ELSE fifo[Len(fifo)].sign

QueueSettles ==
    \A i \in 1 .. Len(fifo) : fifo[i].changed \/ fifo[i].sign = SignBefore(i)

WordTaken == core0 \in {"check", "apply"} /\ rx_frame.word # NoCommand

TakenSign == IF WordTaken THEN rx_frame.word.sign ELSE LastSign

TakenSettles == WordTaken => rx_frame.word.changed \/ rx_frame.word.sign = LastSign

DirKnown ==
    IF thread = "exchange" /\ tx_buffer.word # NoWord
    THEN /\ tx_buffer.word.sign = last_dir
         /\ tx_buffer.word.changed \/ tx_buffer.word.sign = TakenSign
    ELSE last_dir \in {-1, TakenSign}

PinSettles ==
    /\ pio = "wait" => osr.changed /\ dir_pin = osr.sign
    /\ ~cut /\ pio = "run" => settled /\ dir_pin = osr.sign
    /\ ~cut /\ pio = "dir" => osr.changed \/ (settled /\ dir_pin = osr.sign)

DirInv == QueueSettles /\ TakenSettles /\ DirKnown

(* Who leaves core 0's frame and the queue alone leaves the directions.    *)
LEMMA DirSame ==
    ASSUME UNCHANGED <<core0, rx_frame, fifo, osr>>
    PROVE  /\ UNCHANGED <<LastSign, TakenSign>>
           /\ QueueSettles' <=> QueueSettles
           /\ TakenSettles' <=> TakenSettles
BY DEF LastSign, TakenSign, WordTaken, QueueSettles, SignBefore, TakenSettles

(* The PIO pulls a word: the rest of the queue follows it as before.       *)
LEMMA DirPull ==
    ASSUME FwTyped, QueueSettles, PioPull
    PROVE  QueueSettles' /\ LastSign' = LastSign
<1> DEFINE n == Len(fifo)
<1>1. /\ fifo \in Seq(Word) /\ fifo # << >> /\ fifo' = Tail(fifo)
      /\ osr'.sign = fifo[1].sign
  BY DEF PioPull, FwTyped
<1>2. /\ n \in Nat \ {0}
      /\ Len(fifo') = n - 1
      /\ \A i \in 1 .. n - 1 : fifo'[i] = fifo[i + 1]
  BY <1>1
<1>3. (fifo' = << >>) <=> (n = 1)
  <2>1. fifo' \in Seq(Word)
    BY <1>1
  <2>2. (fifo' = << >>) <=> (Len(fifo') = 0)
    BY <2>1
  <2> QED
    BY <1>2, <2>2
<1> HIDE DEF n
<1>5. ASSUME NEW i \in 1 .. n - 1
      PROVE  fifo'[i].changed \/ fifo'[i].sign = SignBefore(i)'
  <2>1. i + 1 \in 1 .. n /\ fifo'[i] = fifo[i + 1]
    BY <1>2
  <2>2. fifo[i + 1].changed \/ fifo[i + 1].sign = SignBefore(i + 1)
    BY <2>1 DEF QueueSettles, n
  <2>3. SignBefore(i + 1) = fifo[i].sign
    BY <1>2 DEF SignBefore
  <2>4. SignBefore(i)' = fifo[i].sign
    <3>1. CASE i = 1
      BY <1>1, <3>1 DEF SignBefore
    <3>2. CASE i # 1
      <4>1. i - 1 \in 1 .. n - 1 /\ (i - 1) + 1 = i
        BY <1>2, <3>2
      <4>2. fifo'[i - 1] = fifo[i]
        BY <1>2, <4>1
      <4> QED
        BY <3>2, <4>2 DEF SignBefore
    <3> QED
      BY <3>1, <3>2
  <2> QED
    BY <2>1, <2>2, <2>3, <2>4
<1>6. QueueSettles'
  BY <1>2, <1>5 DEF QueueSettles
<1>7. LastSign' = LastSign
  <2>1. LastSign = fifo[n].sign
    BY <1>1 DEF LastSign, n
  <2>2. CASE n = 1
    BY <1>1, <1>3, <2>1, <2>2 DEF LastSign
  <2>3. CASE n # 1
    <3>1. n - 1 \in 1 .. n - 1 /\ (n - 1) + 1 = n
      BY <1>2, <2>3
    <3>2. fifo'[n - 1] = fifo[n]
      BY <1>2, <3>1
    <3> QED
      BY <1>2, <1>3, <2>1, <2>3, <3>2 DEF LastSign
  <2> QED
    BY <2>2, <2>3
<1> QED
  BY <1>6, <1>7

(* Core 0 queues a word that says whether it turns the pin.                *)
LEMMA DirQueue ==
    ASSUME FwTyped, QueueSettles, NEW word \in Word,
           word.changed \/ word.sign = LastSign,
           fifo' = Append(fifo, word), UNCHANGED osr
    PROVE  QueueSettles' /\ LastSign' = word.sign
<1>0. PICK n : n = Len(fifo)
  OBVIOUS
<1>1. /\ n \in Nat
      /\ Len(fifo') = n + 1
      /\ fifo'[n + 1] = word
      /\ \A i \in 1 .. n : fifo'[i] = fifo[i]
      /\ fifo' # << >>
      /\ (fifo = << >>) <=> (n = 0)
  BY <1>0 DEF FwTyped
<1>2. LastSign' = word.sign
  BY <1>1 DEF LastSign
<1>3. \A i \in 1 .. n : SignBefore(i)' = SignBefore(i)
  BY <1>1 DEF SignBefore
<1>4. SignBefore(n + 1)' = LastSign
  <2>1. CASE n = 0
    <3>1. n + 1 = 1
      BY <2>1
    <3> QED
      BY <1>1, <2>1, <3>1 DEF SignBefore, LastSign
  <2>2. CASE n # 0
    <3>1. n + 1 # 1 /\ (n + 1) - 1 = n /\ n \in 1 .. n
      BY <1>1, <2>2
    <3>2. SignBefore(n + 1)' = fifo'[n].sign
      BY <3>1 DEF SignBefore
    <3>3. LastSign = fifo[n].sign
      BY <1>0, <1>1, <2>2 DEF LastSign
    <3> QED
      BY <1>1, <3>1, <3>2, <3>3
  <2> QED
    BY <2>1, <2>2
<1>5. ASSUME NEW i \in 1 .. n + 1
      PROVE  fifo'[i].changed \/ fifo'[i].sign = SignBefore(i)'
  <2>1. CASE i = n + 1
    BY <1>1, <1>4, <2>1
  <2>2. CASE i \in 1 .. n
    BY <1>0, <1>1, <1>3, <2>2 DEF QueueSettles
  <2> QED
    BY <1>1, <2>1, <2>2
<1> QED
  BY <1>1, <1>2, <1>5 DEF QueueSettles

(* process-send makes last_dir the direction of the word it puts on the    *)
(* wire, or leaves it alone when it has no step to send.                   *)
LEMMA DirSend ==
    ASSUME BaseInv, DirKnown, SendFrame, UNCHANGED TakenSign
    PROVE  DirKnown'
<1>1. thread' = "exchange" /\ last_dir \in {-1, TakenSign}
  BY DEF SendFrame, DirKnown
<1>2. TakenSign' = TakenSign
  OBVIOUS
<1>3. CASE ~enable \/ StepsDue = 0
  <2>1. tx_buffer'.word = NoWord
    BY <1>3 DEF SendFrame, StepWord
  <2>2. last_dir' = last_dir
    <3>1. StepsDue \in Int
      BY StepWordType DEF BaseInv, Inv
    <3> QED
      BY <1>3, <3>1 DEF SendFrame, StepGen
  <2> QED
    BY <1>1, <1>2, <2>1, <2>2 DEF DirKnown
<1>4. CASE enable /\ StepsDue # 0
  <2>1. StepsDue > 0 /\ Sign \in {0, 1}
    BY <1>4, StepWordType DEF BaseInv, Inv
  <2>2. last_dir' = Sign
    BY <1>4, <2>1 DEF SendFrame, StepGen
  <2>3. tx_buffer'.word = StepWord
    BY <1>4 DEF SendFrame
  <2>4. StepWord.sign = Sign /\ StepWord.changed = (Sign # last_dir)
    BY <1>4 DEF StepWord
  <2>5. Sign # last_dir \/ Sign = TakenSign
    BY <1>1, <2>1
  <2>6. CASE tx_buffer'.word = NoWord
    <3>1. ~StepWord.changed
      BY <2>3, <2>6 DEF NoWord
    <3> QED
      BY <1>2, <2>2, <2>4, <2>5, <2>6, <3>1 DEF DirKnown
  <2>7. CASE tx_buffer'.word # NoWord
    <3>1. StepWord.changed \/ Sign = TakenSign
      BY <2>4, <2>5
    <3> QED
      BY <1>1, <1>2, <2>2, <2>3, <2>4, <2>7, <3>1 DEF DirKnown
  <2> QED
    BY <2>6, <2>7
<1> QED
  BY <1>3, <1>4

(* A clean transfer hands the word over from the wire to core 0.           *)
LEMMA DirTransfer ==
    ASSUME BaseInv, DirInv, CleanTransfer
    PROVE  DirInv'
<1>1. /\ thread = "exchange" /\ thread' = "recv"
      /\ core0 = "idle" /\ core0' = "check"
      /\ rx_frame' = tx_buffer
      /\ UNCHANGED <<last_dir, fifo, osr>>
  BY DEF CleanTransfer, Exchange, halSteps, TakeFrame, fwPio
<1>2. LastSign' = LastSign /\ QueueSettles' /\ NoCommand = NoWord
  BY <1>1 DEF DirInv, LastSign, QueueSettles, SignBefore, NoCommand, NoWord
<1>3. TakenSign = LastSign
  BY <1>1 DEF TakenSign, WordTaken
<1>4. CASE tx_buffer.word = NoWord
  <2>1. ~WordTaken' /\ TakenSign' = LastSign
    BY <1>1, <1>2, <1>4 DEF TakenSign, WordTaken
  <2> QED
    BY <1>1, <1>2, <1>3, <1>4, <2>1 DEF DirInv, DirKnown, TakenSettles
<1>5. CASE tx_buffer.word # NoWord
  <2>1. WordTaken' /\ TakenSign' = tx_buffer.word.sign
    BY <1>1, <1>2, <1>5 DEF TakenSign, WordTaken
  <2>2. /\ tx_buffer.word.sign = last_dir
        /\ tx_buffer.word.changed \/ tx_buffer.word.sign = LastSign
    BY <1>1, <1>3, <1>5 DEF DirInv, DirKnown
  <2> QED
    BY <1>1, <1>2, <2>1, <2>2 DEF DirInv, DirKnown, TakenSettles
<1> QED
  BY <1>4, <1>5

(* Core 0 hands it over to the FIFO.                                       *)
LEMMA DirHandle ==
    ASSUME BaseInv, FwTyped, TrustInv, DirInv, CleanHandle
    PROVE  DirInv'
<1>1. UNCHANGED <<thread, last_dir, tx_buffer>>
  BY DEF CleanHandle, halVars, halSteps
<1>2. ASSUME QueueSettles', TakenSettles', TakenSign' = TakenSign
      PROVE  DirInv'
  BY <1>1, <1>2 DEF DirInv, DirKnown
<1>3. CASE CheckFrame \/ SetOutputs
  <2>1. /\ UNCHANGED <<rx_frame, fifo, osr>>
        /\ WordTaken' <=> WordTaken
    BY <1>3 DEF CheckFrame, SetOutputs, fwPio, WordTaken
  <2> QED
    BY <1>2, <2>1 DEF DirInv, LastSign, TakenSign, QueueSettles, SignBefore, TakenSettles
<1>4. CASE ApplyCommands
  <2>1. core0 = "apply" /\ ~WordTaken' /\ UNCHANGED osr /\ ~Lost
    BY <1>4 DEF ApplyCommands, CleanHandle, WordTaken, fwPio
  <2>2. TakenSettles' /\ TakenSign' = LastSign'
    BY <2>1 DEF TakenSettles, TakenSign
  <2>3. CASE ~WordTaken
    <3>1. UNCHANGED fifo
      BY <1>4, <2>1, <2>3 DEF ApplyCommands, Skipped, WordTaken
    <3>2. LastSign' = LastSign /\ QueueSettles' /\ TakenSign = LastSign
      BY <2>1, <2>3, <3>1 DEF DirInv, LastSign, QueueSettles, SignBefore, TakenSign
    <3> QED
      BY <1>2, <2>2, <3>2
  <2>4. CASE WordTaken
    <3>1. fifo' = Append(fifo, rx_frame.word)
      BY <1>4, <2>1, <2>4 DEF ApplyCommands, Skipped, WordTaken, TrustInv
    <3>2. rx_frame.word \in Word
      BY DEF BaseInv, StagedInv
    <3>3. rx_frame.word.changed \/ rx_frame.word.sign = LastSign
      BY <2>4 DEF DirInv, TakenSettles
    <3>4. QueueSettles' /\ LastSign' = rx_frame.word.sign
      BY <2>1, <3>1, <3>2, <3>3, DirQueue DEF DirInv
    <3>5. TakenSign = rx_frame.word.sign
      BY <2>4 DEF TakenSign
    <3> QED
      BY <1>2, <2>2, <3>4, <3>5
  <2> QED
    BY <2>3, <2>4
<1> QED
  BY <1>3, <1>4 DEF CleanHandle, HandleData

(* Core 1 and the PIO: only the pull moves words, and it keeps their order. *)
LEMMA DirDevice ==
    ASSUME BaseInv, FwTyped, DirInv, Device
    PROVE  DirInv'
<1>1. UNCHANGED <<thread, last_dir, tx_buffer, core0, rx_frame>>
  BY Core0Alone DEF Device, halVars, halSteps
<1>2. ASSUME QueueSettles', LastSign' = LastSign
      PROVE  DirInv'
  BY <1>1, <1>2 DEF DirInv, DirKnown, TakenSign, WordTaken, TakenSettles
<1>3. CASE PioPull
  BY <1>2, <1>3, DirPull DEF DirInv
<1>4. CASE Core1 \/ PioDir \/ PioWait \/ PioStep
  <2>1. UNCHANGED <<fifo, osr>>
    BY <1>4 DEF Core1, Core1Clock, Core1Serve, Core1Late, Core1Outputs, PioDir, PioWait,
                PioStep, fwPio
  <2> QED
    BY <1>1, <1>2, <2>1, DirSame DEF DirInv
<1> QED
  BY <1>3, <1>4 DEF Device, Pio

(* As long as no fault has happened every step keeps the directions known. *)
LEMMA DirStep ==
    ASSUME BaseInv, FwTyped, TrustInv, DirInv, [Next]_vars, faults' = 0
    PROVE  DirInv'
<1>1. ASSUME UNCHANGED <<core0, rx_frame, fifo, osr, last_dir>>,
             UNCHANGED <<thread, tx_buffer>> \/ (thread # "exchange" /\ thread' # "exchange")
      PROVE  DirInv'
  BY <1>1, DirSame DEF DirInv, DirKnown
<1>2. CASE UNCHANGED vars
  BY <1>1, <1>2 DEF vars, halVars, halSteps, fwVars, fwPio
<1>3. CASE NewPeriod
  BY <1>1, <1>3 DEF NewPeriod, Motion, halSteps, Elapse, fwPio
<1>4. CASE Thread
  <2>1. UNCHANGED <<core0, rx_frame, fifo, osr>>
    BY <1>4 DEF Thread, fwVars, fwPio
  <2>2. CASE SendFrame
    BY <2>1, <2>2, DirSame, DirSend DEF DirInv
  <2>3. CASE ~SendFrame
    <3>1. UNCHANGED last_dir /\ thread # "exchange" /\ thread' # "exchange"
      BY <1>4, <2>3 DEF Thread, SendBooked, WatchdogProcess, ProcessSend, SendExpired,
                        SendNoWatchdog, ProcessRecv, RecvExpired, RecvBad, RecvGood, halSteps
    <3> QED
      BY <1>1, <2>1, <3>1
  <2> QED
    BY <2>2, <2>3
<1>5. CASE CleanTransfer
  BY <1>5, DirTransfer
<1>6. CASE CleanHandle
  BY <1>6, DirHandle
<1>7. CASE Device
  BY <1>7, DirDevice
<1> QED
  BY <1>2, <1>3, <1>4, <1>5, <1>6, <1>7, FaultFree DEF BaseInv

(* The state machine: as long as the words follow one another, DIR and its *)
(* setup time follow the words, but for the reversal a patch cuts off.     *)
LEMMA PinStep ==
    ASSUME FwTyped, QueueSettles, PinSettles, [Next]_vars
    PROVE  PinSettles'
<1> USE DEF PinSettles
<1>1. ASSUME UNCHANGED <<pio, osr, dir_pin, settled, cut>> PROVE PinSettles'
  BY <1>1
<1>2. CASE UNCHANGED vars \/ NewPeriod \/ Thread \/ Transfer \/ TransferMissed \/ Handle
  BY <1>1, <1>2 DEF vars, fwVars, fwPio, fwLost, NewPeriod, Elapse, Thread, Transfer,
                    TakeFrame, TransferMissed, Handle, HandleData, CheckFrame,
                    ApplyCommands, SetOutputs
<1>3. CASE Core1Clock \/ Core1Late \/ Core1Outputs
  BY <1>1, <1>3 DEF Core1Clock, Core1Late, Core1Outputs, fwPio, fwLost
<1>4. CASE Core1Serve
  <2>1. UNCHANGED <<osr, dir_pin, settled>>
    BY <1>4 DEF Core1Serve
  <2>2. CASE UNCHANGED <<pio, cut>>
    BY <1>1, <2>1, <2>2
  <2>3. CASE pio' = "run" /\ cut' = (cut \/ (pio # "run" /\ osr.changed))
    <3>1. pio \in {"dir", "wait", "run"}
      BY DEF FwTyped, FwTypeOK
    <3> QED
      BY <2>1, <2>3, <3>1
  <2> QED
    BY <1>4, <2>2, <2>3 DEF Core1Serve, fwLost
<1>5. CASE PioPull
  <2>1. /\ fifo # << >> /\ pio = "run" /\ pio' = "dir"
        /\ osr'.changed = fifo[1].changed /\ osr'.sign = fifo[1].sign
        /\ UNCHANGED <<dir_pin, settled, cut>>
    BY <1>5 DEF PioPull, fwLost, FwTyped
  <2>2. fifo[1].changed \/ fifo[1].sign = osr.sign
    <3>1. 1 \in 1 .. Len(fifo)
      BY <2>1 DEF FwTyped
    <3> QED
      BY <3>1 DEF QueueSettles, SignBefore
  <2> QED
    BY <2>1, <2>2
<1>6. CASE PioDir
  BY <1>6 DEF PioDir, fwLost
<1>7. CASE PioWait
  BY <1>7 DEF PioWait
<1>8. CASE PioStep
  BY <1>1, <1>8 DEF PioStep, fwLost
<1> QED
  BY <1>2, <1>3, <1>4, <1>5, <1>6, <1>7, <1>8 DEF Next, Device, Core1, Pio

(* On a link without faults no step in a new direction comes before DIR    *)
(* has had its setup time, unless a patch cut the reversal off: for any    *)
(* depth of the FIFO, any table of timings, any positions at which the     *)
(* axis is enabled, and however late core 0 is with its frame.             *)
THEOREM DirectionSettles ==
    ASSUME Positions = Int
    PROVE  Spec => []DirSettlesBeforeStep
<1> DEFINE Good == faults = 0 => DirInv /\ PinSettles
<1>1. Init => DirInv /\ PinSettles
  BY DEF Init, HalInit, FwInit, DirInv, QueueSettles, WordTaken, TakenSettles, DirKnown, PinSettles
<1>2. ASSUME BaseInv, FwTyped, faults = 0 => TrustInv, Good, [Next]_vars
      PROVE  Good'
  <2>1. faults' = 0 => faults = 0
    BY <1>2, FaultsStep DEF BaseInv
  <2> QED
    BY <1>2, <2>1, DirStep, PinStep DEF DirInv
<1>3. Good => DirSettlesBeforeStep
  BY DEF PinSettles, DirSettlesBeforeStep
<1> QED
  BY <1>1, <1>2, <1>3, BaseInvariance, FwTyping, Trusting, PTL DEF Spec

--------------------------------------------------------------------------------
(***************************************************************************)
(* Commands are conserved.  While no fault has happened the firmware       *)
(* obeys every word, so that its position, with the words on their way,    *)
(* changes by exactly what process-send puts on the wire.  The books are   *)
(* opened when the axis is enabled; a word the timing table has no entry   *)
(* for is booked as skipped.  An axis that process-send finds disabled has *)
(* its books closed.                                                       *)
(***************************************************************************)
BooksInv ==
    /\ origin \in Int
    /\ skipped \in Int
    /\ thread \in {"exchange", "recv", "motion"} /\ ~enable => first_data
    /\ enable /\ ~first_data =>
           prev_pos - skipped = (stepgen_position - origin) + (OnWire + Pending)

(* The two ends read the same number of steps from a word.                 *)
LEMMA SameSteps ==
    /\ \A word : StepsOf(word) = Signed(word)
    /\ Signed(NoWord) = 0
    /\ NoCommand = NoWord
<1>1. \A word : StepsOf(word) = Signed(word)
  BY DEF StepsOf, Towards, Signed
<1>2. StepsOf(NoWord) = Towards(0, 0)
  BY DEF StepsOf, NoWord
<1> QED
  BY <1>1, <1>2, NoSteps DEF NoCommand, NoWord

(* What is on its way is a whole number of steps.                          *)
LEMMA WayType ==
    ASSUME BaseInv
    PROVE  OnWire \in Int /\ Pending \in Int /\ Signed(tx_buffer.word) \in Int
<1>1. tx_buffer.word \in Word /\ rx_frame.word \in Word
  BY DEF BaseInv, Inv, HalTypeOK, Frame, StagedInv
<1> QED
  BY <1>1, SameSteps, WordSteps DEF OnWire, Pending

(* The word process-send makes stands for the whole move of prev_pos, or   *)
(* for none of it when the timing table has no entry for it.               *)
LEMMA CountSend ==
    ASSUME BaseInv, enable, SendFrame
    PROVE  /\ ~first_data'
           /\ prev_pos' = Base + Signed(tx_buffer'.word)
                               + (IF StepsDue <= TimingMax THEN 0 ELSE Towards(Sign, StepsDue))
           /\ Towards(Sign, StepsDue) \in Int
<1>1. StepsDue \in 0 .. StepLimit /\ Sign \in {0, 1} /\ Base \in Int
  BY StepWordType DEF BaseInv, Inv
<1>2. /\ ~first_data'
      /\ prev_pos' = IF Sign = 1 THEN Base + StepsDue ELSE Base - StepsDue
      /\ tx_buffer'.word = StepWord
  BY DEF SendFrame, StepGen
<1>3. Towards(Sign, StepsDue) \in Int
  BY <1>1 DEF Towards
<1>4. CASE StepsDue = 0
  <2>1. Signed(StepWord) = 0 /\ StepsDue <= TimingMax
    BY <1>4, SameSteps, TimingMaxAssumption DEF StepWord
  <2> QED
    BY <1>1, <1>2, <1>3, <1>4, <2>1
<1>5. CASE StepsDue # 0 /\ StepsDue <= TimingMax
  <2>1. StepWord.steps = StepsDue /\ StepWord.sign = Sign
    BY <1>5 DEF StepWord
  <2>2. prev_pos' = Base + Signed(StepWord)
    BY <1>1, <1>2, <2>1 DEF Signed
  <2>3. prev_pos' \in Int
    BY <1>1, <1>2
  <2>4. Signed(StepWord) \in Int
    BY <1>1, <2>1 DEF Signed
  <2> QED
    BY <1>1, <1>2, <1>3, <1>5, <2>2, <2>3, <2>4
<1>6. CASE ~(StepsDue <= TimingMax)
  <2>1. Signed(StepWord) = 0
    <3>1. StepsDue # 0
      BY <1>1, <1>6, TimingMaxAssumption
    <3>2. StepWord.steps = 0
      BY <1>6, <3>1 DEF StepWord
    <3>3. Signed(StepWord) = Towards(StepWord.sign, 0)
      BY <3>2 DEF Signed, Towards
    <3> QED
      BY <3>3, NoSteps
  <2>2. prev_pos' = Base + Towards(Sign, StepsDue)
    BY <1>1, <1>2 DEF Towards
  <2>3. prev_pos' \in Int
    BY <1>1, <1>2
  <2> QED
    BY <1>1, <1>2, <1>3, <1>6, <2>1, <2>2, <2>3
<1> QED
  BY <1>1, <1>2, <1>3, <1>4, <1>5, <1>6

(* process-send books what it puts on the wire and what it skips.          *)
LEMMA BooksSend ==
    ASSUME BaseInv, BooksInv, faults = 0, SendFrame, SendBooked, UNCHANGED fwVars
    PROVE  BooksInv'
<1>1. /\ thread = "send" /\ thread' = "exchange"
      /\ UNCHANGED <<enable, stepgen_position, core0, rx_frame>>
  BY DEF SendFrame, halPins, fwVars
<1>2. /\ OnWire = 0
      /\ OnWire' = Signed(tx_buffer'.word)
      /\ Pending' = Pending
  BY <1>1 DEF OnWire, Pending
<1>3. CASE ~enable
  <2>1. origin' = origin /\ skipped' = skipped /\ first_data'
    BY <1>3 DEF SendBooked, SendFrame, StepGen, history
  <2> QED
    BY <1>1, <1>3, <2>1 DEF BooksInv
<1>4. CASE enable
  <2> DEFINE over == IF StepsDue <= TimingMax THEN 0 ELSE Towards(Sign, StepsDue)
  <2>1. /\ ~first_data'
        /\ prev_pos' = Base + Signed(tx_buffer'.word) + over
        /\ over \in Int
    BY <1>4, CountSend
  <2>2. /\ origin' = IF first_data THEN stepgen_position + Pending ELSE origin
        /\ skipped' = (IF first_data THEN 0 ELSE skipped) + over
    BY <1>1, <1>4 DEF SendBooked
  <2> HIDE DEF over
  <2>3. /\ stepgen_position \in Int /\ Pending \in Int /\ prev_pos \in Int
        /\ tx_buffer'.word \in Word
    <3>1. HalTypeOK'
      BY TypeStep DEF BaseInv, Inv, HalNext, ProcessSend
    <3> QED
      BY <3>1, WayType DEF BaseInv, StagedInv, Inv, HalTypeOK, Frame
  <2>4. Signed(tx_buffer'.word) \in Int
    BY <2>3, SameSteps, WordSteps
  <2>5. CASE first_data
    <3>1. Base = 0 /\ origin' = stepgen_position + Pending /\ skipped' = over
      BY <2>1, <2>2, <2>5 DEF Base
    <3>2. prev_pos' - skipped' = (stepgen_position - origin') + (Signed(tx_buffer'.word) + Pending)
      BY <2>1, <2>3, <2>4, <3>1
    <3>4. origin' \in Int /\ skipped' \in Int
      BY <2>1, <2>3, <3>1
    <3> QED
      BY <1>1, <1>2, <1>4, <2>1, <3>2, <3>4 DEF BooksInv
  <2>6. CASE ~first_data
    <3>1. Base = prev_pos /\ origin' = origin /\ skipped' = skipped + over
      BY <2>2, <2>6 DEF Base
    <3>2. prev_pos - skipped = (stepgen_position - origin) + Pending
      BY <1>2, <1>4, <2>3, <2>6 DEF BooksInv
    <3>3. prev_pos' - skipped' = (stepgen_position - origin') + (Signed(tx_buffer'.word) + Pending)
      BY <2>1, <2>3, <2>4, <3>1, <3>2 DEF BooksInv
    <3>5. origin' \in Int /\ skipped' \in Int
      BY <2>1, <3>1 DEF BooksInv
    <3> QED
      BY <1>1, <1>2, <1>4, <2>1, <3>3, <3>5 DEF BooksInv
  <2> QED
    BY <2>5, <2>6
<1> QED
  BY <1>3, <1>4

(* Core 0 counts the steps of the word it has taken, and no others.        *)
LEMMA BooksHandle ==
    ASSUME BaseInv, TrustInv, CleanHandle
    PROVE  \E n \in Int : /\ stepgen_position' = stepgen_position + n
                          /\ Pending' = Pending - n
<1>1. stepgen_position \in Int /\ Pending \in Int
  BY WayType DEF BaseInv, StagedInv
<1>2. CASE UNCHANGED <<stepgen_position, Pending>>
  <2>1. stepgen_position' = stepgen_position + 0 /\ Pending' = Pending - 0
    BY <1>1, <1>2
  <2> QED
    BY <2>1
<1>3. CASE CheckFrame \/ SetOutputs
  BY <1>2, <1>3 DEF CheckFrame, SetOutputs, Pending
<1>4. CASE ApplyCommands
  <2>1. core0 = "apply" /\ core0' = "output" /\ ~Lost
    BY <1>4 DEF ApplyCommands, CleanHandle
  <2>2. Pending = StepsOf(rx_frame.word) /\ Pending' = 0
    BY <2>1 DEF Pending
  <2>3. CASE Skipped
    <3>1. Pending = 0
      BY <2>2, <2>3, SameSteps DEF Skipped, TrustInv
    <3>2. stepgen_position' = stepgen_position
      BY <1>4, <2>3 DEF ApplyCommands
    <3> QED
      BY <1>2, <2>2, <3>1, <3>2
  <2>4. CASE ~Skipped
    <3>1. stepgen_position' = stepgen_position + Pending
      BY <1>4, <2>1, <2>2, <2>4 DEF ApplyCommands
    <3>2. Pending' = Pending - Pending
      BY <1>1, <2>2
    <3> QED
      BY <1>1, <3>1, <3>2
  <2> QED
    BY <2>3, <2>4
<1> QED
  BY <1>3, <1>4 DEF CleanHandle, HandleData

(* As long as no fault has happened every step keeps the books balanced.   *)
LEMMA BooksStep ==
    ASSUME BaseInv, TrustInv, BooksInv, [Next]_vars, faults' = 0
    PROVE  BooksInv'
<1>0. faults = 0
  BY FaultsStep DEF BaseInv
<1>1. ASSUME UNCHANGED <<enable, first_data, prev_pos, origin, skipped, stepgen_position>>,
             OnWire' = OnWire, Pending' = Pending,
             thread' \in {"exchange", "recv", "motion"} /\ ~enable => first_data
      PROVE  BooksInv'
  BY <1>1 DEF BooksInv
<1>2. CASE UNCHANGED vars
  <2>1. UNCHANGED <<halVars, fwVars, history>>
    BY <1>2 DEF vars
  <2> QED
    BY <1>1, <2>1 DEF halVars, halPins, halSteps, fwVars, history, OnWire, Pending, BooksInv
<1>3. CASE NewPeriod
  <2>1. /\ thread = "motion" /\ thread' \in {"watchdog", "send"}
        /\ UNCHANGED <<first_data, prev_pos, origin, skipped, stepgen_position>>
        /\ UNCHANGED <<core0, rx_frame>>
    BY <1>3, Core0Alone DEF NewPeriod, Motion, halSteps, history
  <2>2. OnWire = 0 /\ OnWire' = 0 /\ Pending' = Pending
    BY <2>1 DEF OnWire, Pending
  <2>3. enable' /\ ~first_data => enable
    BY <2>1 DEF BooksInv
  <2> QED
    BY <2>1, <2>2, <2>3 DEF BooksInv
<1>4. CASE Thread
  <2>1. UNCHANGED fwVars
    BY <1>4 DEF Thread
  <2>2. CASE SendFrame
    <3>1. SendBooked
      BY <1>4, <2>2 DEF Thread, SendFrame, WatchdogProcess, ProcessRecv, RecvExpired,
                        RecvBad, RecvGood
    <3> QED
      BY <1>0, <2>1, <2>2, <3>1, BooksSend
  <2>3. CASE ~SendFrame
    <3>1. /\ thread # "exchange" /\ thread' # "exchange"
          /\ UNCHANGED <<enable, first_data, prev_pos, origin, skipped>>
      BY <1>4, <2>3 DEF Thread, SendBooked, WatchdogProcess, ProcessSend, SendExpired,
                        SendNoWatchdog, ProcessRecv, RecvExpired, RecvBad, RecvGood,
                        halPins, halSteps, history
    <3>2. OnWire = 0 /\ OnWire' = 0 /\ Pending' = Pending /\ UNCHANGED stepgen_position
      BY <2>1, <3>1 DEF OnWire, Pending, fwVars
    <3>3. thread' \in {"exchange", "recv", "motion"} /\ ~enable => first_data
      <4>1. thread = "recv" => (~enable => first_data)
        BY DEF BooksInv
      <4>2. SendNoWatchdog => first_data
        BY DEF SendNoWatchdog, BaseInv, UnwatchedIsSilent
      <4>3. ~SendExpired
        BY DEF SendExpired, TrustInv
      <4> QED
        BY <1>4, <2>3, <4>1, <4>2, <4>3
           DEF Thread, SendBooked, WatchdogProcess, ProcessSend, ProcessRecv,
               RecvExpired, RecvBad, RecvGood
    <3> QED
      BY <1>1, <3>1, <3>2, <3>3
  <2> QED
    BY <2>2, <2>3
<1>5. CASE CleanTransfer
  <2>1. /\ thread = "exchange" /\ thread' = "recv"
        /\ core0 = "idle" /\ core0' = "check" /\ rx_frame' = tx_buffer
        /\ UNCHANGED <<enable, first_data, prev_pos, origin, skipped, stepgen_position>>
    BY <1>5 DEF CleanTransfer, Exchange, TakeFrame, halPins, halSteps, history
  <2>2. /\ OnWire = Signed(tx_buffer.word) /\ Pending = 0
        /\ OnWire' = 0 /\ Pending' = Signed(tx_buffer.word)
    BY <2>1, SameSteps DEF OnWire, Pending
  <2>3. Signed(tx_buffer.word) \in Int
    BY WayType
  <2>4. OnWire' + Pending' = OnWire + Pending
    BY <2>2, <2>3
  <2> QED
    BY <2>1, <2>4 DEF BooksInv
<1>6. CASE CleanHandle
  <2>1. /\ UNCHANGED <<thread, tx_buffer, enable, first_data, prev_pos, origin, skipped>>
    BY <1>6 DEF CleanHandle, halVars, halPins, halSteps, history
  <2>2. OnWire' = OnWire
    BY <2>1 DEF OnWire
  <2>3. PICK n \in Int : stepgen_position' = stepgen_position + n /\ Pending' = Pending - n
    BY <1>6, BooksHandle
  <2>4. /\ stepgen_position \in Int /\ Pending \in Int /\ OnWire \in Int
        /\ stepgen_position' \in Int /\ Pending' \in Int
    <3>1. StagedInv'
      BY StagedStep DEF BaseInv, Inv
    <3>2. Pending' \in Int
      BY <3>1, WordSteps DEF StagedInv, Pending
    <3> QED
      BY <3>1, <3>2, WayType DEF BaseInv, StagedInv
  <2>5. (stepgen_position' - origin) + (OnWire' + Pending') = (stepgen_position - origin) + (OnWire + Pending)
    <3>1. origin \in Int
      BY DEF BooksInv
    <3> QED
      BY <2>2, <2>3, <2>4, <3>1
  <2> QED
    BY <2>1, <2>5 DEF BooksInv
<1>7. CASE Device
  <2>1. /\ UNCHANGED <<thread, tx_buffer, enable, first_data, prev_pos, origin, skipped>>
        /\ UNCHANGED <<core0, rx_frame, stepgen_position>>
    BY <1>7, Core0Alone DEF Device, halVars, halPins, halSteps, history
  <2>2. OnWire' = OnWire /\ Pending' = Pending
    BY <2>1 DEF OnWire, Pending
  <2> QED
    BY <1>1, <2>1, <2>2 DEF BooksInv
<1> QED
  BY <1>2, <1>3, <1>4, <1>5, <1>6, <1>7, FaultFree DEF BaseInv

(* Without faults no step is lost or made up on the way from the command   *)
(* to the device's position, in every function of the thread and at every  *)
(* moment of the firmware: for any timing table, whatever the positions    *)
(* the axis is enabled at, and however late core 0 is with its frame.      *)
THEOREM CommandConserved ==
    ASSUME Positions = Int
    PROVE  Spec => []CommandIsConserved
<1>1. Init => BooksInv
  BY DEF Init, HalInit, BooksInv
<1>2. ASSUME BaseInv, faults = 0 => TrustInv, faults = 0 => BooksInv, [Next]_vars
      PROVE  (faults = 0 => BooksInv)'
  <2>1. faults' = 0 => faults = 0
    BY <1>2, FaultsStep DEF BaseInv
  <2> QED
    BY <1>2, <2>1, BooksStep
<1>3. BaseInv /\ (faults = 0 => BooksInv) => CommandIsConserved
  <2> SUFFICES ASSUME BaseInv, faults = 0, enable, ~first_data, BooksInv
               PROVE  prev_pos - skipped = (stepgen_position - origin) + OnWire + Pending
    BY DEF CommandIsConserved
  <2>1. stepgen_position \in Int /\ OnWire \in Int /\ Pending \in Int
    BY WayType DEF BaseInv, StagedInv
  <2> QED
    BY <2>1 DEF BooksInv
<1> QED
  BY <1>1, <1>2, <1>3, BaseInvariance, Trusting, PTL DEF Spec

(* Driver and motor, end to end: what was commanded since the axis was     *)
(* enabled is what the motor has moved, what the PIO and the FIFO still    *)
(* hold, what core 1's patches dropped, and what is on its way.            *)
CommandReachesMotor ==
    (faults = 0 /\ enable /\ ~first_data) =>
        prev_pos - skipped =
            ((motor + Towards(osr.sign, steps_left) + Queued + aborted) - origin) + OnWire + Pending

(* Follows from the two accounts, of the commands and of the steps.        *)
THEOREM EndToEnd ==
    ASSUME Positions = Int
    PROVE  Spec => []CommandReachesMotor
<1>1. CommandIsConserved /\ StepsAreAccountedFor => CommandReachesMotor
  BY DEF CommandIsConserved, StepsAreAccountedFor, CommandReachesMotor
<1> QED
  BY <1>1, CommandConserved, StepsAccounted, PTL

================================================================================
