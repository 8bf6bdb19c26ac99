--------------------------------- MODULE StepRing ---------------------------------
(***************************************************************************)
(* The step ring buffer of firmware/src/main.c (use_timer_interrupt == 1;  *)
(* it is 0 in the configuration as shipped).  Core 0 puts the step         *)
(* commands of each frame that passed the checksum into the ring; the      *)
(* interrupt of a hardware alarm, on core 0 too, takes one frame out per   *)
(* period; core 1 stops the timer and empties the ring when it takes the   *)
(* link to have timed out, which it may do at any moment (Firmware!        *)
(* TakeFrame says how).  A core masks its own interrupts only, so that     *)
(* core 0 and core 1 are interleaved at every access to what they share.   *)
(*                                                                         *)
(* A frame is its number.  What becomes of the words handed out is         *)
(* Firmware!ApplyCommands; the length of the period is left out: the alarm *)
(* may go off at any time after it was set.  The status bits of the reply  *)
(* (underflow, overflow) are only shown to the operator and left out.      *)
(***************************************************************************)
EXTENDS Naturals, Sequences

CONSTANTS
    Slots,     \* STEP_RING_BUFFER_SIZE
    Wrap,      \* values of the uint8_t step_ring_count (256)
    Numbers    \* frames are numbered modulo Numbers

ASSUME SlotsAssumption   == Slots \in Nat \ {0} /\ Wrap \in Nat /\ Wrap > Slots
ASSUME NumbersAssumption == Numbers \in Nat /\ Numbers > Slots

VARIABLES
    ring,            \* step_command_ring
    head, tail, count,
    timer_started,
    claimed,         \* alarm_num >= 0
    hooked,          \* the alarm calls timer_callback()
    armed,           \* the alarm has a target
    core0,           \* where enqueue_stepgen_commands() and arm_step_timer() are
    core0_load,      \* the head or count core 0 has loaded
    isr,             \* where timer_callback() is
    isr_load,        \* the tail or count it has loaded
    core1,           \* where stop_timer() is
    latest,          \* history: the last frame put into the ring
    served,          \* history: the last frame taken out
    torn,            \* history: has core 1's reset run into core 0?
    whole,           \* history: the reset going on has not
    astray           \* history: was the timer left without its alarm?

indices  == <<head, tail, count>>
timer    == <<timer_started, claimed, hooked, armed>>
core0Pc  == <<core0, core0_load>>
isrPc    == <<isr, isr_load>>
frames   == <<latest, served>>
history  == <<frames, torn, whole, astray>>
ringVars == <<ring, indices, timer, core0Pc, isrPc, core1, history>>

After(frame) == (frame + 1) % Numbers

(* Mutant: the end of the ring is not its beginning.                       *)
Next_NoWrap(slot) == slot + 1

Next(slot) == (slot + 1) % Slots

RingInit ==
    /\ ring = [slot \in 0 .. Slots - 1 |-> 0]
    /\ head = 0 /\ tail = 0 /\ count = 0
    /\ timer_started = FALSE
    /\ claimed = FALSE /\ hooked = FALSE /\ armed = FALSE
    /\ core0 = "idle" /\ core0_load = 0
    /\ isr = "none" /\ isr_load = 0
    /\ core1 = "watch"
    /\ latest = 0 /\ served = 0
    /\ torn = FALSE /\ whole = FALSE /\ astray = FALSE

(* The interrupt suspends the main loop of core 0, which masks it while it *)
(* is at the ring.                                                         *)
Core0Runs == isr = "none"
Masked    == core0 \in {"slot", "head", "head_store", "count", "count_store", "test"}

(* Core 0 and core 1 run into one another when core 1 writes an index or   *)
(* the count while core 0 has begun to put a frame in or to take one out,  *)
(* or core 0 begins to while core 1 has written some of them.              *)
AtRing    == \/ core0 \in {"head", "head_store", "count", "count_store"}
             \/ isr \in {"take", "tail", "tail_store", "count", "count_store"}
Resetting == core1 \in {"tail", "count"}

RunInto == torn' = TRUE /\ whole' = FALSE

AlarmSet == claimed /\ hooked /\ armed

--------------------------------------------------------------------------------
(***************************************************************************)
(* Core 0: enqueue_stepgen_commands() and arm_step_timer().                *)
(***************************************************************************)
(* Mutant: room is looked for one slot too late.                           *)
EnqueueCheck_OneMore ==
    /\ Core0Runs
    /\ core0 = "idle"
    /\ count <= Slots
    /\ core0' = "slot"
    /\ UNCHANGED <<ring, indices, timer, core0_load, isrPc, core1, history>>

(* A frame; when the ring is full it is dropped.                           *)
EnqueueCheck ==
    /\ Core0Runs
    /\ core0 = "idle"
    /\ count < Slots
    /\ core0' = "slot"
    /\ UNCHANGED <<ring, indices, timer, core0_load, isrPc, core1, history>>

EnqueueSlot ==
    /\ core0 = "slot"
    /\ ring' = [ring EXCEPT ![head] = After(latest)]
    /\ core0' = "head"
    /\ IF Resetting THEN RunInto ELSE UNCHANGED <<torn, whole>>
    /\ UNCHANGED <<indices, timer, core0_load, isrPc, core1, frames, astray>>

EnqueueHead ==
    /\ \/ /\ core0 = "head"
          /\ core0' = "head_store"
          /\ core0_load' = head
          /\ UNCHANGED head
       \/ /\ core0 = "head_store"
          /\ core0' = "count"
          /\ core0_load' = 0
          /\ head' = Next(core0_load)
    /\ UNCHANGED <<ring, tail, count, timer, isrPc, core1, history>>

EnqueueCount ==
    /\ \/ /\ core0 = "count"
          /\ core0' = "count_store"
          /\ core0_load' = count
          /\ UNCHANGED <<count, latest>>
       \/ /\ core0 = "count_store"
          /\ core0' = "test"
          /\ core0_load' = 0
          /\ count' = (core0_load + 1) % Wrap
          /\ latest' = After(latest)
    /\ UNCHANGED <<ring, head, tail, timer, isrPc, core1, served, torn, whole, astray>>

(* Mutant: the timer is taken to run once an alarm was claimed for it.     *)
EnqueueTest_StartsOnce ==
    /\ core0 = "test"
    /\ core0' = IF ~claimed /\ count = Slots THEN "claim" ELSE "idle"
    /\ UNCHANGED <<ring, indices, timer, core0_load, isrPc, core1, history>>

(* The frame that fills the ring starts the timer.                         *)
EnqueueTest ==
    /\ core0 = "test"
    /\ core0' = IF ~timer_started /\ count = Slots THEN "claim" ELSE "idle"
    /\ UNCHANGED <<ring, indices, timer, core0_load, isrPc, core1, history>>

(* The alarm claimed before is used again; else a free one is claimed, if  *)
(* there is one.                                                           *)
ArmClaim ==
    /\ Core0Runs
    /\ core0 = "claim"
    /\ \/ claimed /\ core0' = "target" /\ UNCHANGED <<claimed, astray>>
       \/ ~claimed /\ claimed' = TRUE /\ core0' = "hook" /\ UNCHANGED astray
       \/ ~claimed /\ core0' = "idle" /\ astray' = TRUE /\ UNCHANGED claimed
    /\ UNCHANGED <<ring, indices, timer_started, hooked, armed, core0_load, isrPc,
                   core1, frames, torn, whole>>

(* alarm_num is read again for each call.  When core 1 has given the alarm *)
(* up in between, the call is for an alarm that does not exist.            *)
ArmHook ==
    /\ Core0Runs
    /\ core0 = "hook"
    /\ core0' = "target"
    /\ hooked' = (hooked \/ claimed)
    /\ UNCHANGED <<ring, indices, timer_started, claimed, armed, core0_load, isrPc,
                   core1, history>>

(* A target that has gone by sets no alarm; nobody looks at the result.    *)
ArmTarget ==
    /\ Core0Runs
    /\ core0 = "target"
    /\ core0' = "flag"
    /\ armed' \in IF claimed THEN BOOLEAN ELSE {armed}
    /\ UNCHANGED <<ring, indices, timer_started, claimed, hooked, core0_load, isrPc,
                   core1, history>>

ArmFlag ==
    /\ Core0Runs
    /\ core0 = "flag"
    /\ core0' = "idle"
    /\ timer_started' = TRUE
    /\ astray' = ~AlarmSet
    /\ UNCHANGED <<ring, indices, claimed, hooked, armed, core0_load, isrPc, core1,
                   frames, torn, whole>>

Core0 == \/ EnqueueCheck \/ EnqueueSlot \/ EnqueueHead \/ EnqueueCount \/ EnqueueTest
         \/ ArmClaim \/ ArmHook \/ ArmTarget \/ ArmFlag

--------------------------------------------------------------------------------
(***************************************************************************)
(* The interrupt: timer_callback().                                        *)
(***************************************************************************)
(* Mutant: enqueue_stepgen_commands() does not mask interrupts.            *)
AlarmFires_Unmasked ==
    /\ armed /\ hooked
    /\ isr = "none"
    /\ armed' = FALSE
    /\ isr' = "check"
    /\ UNCHANGED <<ring, indices, timer_started, claimed, hooked, core0Pc, isr_load,
                   core1, history>>

AlarmFires ==
    /\ armed /\ hooked
    /\ isr = "none"
    /\ ~Masked
    /\ armed' = FALSE
    /\ isr' = "check"
    /\ UNCHANGED <<ring, indices, timer_started, claimed, hooked, core0Pc, isr_load,
                   core1, history>>

(* An alarm that was given up does nothing.                                *)
AlarmCheck ==
    /\ isr = "check"
    /\ isr' = IF claimed THEN "look" ELSE "none"
    /\ UNCHANGED <<ring, indices, timer, core0Pc, isr_load, core1, history>>

AlarmUnderflow ==
    /\ isr = "look"
    /\ count = 0
    /\ armed' = FALSE
    /\ timer_started' = FALSE
    /\ isr' = "none"
    /\ UNCHANGED <<ring, indices, claimed, hooked, core0Pc, isr_load, core1, history>>

AlarmLook ==
    /\ isr = "look"
    /\ count > 0
    /\ isr' = "take"
    /\ IF Resetting THEN RunInto ELSE UNCHANGED <<torn, whole>>
    /\ UNCHANGED <<ring, indices, timer, core0Pc, isr_load, core1, frames, astray>>

AlarmTake ==
    /\ isr = "take"
    /\ isr' = "tail"
    /\ served' = ring[tail]
    /\ UNCHANGED <<ring, indices, timer, core0Pc, isr_load, core1, latest, torn,
                   whole, astray>>

AlarmTail ==
    /\ \/ /\ isr = "tail"
          /\ isr' = "tail_store"
          /\ isr_load' = tail
          /\ UNCHANGED tail
       \/ /\ isr = "tail_store"
          /\ isr' = "count"
          /\ isr_load' = 0
          /\ tail' = Next(isr_load)
    /\ UNCHANGED <<ring, head, count, timer, core0Pc, core1, history>>

AlarmCount ==
    /\ \/ /\ isr = "count"
          /\ isr' = "count_store"
          /\ isr_load' = count
          /\ UNCHANGED count
       \/ /\ isr = "count_store"
          /\ isr' = "rearm"
          /\ isr_load' = 0
          /\ count' = (isr_load + Wrap - 1) % Wrap
    /\ UNCHANGED <<ring, head, tail, timer, core0Pc, core1, history>>

(* Mutant: the alarm is set again only while frames are waiting.           *)
AlarmRearm_IfWaiting ==
    /\ isr = "rearm"
    /\ isr' = "none"
    /\ armed' = (count > 0)
    /\ UNCHANGED <<ring, indices, timer_started, claimed, hooked, core0Pc, isr_load,
                   core1, history>>

AlarmRearm ==
    /\ isr = "rearm"
    /\ isr' = "none"
    /\ \/ armed' = TRUE /\ UNCHANGED astray
       \/ armed' = FALSE /\ astray' = (astray \/ timer_started)
    /\ UNCHANGED <<ring, indices, timer_started, claimed, hooked, core0Pc, isr_load,
                   core1, frames, torn, whole>>

Isr == \/ AlarmCheck \/ AlarmUnderflow \/ AlarmLook \/ AlarmTake \/ AlarmTail
       \/ AlarmCount \/ AlarmRearm

--------------------------------------------------------------------------------
(***************************************************************************)
(* Core 1: stop_timer() and reset_step_ring_buffer(), at any moment.       *)
(***************************************************************************)
StopAlarm ==
    /\ core1 = "watch"
    /\ IF claimed
       THEN armed' = FALSE /\ hooked' = FALSE /\ core1' = "number"
       ELSE core1' = "flag" /\ UNCHANGED <<armed, hooked>>
    /\ UNCHANGED <<ring, indices, timer_started, claimed, core0Pc, isrPc, history>>

StopNumber ==
    /\ core1 = "number"
    /\ core1' = "flag"
    /\ claimed' = FALSE
    /\ UNCHANGED <<ring, indices, timer_started, hooked, armed, core0Pc, isrPc, history>>

(* Mutant: the timer still counts as started.                              *)
StopFlag_Keeps ==
    /\ core1 = "flag"
    /\ core1' = "head"
    /\ UNCHANGED <<ring, indices, timer, core0Pc, isrPc, history>>

StopFlag ==
    /\ core1 = "flag"
    /\ core1' = "head"
    /\ timer_started' = FALSE
    /\ astray' = FALSE
    /\ UNCHANGED <<ring, indices, claimed, hooked, armed, core0Pc, isrPc, frames, torn,
                   whole>>

ResetHead ==
    /\ core1 = "head"
    /\ core1' = "tail"
    /\ head' = 0
    /\ whole' = ~AtRing
    /\ torn' = (torn \/ AtRing)
    /\ UNCHANGED <<ring, tail, count, timer, core0Pc, isrPc, frames, astray>>

ResetTail ==
    /\ core1 = "tail"
    /\ core1' = "count"
    /\ tail' = 0
    /\ UNCHANGED <<ring, head, count, timer, core0Pc, isrPc, history>>

ResetCount ==
    /\ core1 = "count"
    /\ core1' = "watch"
    /\ count' = 0
    /\ torn' = ~whole
    /\ whole' = FALSE
    /\ UNCHANGED <<ring, head, tail, timer, core0Pc, isrPc, frames, astray>>

Core1 == \/ StopAlarm \/ StopNumber \/ StopFlag \/ ResetHead \/ ResetTail \/ ResetCount

--------------------------------------------------------------------------------
RingNext == Core0 \/ AlarmFires \/ Isr \/ Core1

RingSpec == RingInit /\ [][RingNext]_ringVars

(* The cores execute what they have begun, and a pending alarm interrupt   *)
(* is taken as soon as core 0 unmasks it.                                  *)
FairRingSpec ==
    /\ RingSpec
    /\ WF_ringVars(Core0 /\ core0 # "idle")
    /\ SF_ringVars(AlarmFires)
    /\ WF_ringVars(Isr)
    /\ WF_ringVars(Core1 /\ core1 # "watch")

--------------------------------------------------------------------------------
(* The frames in the ring, oldest first: the one the interrupt has taken   *)
(* is still counted until it stores the count, and the ring is empty as    *)
(* soon as core 1 has reset the indices.                                   *)
First == IF isr \in {"tail", "tail_store"} THEN Next(tail) ELSE tail

Held ==
    IF core1 = "count" THEN 0
    ELSE IF isr \in {"tail", "tail_store", "count", "count_store"} THEN count - 1
    ELSE count

Waiting == [i \in 1 .. Held |-> ring[(First + i - 1) % Slots]]

Queue == INSTANCE StepQueue WITH waiting <- Waiting

(* "3-slot step ring buffer" (config.h:224): count, from which head and    *)
(* tail are the two ends, says no more than the ring can hold, unless core *)
(* 1's reset and core 0 have run into one another.                         *)
CountFits == ~torn => count <= Slots

(* Frames leave the ring in the order they came in, each at most once, and *)
(* none from before the link was last given up, unless core 1's reset and  *)
(* core 0 have run into one another; the next reset that finds core 0 away *)
(* from the ring makes it whole again.                                     *)
ImplementsStepQueue == Queue!QueueSpec

(* A timer that counts as started has its alarm set, or its interrupt is   *)
(* running, or core 1 is about to stop it: else no frame would ever be     *)
(* taken out, and none start it.  It is left without its alarm in two ways *)
(* only: the target had gone by when it was set, or core 1 stopped the     *)
(* timer while core 0 was starting it.                                     *)
StartedTimerIsArmed ==
    (timer_started /\ ~astray) =>
        AlarmSet \/ isr # "none" \/ core1 \in {"number", "flag"}

(* A full ring has its timer running or about to: else every later frame   *)
(* would find it full, and only the frame that fills it starts the timer.  *)
(* It is left without one only when no alarm was free or one went astray.  *)
FullRingIsServed ==
    (count >= Slots /\ ~astray /\ ~torn) =>
        \/ timer_started
        \/ core0 \in {"test", "claim", "hook", "target", "flag"}
        \/ core1 # "watch"

(* Once the timer runs, every frame in the ring gets out of it, unless the *)
(* alarm goes astray or the ring is torn.                                  *)
WaitingFramesLeave ==
    \A frame \in 0 .. Numbers - 1 :
        (timer_started /\ Waiting # << >> /\ Waiting[1] = frame)
            ~> (torn \/ astray \/ Waiting = << >> \/ Waiting[1] # frame)

(* Every variable has its type.                                            *)
RingTypeOK ==
    /\ ring \in [0 .. Slots - 1 -> 0 .. Numbers - 1]
    /\ head \in 0 .. Slots - 1
    /\ tail \in 0 .. Slots - 1
    /\ count \in 0 .. Wrap - 1
    /\ timer_started \in BOOLEAN
    /\ claimed \in BOOLEAN
    /\ hooked \in BOOLEAN
    /\ armed \in BOOLEAN
    /\ core0 \in {"idle", "slot", "head", "head_store", "count", "count_store", "test",
                  "claim", "hook", "target", "flag"}
    /\ core0_load \in 0 .. Wrap - 1
    /\ isr \in {"none", "check", "look", "take", "tail", "tail_store", "count",
                "count_store", "rearm"}
    /\ isr_load \in 0 .. Wrap - 1
    /\ core1 \in {"watch", "number", "flag", "head", "tail", "count"}
    /\ latest \in 0 .. Numbers - 1
    /\ served \in 0 .. Numbers - 1
    /\ torn \in BOOLEAN
    /\ whole \in BOOLEAN
    /\ astray \in BOOLEAN
================================================================================
