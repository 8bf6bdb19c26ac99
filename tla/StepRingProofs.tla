------------------------------ MODULE StepRingProofs ------------------------------
(***************************************************************************)
(* Theorems about the step ring buffer, for every size of the ring, width  *)
(* of its counter and number of frames, and whenever core 1 stops the      *)
(* timer and empties the ring.                                             *)
(***************************************************************************)
EXTENDS StepRing, SequenceTheorems, TLAPS

USE SlotsAssumption, NumbersAssumption

(***************************************************************************)
(* What timer_started and the alarm say of one another.  Core 1 gives the  *)
(* alarm up in three steps, and core 0 may set it up in between; only core *)
(* 0 sets timer_started, so that it is clear on the way there.             *)
(***************************************************************************)
TimerInv ==
    /\ core1 = "number" => claimed
    /\ claimed /\ ~hooked => core0 = "hook" \/ core1 = "number"
    /\ timer_started /\ ~claimed => astray \/ core1 = "flag"
    /\ core0 \in {"claim", "hook", "target", "flag"} => ~timer_started
    /\ StartedTimerIsArmed

(***************************************************************************)
(* Who is where: the interrupt is kept out while core 0 is at the ring,    *)
(* and a reset that has run into nobody finds nobody at the ring.          *)
(***************************************************************************)
ResetInv ==
    /\ Masked => isr = "none"
    /\ whole => Resetting
    /\ Resetting /\ ~torn => whole
    /\ whole => ~AtRing
    /\ whole => head = 0
    /\ whole /\ core1 = "count" => tail = 0

(***************************************************************************)
(* The count: core 0 has room for what it puts in, the interrupt has a     *)
(* frame to take out, and a count that was loaded is still the count when  *)
(* it is stored.                                                           *)
(***************************************************************************)
LoadInv ==
    /\ CountFits
    /\ core0 \in {"slot", "head", "head_store", "count"} => count < Slots
    /\ core0 = "count_store" /\ ~torn => count < Slots /\ core0_load = count
    /\ isr \in {"take", "tail", "tail_store", "count", "count_store"} /\ ~torn
          => count > 0
    /\ isr = "count_store" /\ ~torn => isr_load = count

RingInv == RingTypeOK /\ TimerInv /\ ResetInv /\ LoadInv /\ FullRingIsServed

--------------------------------------------------------------------------------
(* The end of the ring is its beginning: a slot is followed by a slot, and *)
(* a frame number by a frame number.                                       *)
LEMMA ModuloTypes ==
    /\ \A slot \in 0 .. Wrap - 1 : Next(slot) \in 0 .. Slots - 1
    /\ \A frame \in 0 .. Numbers - 1 : After(frame) \in 0 .. Numbers - 1
    /\ \A n \in 0 .. Wrap - 1 : /\ (n + 1) % Wrap \in 0 .. Wrap - 1
                                /\ (n + Wrap - 1) % Wrap \in 0 .. Wrap - 1
BY DEF Next, After

(* What the two stores of the counter put into it while it has room.       *)
LEMMA CounterArithmetic ==
    /\ \A n \in 0 .. Wrap - 1 : n < Slots => (n + 1) % Wrap = n + 1
    /\ \A n \in 0 .. Wrap - 1 : n > 0 => (n + Wrap - 1) % Wrap = n - 1
<1>1. ASSUME NEW n \in 0 .. Wrap - 1, n < Slots
      PROVE  (n + 1) % Wrap = n + 1
  BY <1>1
<1>2. ASSUME NEW n \in 0 .. Wrap - 1, n > 0
      PROVE  (n + Wrap - 1) % Wrap = n - 1
  <2>1. n + Wrap - 1 = Wrap + (n - 1) /\ n - 1 \in 0 .. Wrap - 1
    BY <1>2
  <2>2. (Wrap + (n - 1)) % Wrap = n - 1
    BY <2>1
  <2> QED
    BY <2>1, <2>2
<1> QED
  BY <1>1, <1>2

(* The types in three parts: numbers, flags, and places in the code.        *)
NumberTypes ==
    /\ ring \in [0 .. Slots - 1 -> 0 .. Numbers - 1]
    /\ head \in 0 .. Slots - 1 /\ tail \in 0 .. Slots - 1
    /\ count \in 0 .. Wrap - 1
    /\ core0_load \in 0 .. Wrap - 1 /\ isr_load \in 0 .. Wrap - 1
    /\ latest \in 0 .. Numbers - 1 /\ served \in 0 .. Numbers - 1

FlagTypes ==
    /\ timer_started \in BOOLEAN
    /\ claimed \in BOOLEAN
    /\ hooked \in BOOLEAN
    /\ armed \in BOOLEAN
    /\ torn \in BOOLEAN
    /\ whole \in BOOLEAN
    /\ astray \in BOOLEAN

PlaceTypes ==
    /\ core0 \in {"idle", "slot", "head", "head_store", "count", "count_store", "test",
                  "claim", "hook", "target", "flag"}
    /\ isr \in {"none", "check", "look", "take", "tail", "tail_store", "count",
                "count_store", "rearm"}
    /\ core1 \in {"watch", "number", "flag", "head", "tail", "count"}

LEMMA ThreeParts == RingTypeOK <=> NumberTypes /\ FlagTypes /\ PlaceTypes
BY Zenon DEF RingTypeOK, NumberTypes, FlagTypes, PlaceTypes

(* Indices stay in the ring, and counts in their width.                   *)
LEMMA NumberStep ==
    ASSUME NumberTypes, [RingNext]_ringVars
    PROVE  NumberTypes'
<1> USE DEF NumberTypes, indices, timer, core0Pc, isrPc, frames, history
<1>0. CASE UNCHANGED ringVars
  BY <1>0 DEF ringVars
<1>1. CASE EnqueueCheck
  BY <1>1 DEF EnqueueCheck
<1>2. CASE EnqueueSlot
  BY <1>2, ModuloTypes DEF EnqueueSlot
<1>3. CASE EnqueueHead
  <2>1. /\ head' \in 0 .. Slots - 1 /\ core0_load' \in 0 .. Wrap - 1
    <3>1. CASE core0 = "head"
      BY <1>3, <3>1 DEF EnqueueHead
    <3>2. CASE core0 = "head_store"
      BY <1>3, <3>2, ModuloTypes DEF EnqueueHead
    <3> QED
      BY <1>3, <3>1, <3>2 DEF EnqueueHead
  <2> QED
    BY <1>3, <2>1, Zenon DEF EnqueueHead
<1>4. CASE EnqueueCount
  <2>1. /\ count' \in 0 .. Wrap - 1 /\ core0_load' \in 0 .. Wrap - 1
        /\ latest' \in 0 .. Numbers - 1
    <3>1. CASE core0 = "count"
      BY <1>4, <3>1 DEF EnqueueCount
    <3>2. CASE core0 = "count_store"
      <4>1. count' = (core0_load + 1) % Wrap /\ core0_load' = 0 /\ latest' = After(latest)
        BY <1>4, <3>2 DEF EnqueueCount
      <4>2. (core0_load + 1) % Wrap \in 0 .. Wrap - 1 /\ 0 \in 0 .. Wrap - 1
        BY ModuloTypes
      <4>3. After(latest) \in 0 .. Numbers - 1
        BY ModuloTypes
      <4> QED
        BY <3>2, <4>1, <4>2, <4>3, Zenon
    <3> QED
      BY <1>4, <3>1, <3>2 DEF EnqueueCount
  <2> QED
    BY <1>4, <2>1, Zenon DEF EnqueueCount
<1>5. CASE EnqueueTest
  BY <1>5 DEF EnqueueTest
<1>6. CASE ArmClaim
  BY <1>6 DEF ArmClaim
<1>7. CASE ArmHook
  BY <1>7 DEF ArmHook
<1>8. CASE ArmTarget
  BY <1>8 DEF ArmTarget
<1>9. CASE ArmFlag
  BY <1>9 DEF ArmFlag
<1>10. CASE AlarmFires
  BY <1>10 DEF AlarmFires
<1>11. CASE AlarmCheck
  BY <1>11 DEF AlarmCheck
<1>12. CASE AlarmUnderflow
  BY <1>12 DEF AlarmUnderflow
<1>13. CASE AlarmLook
  BY <1>13 DEF AlarmLook
<1>14. CASE AlarmTake
  BY <1>14 DEF AlarmTake
<1>15. CASE AlarmTail
  <2>1. /\ tail' \in 0 .. Slots - 1 /\ isr_load' \in 0 .. Wrap - 1
    <3>1. CASE isr = "tail"
      BY <1>15, <3>1 DEF AlarmTail
    <3>2. CASE isr = "tail_store"
      BY <1>15, <3>2, ModuloTypes DEF AlarmTail
    <3> QED
      BY <1>15, <3>1, <3>2 DEF AlarmTail
  <2> QED
    BY <1>15, <2>1, Zenon DEF AlarmTail
<1>16. CASE AlarmCount
  <2>1. /\ count' \in 0 .. Wrap - 1 /\ isr_load' \in 0 .. Wrap - 1
    <3>1. CASE isr = "count"
      BY <1>16, <3>1 DEF AlarmCount
    <3>2. CASE isr = "count_store"
      <4>1. count' = (isr_load + Wrap - 1) % Wrap /\ isr_load' = 0
        BY <1>16, <3>2 DEF AlarmCount
      <4>2. (isr_load + Wrap - 1) % Wrap \in 0 .. Wrap - 1 /\ 0 \in 0 .. Wrap - 1
        <5>1. isr_load \in 0 .. Wrap - 1 /\ 0 \in 0 .. Wrap - 1
          OBVIOUS
        <5> QED
          BY <5>1, ModuloTypes, Zenon
      <4>3. After(latest) \in 0 .. Numbers - 1
        BY ModuloTypes
      <4> QED
        BY <3>2, <4>1, <4>2, <4>3, Zenon
    <3> QED
      BY <1>16, <3>1, <3>2 DEF AlarmCount
  <2> QED
    BY <1>16, <2>1, Zenon DEF AlarmCount
<1>17. CASE AlarmRearm
  BY <1>17 DEF AlarmRearm
<1>18. CASE StopAlarm
  BY <1>18 DEF StopAlarm
<1>19. CASE StopNumber
  BY <1>19 DEF StopNumber
<1>20. CASE StopFlag
  BY <1>20 DEF StopFlag
<1>21. CASE ResetHead
  BY <1>21 DEF ResetHead
<1>22. CASE ResetTail
  BY <1>22 DEF ResetTail
<1>23. CASE ResetCount
  BY <1>23 DEF ResetCount
<1> QED
  BY <1>0, <1>1, <1>2, <1>3, <1>4, <1>5, <1>6, <1>7, <1>8, <1>9, <1>10, <1>11,
     <1>12, <1>13, <1>14, <1>15, <1>16, <1>17, <1>18, <1>19, <1>20, <1>21, <1>22, <1>23
  DEF RingNext, Core0, Isr, Core1

(* Flags are flags.                                                        *)
LEMMA FlagStep ==
    ASSUME FlagTypes, [RingNext]_ringVars
    PROVE  FlagTypes'
<1> USE DEF FlagTypes, indices, timer, core0Pc, isrPc, frames, history
<1>0. CASE UNCHANGED ringVars
  BY <1>0, Zenon DEF ringVars
<1>1. CASE EnqueueCheck
  BY <1>1, Zenon DEF EnqueueCheck
<1>2. CASE EnqueueSlot
  BY <1>2, Zenon DEF EnqueueSlot, RunInto
<1>3. CASE EnqueueHead
  BY <1>3, Zenon DEF EnqueueHead
<1>4. CASE EnqueueCount
  BY <1>4, Zenon DEF EnqueueCount
<1>5. CASE EnqueueTest
  BY <1>5, Zenon DEF EnqueueTest
<1>6. CASE ArmClaim
  BY <1>6, Zenon DEF ArmClaim
<1>7. CASE ArmHook
  BY <1>7, Zenon DEF ArmHook
<1>8. CASE ArmTarget
  BY <1>8, Zenon DEF ArmTarget
<1>9. CASE ArmFlag
  BY <1>9, Zenon DEF ArmFlag, AlarmSet
<1>10. CASE AlarmFires
  BY <1>10, Zenon DEF AlarmFires
<1>11. CASE AlarmCheck
  BY <1>11, Zenon DEF AlarmCheck
<1>12. CASE AlarmUnderflow
  BY <1>12, Zenon DEF AlarmUnderflow
<1>13. CASE AlarmLook
  BY <1>13, Zenon DEF AlarmLook, RunInto
<1>14. CASE AlarmTake
  BY <1>14, Zenon DEF AlarmTake
<1>15. CASE AlarmTail
  BY <1>15, Zenon DEF AlarmTail
<1>16. CASE AlarmCount
  BY <1>16, Zenon DEF AlarmCount
<1>17. CASE AlarmRearm
  BY <1>17, Zenon DEF AlarmRearm
<1>18. CASE StopAlarm
  BY <1>18, Zenon DEF StopAlarm
<1>19. CASE StopNumber
  BY <1>19, Zenon DEF StopNumber
<1>20. CASE StopFlag
  BY <1>20, Zenon DEF StopFlag
<1>21. CASE ResetHead
  BY <1>21, Zenon DEF ResetHead, AtRing
<1>22. CASE ResetTail
  BY <1>22, Zenon DEF ResetTail
<1>23. CASE ResetCount
  BY <1>23, Zenon DEF ResetCount
<1> QED
  BY <1>0, <1>1, <1>2, <1>3, <1>4, <1>5, <1>6, <1>7, <1>8, <1>9, <1>10, <1>11,
     <1>12, <1>13, <1>14, <1>15, <1>16, <1>17, <1>18, <1>19, <1>20, <1>21, <1>22, <1>23
  DEF RingNext, Core0, Isr, Core1

(* Each actor is where its code goes on.                                   *)
LEMMA PlaceStep ==
    ASSUME PlaceTypes, [RingNext]_ringVars
    PROVE  PlaceTypes'
<1> USE DEF PlaceTypes, indices, timer, core0Pc, isrPc, frames, history
<1>0. CASE UNCHANGED ringVars
  BY <1>0 DEF ringVars
<1>1. CASE EnqueueCheck
  BY <1>1 DEF EnqueueCheck
<1>2. CASE EnqueueSlot
  BY <1>2 DEF EnqueueSlot
<1>3. CASE EnqueueHead
  BY <1>3 DEF EnqueueHead
<1>4. CASE EnqueueCount
  BY <1>4 DEF EnqueueCount
<1>5. CASE EnqueueTest
  BY <1>5 DEF EnqueueTest
<1>6. CASE ArmClaim
  BY <1>6 DEF ArmClaim
<1>7. CASE ArmHook
  BY <1>7 DEF ArmHook
<1>8. CASE ArmTarget
  BY <1>8 DEF ArmTarget
<1>9. CASE ArmFlag
  BY <1>9 DEF ArmFlag
<1>10. CASE AlarmFires
  BY <1>10 DEF AlarmFires
<1>11. CASE AlarmCheck
  BY <1>11 DEF AlarmCheck
<1>12. CASE AlarmUnderflow
  BY <1>12 DEF AlarmUnderflow
<1>13. CASE AlarmLook
  BY <1>13 DEF AlarmLook
<1>14. CASE AlarmTake
  BY <1>14 DEF AlarmTake
<1>15. CASE AlarmTail
  BY <1>15 DEF AlarmTail
<1>16. CASE AlarmCount
  BY <1>16 DEF AlarmCount
<1>17. CASE AlarmRearm
  BY <1>17 DEF AlarmRearm
<1>18. CASE StopAlarm
  BY <1>18 DEF StopAlarm
<1>19. CASE StopNumber
  BY <1>19 DEF StopNumber
<1>20. CASE StopFlag
  BY <1>20 DEF StopFlag
<1>21. CASE ResetHead
  BY <1>21 DEF ResetHead
<1>22. CASE ResetTail
  BY <1>22 DEF ResetTail
<1>23. CASE ResetCount
  BY <1>23 DEF ResetCount
<1> QED
  BY <1>0, <1>1, <1>2, <1>3, <1>4, <1>5, <1>6, <1>7, <1>8, <1>9, <1>10, <1>11,
     <1>12, <1>13, <1>14, <1>15, <1>16, <1>17, <1>18, <1>19, <1>20, <1>21, <1>22, <1>23
  DEF RingNext, Core0, Isr, Core1

LEMMA TypeStep ==
    ASSUME RingTypeOK, [RingNext]_ringVars
    PROVE  RingTypeOK'
<1>1. NumberTypes /\ FlagTypes /\ PlaceTypes
  BY ThreeParts
<1>2. NumberTypes' /\ FlagTypes' /\ PlaceTypes'
  BY <1>1, NumberStep, FlagStep, PlaceStep
<1> QED
  BY <1>2, Zenon DEF RingTypeOK, NumberTypes, FlagTypes, PlaceTypes

(* The flag and the alarm stay in step.                                    *)
LEMMA TimerStep ==
    ASSUME RingTypeOK, TimerInv, [RingNext]_ringVars
    PROVE  TimerInv'
<1> USE DEF TimerInv, StartedTimerIsArmed, AlarmSet, RingTypeOK, indices, timer, core0Pc,
            isrPc, frames, history
<1>0. CASE UNCHANGED ringVars
  BY <1>0 DEF ringVars
<1>1. CASE EnqueueCheck
  BY <1>1 DEF EnqueueCheck, Core0Runs
<1>2. CASE EnqueueSlot
  BY <1>2 DEF EnqueueSlot
<1>3. CASE EnqueueHead
  BY <1>3 DEF EnqueueHead
<1>4. CASE EnqueueCount
  BY <1>4 DEF EnqueueCount
<1>5. CASE EnqueueTest
  BY <1>5 DEF EnqueueTest
<1>6. CASE ArmClaim
  BY <1>6 DEF ArmClaim, Core0Runs
<1>7. CASE ArmHook
  BY <1>7 DEF ArmHook, Core0Runs
<1>8. CASE ArmTarget
  BY <1>8 DEF ArmTarget, Core0Runs
<1>9. CASE ArmFlag
  BY <1>9 DEF ArmFlag, Core0Runs
<1>10. CASE AlarmFires
  BY <1>10 DEF AlarmFires
<1>11. CASE AlarmCheck
  BY <1>11 DEF AlarmCheck
<1>12. CASE AlarmUnderflow
  BY <1>12 DEF AlarmUnderflow
<1>13. CASE AlarmLook
  BY <1>13 DEF AlarmLook
<1>14. CASE AlarmTake
  BY <1>14 DEF AlarmTake
<1>15. CASE AlarmTail
  BY <1>15 DEF AlarmTail
<1>16. CASE AlarmCount
  BY <1>16 DEF AlarmCount
<1>17. CASE AlarmRearm
  BY <1>17 DEF AlarmRearm
<1>18. CASE StopAlarm
  BY <1>18 DEF StopAlarm
<1>19. CASE StopNumber
  BY <1>19 DEF StopNumber
<1>20. CASE StopFlag
  BY <1>20 DEF StopFlag
<1>21. CASE ResetHead
  BY <1>21 DEF ResetHead
<1>22. CASE ResetTail
  BY <1>22 DEF ResetTail
<1>23. CASE ResetCount
  BY <1>23 DEF ResetCount
<1> QED
  BY <1>0, <1>1, <1>2, <1>3, <1>4, <1>5, <1>6, <1>7, <1>8, <1>9, <1>10, <1>11,
     <1>12, <1>13, <1>14, <1>15, <1>16, <1>17, <1>18, <1>19, <1>20, <1>21, <1>22, <1>23
  DEF RingNext, Core0, Isr, Core1

(* A reset that has run into nobody goes on so.                            *)
LEMMA ResetStep ==
    ASSUME RingTypeOK, ResetInv, [RingNext]_ringVars
    PROVE  ResetInv'
<1> USE DEF ResetInv, Masked, Resetting, AtRing, RunInto, RingTypeOK, indices, timer,
            core0Pc, isrPc, frames, history
<1>0. CASE UNCHANGED ringVars
  BY <1>0 DEF ringVars
<1>1. CASE EnqueueCheck
  BY <1>1 DEF EnqueueCheck, Core0Runs
<1>2. CASE EnqueueSlot
  BY <1>2 DEF EnqueueSlot
<1>3. CASE EnqueueHead
  BY <1>3 DEF EnqueueHead
<1>4. CASE EnqueueCount
  BY <1>4 DEF EnqueueCount
<1>5. CASE EnqueueTest
  BY <1>5 DEF EnqueueTest
<1>6. CASE ArmClaim
  BY <1>6 DEF ArmClaim, Core0Runs
<1>7. CASE ArmHook
  BY <1>7 DEF ArmHook, Core0Runs
<1>8. CASE ArmTarget
  BY <1>8 DEF ArmTarget, Core0Runs
<1>9. CASE ArmFlag
  BY <1>9 DEF ArmFlag, Core0Runs
<1>10. CASE AlarmFires
  BY <1>10 DEF AlarmFires, Masked
<1>11. CASE AlarmCheck
  BY <1>11 DEF AlarmCheck
<1>12. CASE AlarmUnderflow
  BY <1>12 DEF AlarmUnderflow
<1>13. CASE AlarmLook
  BY <1>13 DEF AlarmLook
<1>14. CASE AlarmTake
  BY <1>14 DEF AlarmTake
<1>15. CASE AlarmTail
  BY <1>15 DEF AlarmTail
<1>16. CASE AlarmCount
  BY <1>16 DEF AlarmCount
<1>17. CASE AlarmRearm
  BY <1>17 DEF AlarmRearm
<1>18. CASE StopAlarm
  BY <1>18 DEF StopAlarm
<1>19. CASE StopNumber
  BY <1>19 DEF StopNumber
<1>20. CASE StopFlag
  BY <1>20 DEF StopFlag
<1>21. CASE ResetHead
  BY <1>21 DEF ResetHead
<1>22. CASE ResetTail
  BY <1>22 DEF ResetTail
<1>23. CASE ResetCount
  BY <1>23 DEF ResetCount
<1> QED
  BY <1>0, <1>1, <1>2, <1>3, <1>4, <1>5, <1>6, <1>7, <1>8, <1>9, <1>10, <1>11,
     <1>12, <1>13, <1>14, <1>15, <1>16, <1>17, <1>18, <1>19, <1>20, <1>21, <1>22, <1>23
  DEF RingNext, Core0, Isr, Core1

(* What was loaded of the count is still true when it is stored.           *)
LEMMA LoadStep ==
    ASSUME RingTypeOK, ResetInv, LoadInv, [RingNext]_ringVars
    PROVE  LoadInv'
<1> USE DEF LoadInv, CountFits, ResetInv, Masked, Resetting, AtRing, RunInto, RingTypeOK,
            indices, timer, core0Pc, isrPc, frames, history
<1>0. CASE UNCHANGED ringVars
  BY <1>0 DEF ringVars
<1>1. CASE EnqueueCheck
  BY <1>1 DEF EnqueueCheck, Core0Runs
<1>2. CASE EnqueueSlot
  BY <1>2 DEF EnqueueSlot
<1>3. CASE EnqueueHead
  BY <1>3 DEF EnqueueHead
<1>4. CASE EnqueueCount
  BY <1>4, CounterArithmetic DEF EnqueueCount
<1>5. CASE EnqueueTest
  BY <1>5 DEF EnqueueTest
<1>6. CASE ArmClaim
  BY <1>6 DEF ArmClaim, Core0Runs
<1>7. CASE ArmHook
  BY <1>7 DEF ArmHook, Core0Runs
<1>8. CASE ArmTarget
  BY <1>8 DEF ArmTarget, Core0Runs
<1>9. CASE ArmFlag
  BY <1>9 DEF ArmFlag, Core0Runs
<1>10. CASE AlarmFires
  BY <1>10 DEF AlarmFires
<1>11. CASE AlarmCheck
  BY <1>11 DEF AlarmCheck
<1>12. CASE AlarmUnderflow
  BY <1>12 DEF AlarmUnderflow
<1>13. CASE AlarmLook
  BY <1>13 DEF AlarmLook
<1>14. CASE AlarmTake
  BY <1>14 DEF AlarmTake
<1>15. CASE AlarmTail
  BY <1>15 DEF AlarmTail
<1>16. CASE AlarmCount
  BY <1>16, CounterArithmetic DEF AlarmCount
<1>17. CASE AlarmRearm
  BY <1>17 DEF AlarmRearm
<1>18. CASE StopAlarm
  BY <1>18 DEF StopAlarm
<1>19. CASE StopNumber
  BY <1>19 DEF StopNumber
<1>20. CASE StopFlag
  BY <1>20 DEF StopFlag
<1>21. CASE ResetHead
  BY <1>21 DEF ResetHead
<1>22. CASE ResetTail
  BY <1>22 DEF ResetTail
<1>23. CASE ResetCount
  BY <1>23 DEF ResetCount
<1> QED
  BY <1>0, <1>1, <1>2, <1>3, <1>4, <1>5, <1>6, <1>7, <1>8, <1>9, <1>10, <1>11,
     <1>12, <1>13, <1>14, <1>15, <1>16, <1>17, <1>18, <1>19, <1>20, <1>21, <1>22, <1>23
  DEF RingNext, Core0, Isr, Core1

(* A full ring stays served.                                               *)
LEMMA FullStep ==
    ASSUME RingTypeOK, ResetInv, LoadInv, FullRingIsServed, [RingNext]_ringVars
    PROVE  FullRingIsServed'
<1> USE DEF FullRingIsServed, LoadInv, CountFits, ResetInv, Masked, Resetting, AtRing, RunInto,
            RingTypeOK, indices, timer, core0Pc, isrPc, frames, history
<1>0. CASE UNCHANGED ringVars
  BY <1>0 DEF ringVars
<1>1. CASE EnqueueCheck
  BY <1>1 DEF EnqueueCheck, Core0Runs
<1>2. CASE EnqueueSlot
  BY <1>2 DEF EnqueueSlot
<1>3. CASE EnqueueHead
  BY <1>3 DEF EnqueueHead
<1>4. CASE EnqueueCount
  BY <1>4, CounterArithmetic DEF EnqueueCount
<1>5. CASE EnqueueTest
  BY <1>5 DEF EnqueueTest
<1>6. CASE ArmClaim
  BY <1>6 DEF ArmClaim, Core0Runs
<1>7. CASE ArmHook
  BY <1>7 DEF ArmHook, Core0Runs
<1>8. CASE ArmTarget
  BY <1>8 DEF ArmTarget, Core0Runs
<1>9. CASE ArmFlag
  BY <1>9 DEF ArmFlag, Core0Runs
<1>10. CASE AlarmFires
  BY <1>10 DEF AlarmFires
<1>11. CASE AlarmCheck
  BY <1>11 DEF AlarmCheck
<1>12. CASE AlarmUnderflow
  BY <1>12 DEF AlarmUnderflow
<1>13. CASE AlarmLook
  BY <1>13 DEF AlarmLook
<1>14. CASE AlarmTake
  BY <1>14 DEF AlarmTake
<1>15. CASE AlarmTail
  BY <1>15 DEF AlarmTail
<1>16. CASE AlarmCount
  BY <1>16, CounterArithmetic DEF AlarmCount
<1>17. CASE AlarmRearm
  BY <1>17 DEF AlarmRearm
<1>18. CASE StopAlarm
  BY <1>18 DEF StopAlarm
<1>19. CASE StopNumber
  BY <1>19 DEF StopNumber
<1>20. CASE StopFlag
  BY <1>20 DEF StopFlag
<1>21. CASE ResetHead
  BY <1>21 DEF ResetHead
<1>22. CASE ResetTail
  BY <1>22 DEF ResetTail
<1>23. CASE ResetCount
  BY <1>23 DEF ResetCount
<1> QED
  BY <1>0, <1>1, <1>2, <1>3, <1>4, <1>5, <1>6, <1>7, <1>8, <1>9, <1>10, <1>11,
     <1>12, <1>13, <1>14, <1>15, <1>16, <1>17, <1>18, <1>19, <1>20, <1>21, <1>22, <1>23
  DEF RingNext, Core0, Isr, Core1

(* The firmware starts with an empty ring and no alarm.                    *)
LEMMA RingInitial == RingInit => RingInv
<1> SUFFICES ASSUME RingInit PROVE RingInv
  OBVIOUS
<1>1. RingTypeOK
  <2>1. /\ ring \in [0 .. Slots - 1 -> 0 .. Numbers - 1]
        /\ head \in 0 .. Slots - 1 /\ tail \in 0 .. Slots - 1
        /\ count \in 0 .. Wrap - 1
        /\ core0_load \in 0 .. Wrap - 1 /\ isr_load \in 0 .. Wrap - 1
        /\ latest \in 0 .. Numbers - 1 /\ served \in 0 .. Numbers - 1
    BY DEF RingInit
  <2> QED
    BY <2>1, Zenon DEF RingInit, RingTypeOK
<1>2. TimerInv /\ ResetInv
  BY DEF RingInit, TimerInv, StartedTimerIsArmed, ResetInv, Masked, Resetting
<1>3. LoadInv /\ FullRingIsServed
  BY DEF RingInit, LoadInv, CountFits, FullRingIsServed
<1> QED
  BY <1>1, <1>2, <1>3 DEF RingInv

(* All of it holds all the time.                                           *)
LEMMA RingInvariant == RingSpec => []RingInv
<1>1. RingInv /\ [RingNext]_ringVars => RingInv'
  BY TypeStep, TimerStep, ResetStep, LoadStep, FullStep DEF RingInv
<1> QED
  BY <1>1, RingInitial, PTL DEF RingSpec

--------------------------------------------------------------------------------
(* Every variable keeps its type, whenever the link times out.             *)
THEOREM RingTypes == RingSpec => []RingTypeOK
<1>1. RingInv => RingTypeOK
  BY DEF RingInv
<1> QED
  BY <1>1, RingInvariant, PTL

(* The count never says more than the ring has room for, unless core 1's   *)
(* reset has run into core 0.                                              *)
THEOREM RingCount == RingSpec => []CountFits
<1>1. RingInv => CountFits
  BY DEF RingInv, LoadInv
<1> QED
  BY <1>1, RingInvariant, PTL

(* A timer that counts as started has its alarm set, but for the two ways  *)
(* in which it goes astray; core 1 may stop it at any moment.              *)
THEOREM RingTimer == RingSpec => []StartedTimerIsArmed
<1>1. RingInv => StartedTimerIsArmed
  BY DEF RingInv, TimerInv
<1> QED
  BY <1>1, RingInvariant, PTL

(* A full ring has its timer running or about to.                          *)
THEOREM RingServed == RingSpec => []FullRingIsServed
<1>1. RingInv => FullRingIsServed
  BY DEF RingInv
<1> QED
  BY <1>1, RingInvariant, PTL

--------------------------------------------------------------------------------
(***************************************************************************)
(* The ring implements the queue.  The two indices are the ends of what is *)
(* counted, give or take the frame that is just being put in or taken out; *)
(* and the slot that is being counted in holds the newest frame.           *)
(***************************************************************************)
Counting == core0 \in {"count", "count_store"}

EndsInv ==
    ~torn =>
        /\ core0 = "head_store" => core0_load = head
        /\ isr = "tail_store" => isr_load = tail
        /\ core0 \in {"head", "head_store"} => ring[head] = After(latest)
        /\ Counting => ring[(First + Held) % Slots] = After(latest)
        /\ Counting /\ ~Resetting => head = (First + Held + 1) % Slots
        /\ ~Counting /\ ~Resetting => head = (First + Held) % Slots

(* The remainders that occur: an index is at most once past the end.       *)
LEMMA Remainders ==
    ASSUME NEW n \in 0 .. Slots + Slots - 1
    PROVE  n % Slots = IF n < Slots THEN n ELSE n - Slots
<1>1. CASE n < Slots
  BY <1>1
<1>2. CASE n >= Slots
  <2>1. n = Slots + (n - Slots) /\ n - Slots \in 0 .. Slots - 1
    BY <1>2
  <2> QED
    BY <2>1, <1>2
<1> QED
  BY <1>1, <1>2

(* Going on by one slot commutes with taking the remainder.                *)
LEMMA Successors ==
    ASSUME NEW from \in 0 .. Slots - 1, NEW n \in 0 .. Slots - 1
    PROVE  /\ Next((from + n) % Slots) = (from + n + 1) % Slots
           /\ (Next(from) + n) % Slots = (from + n + 1) % Slots
<1>1. from + n \in 0 .. Slots + Slots - 1 /\ from + n + 1 \in 0 .. Slots + Slots - 1
  OBVIOUS
<1>2. /\ (from + n) % Slots = IF from + n < Slots THEN from + n ELSE from + n - Slots
      /\ (from + n + 1) % Slots =
            IF from + n + 1 < Slots THEN from + n + 1 ELSE from + n + 1 - Slots
  BY <1>1, Remainders
<1>3. /\ Next((from + n) % Slots) =
            IF from + n + 1 = Slots \/ from + n + 1 = Slots + Slots
            THEN 0 ELSE ((from + n) % Slots) + 1
      /\ Next(from) = IF from + 1 = Slots THEN 0 ELSE from + 1
  <2>1. ((from + n) % Slots) + 1 \in 0 .. Slots + Slots - 1 \/ Slots = 1
    BY <1>2
  <2>2. \A slot \in 0 .. Slots - 1 :
          Next(slot) = IF slot + 1 = Slots THEN 0 ELSE slot + 1
    BY DEF Next
  <2>3. (from + n) % Slots \in 0 .. Slots - 1
    BY <1>2
  <2> QED
    BY <1>2, <2>2, <2>3
<1>4. (Next(from) + n) % Slots = (from + n + 1) % Slots
  <2>1. CASE from + 1 = Slots
    <3>1. Next(from) + n = n /\ n % Slots = n
      BY <2>1, <1>3
    <3>2. (from + n + 1) % Slots = n
      BY <2>1, <1>2
    <3> QED
      BY <3>1, <3>2, Zenon
  <2>2. CASE from + 1 # Slots
    <3>1. Next(from) + n = from + n + 1
      BY <2>2, <1>3
    <3> QED
      BY <3>1, Zenon
  <2> QED
    BY <2>1, <2>2
<1>5. Next((from + n) % Slots) = (from + n + 1) % Slots
  BY <1>2, <1>3
<1> QED
  BY <1>4, <1>5

(* What the invariants say where nobody has run into anybody.              *)
LEMMA Untorn ==
    ASSUME RingInv, ~torn
    PROVE  /\ First \in 0 .. Slots - 1 /\ Held \in 0 .. Slots
           /\ AtRing => ~Resetting
           /\ Masked => isr = "none"
           /\ core0 = "slot" => isr = "none" /\ count < Slots
           /\ core1 # "count" /\ isr \notin {"tail", "tail_store", "count", "count_store"}
                 => Held = count
           /\ isr \notin {"tail", "tail_store"} => First = tail
<1>1. head \in 0 .. Slots - 1 /\ tail \in 0 .. Slots - 1 /\ count \in 0 .. Wrap - 1
  BY DEF RingInv, RingTypeOK
<1>2. Next(tail) \in 0 .. Slots - 1
  BY <1>1, ModuloTypes
<1>3. First \in 0 .. Slots - 1
  BY <1>1, <1>2 DEF First
<1>4. /\ count <= Slots
      /\ isr \in {"tail", "tail_store", "count", "count_store"} => count > 0
  BY DEF RingInv, LoadInv, CountFits
<1>5. Held \in 0 .. Slots
  BY <1>1, <1>4 DEF Held
<1>6. (AtRing => ~Resetting) /\ (Masked => isr = "none")
  BY Zenon DEF RingInv, ResetInv
<1>7. core0 = "slot" => isr = "none" /\ count < Slots
  BY <1>6 DEF Masked, RingInv, LoadInv
<1> QED
  BY <1>1, <1>3, <1>5, <1>6, <1>7 DEF First, Held

(* A step that leaves the ends alone.                                      *)
LEMMA SameEnds ==
    ASSUME EndsInv, ~torn,
           UNCHANGED <<ring, head, latest>>, First' = First, Held' = Held,
           Counting' <=> Counting, Resetting' <=> Resetting,
           core0' \in {"head", "head_store"} => core0 \in {"head", "head_store"},
           core0' = "head_store" => core0_load' = head,
           isr' = "tail_store" => isr_load' = tail'
    PROVE  EndsInv'
BY DEF EndsInv

(* The ends stay where the count says.                                     *)
LEMMA EndsStep ==
    ASSUME RingInv, EndsInv, [RingNext]_ringVars, ~torn'
    PROVE  EndsInv'
<1> USE DEF indices, timer, core0Pc, isrPc, frames, history
<1>a. torn => ResetCount
  BY DEF RingNext, Core0, Isr, Core1, EnqueueCheck, EnqueueSlot, EnqueueHead,
         EnqueueCount, EnqueueTest, ArmClaim, ArmHook, ArmTarget, ArmFlag, AlarmFires,
         AlarmCheck, AlarmUnderflow, AlarmLook, AlarmTake, AlarmTail, AlarmCount,
         AlarmRearm, StopAlarm, StopNumber, StopFlag, ResetHead, ResetTail, RunInto,
         ringVars
<1>0. CASE UNCHANGED ringVars
  <2>1. UNCHANGED <<ring, indices, core0Pc, isrPc, core1, frames, torn>>
    BY <1>0 DEF ringVars
  <2> QED
    BY <2>1 DEF EndsInv, First, Held, Counting, Resetting, After, Next
<1>1. CASE EnqueueCheck
  <2>1. /\ UNCHANGED <<ring, head, tail, count, latest, core0_load, isr_load>>
        /\ First' = First /\ Held' = Held
        /\ (Counting' <=> Counting) /\ (Resetting' <=> Resetting)
        /\ core0' \notin {"head", "head_store"} \/ core0' = core0
        /\ isr' # "tail_store" \/ isr' = isr
    BY <1>1 DEF EnqueueCheck, Core0Runs, First, Held, Counting, Resetting
  <2>2. ~torn
    BY <1>1, <1>a DEF EnqueueCheck, ResetCount
  <2> QED
    BY <2>1, <2>2, SameEnds DEF EndsInv
<1>2. CASE EnqueueSlot
  <2>1. /\ core0 = "slot" /\ core0' = "head" /\ ~Resetting /\ ~torn
        /\ ring' = [ring EXCEPT ![head] = After(latest)]
        /\ UNCHANGED <<head, tail, count, latest, isr, core1>>
    BY <1>2, <1>a DEF EnqueueSlot, RunInto, ResetCount
  <2>2. isr = "none" /\ First' = First /\ Held' = Held /\ ~Counting /\ ~Counting'
    BY <2>1, Untorn DEF First, Held, Counting
  <2>3. ring'[head'] = After(latest')
    BY <2>1 DEF RingInv, RingTypeOK, After
  <2>4. head' = (First' + Held') % Slots
    BY <2>1, <2>2 DEF EndsInv
  <2> QED
    BY <2>1, <2>2, <2>3, <2>4 DEF EndsInv
<1>3. CASE EnqueueHead
  <2>0. ~torn /\ UNCHANGED <<ring, tail, count, latest, isr, isr_load, core1>>
    BY <1>3, <1>a DEF EnqueueHead, ResetCount
  <2>1. First' = First /\ Held' = Held /\ (Resetting' <=> Resetting)
    BY <2>0 DEF First, Held, Resetting
  <2>2. CASE core0 = "head"
    <3>1. core0' = "head_store" /\ core0_load' = head /\ UNCHANGED head
      BY <1>3, <2>2 DEF EnqueueHead
    <3>2. ~Counting /\ ~Counting'
      BY <2>2, <3>1 DEF Counting
    <3> QED
      BY <2>0, <2>1, <2>2, <3>1, <3>2, SameEnds DEF EndsInv
  <2>3. CASE core0 = "head_store"
    <3>1. core0' = "count" /\ head' = Next(core0_load) /\ ~Resetting /\ isr = "none"
      BY <1>3, <2>0, <2>3, Untorn DEF EnqueueHead, AtRing, Masked
    <3>2. /\ core0_load = head /\ ring[head] = After(latest)
          /\ head = (First + Held) % Slots
      BY <2>0, <2>3, <3>1 DEF EndsInv, Counting
    <3>3. First \in 0 .. Slots - 1 /\ Held \in 0 .. Slots - 1
      <4>1. core1 # "count" /\ count < Slots
        BY <2>3, <3>1 DEF Resetting, RingInv, LoadInv
      <4>2. Held = count /\ count \in 0 .. Wrap - 1
        BY <2>0, <3>1, <4>1, Untorn DEF RingInv, RingTypeOK
      <4> QED
        BY <2>0, <4>1, <4>2, Untorn
    <3>4. head' = (First + Held + 1) % Slots
      BY <3>1, <3>2, <3>3, Successors
    <3>5. ring'[(First' + Held') % Slots] = After(latest')
      BY <2>0, <2>1, <3>2 DEF After
    <3> QED
      BY <2>0, <2>1, <3>1, <3>4, <3>5 DEF EndsInv, Counting
  <2> QED
    BY <1>3, <2>2, <2>3 DEF EnqueueHead
<1>4. CASE EnqueueCount
  <2>0. ~torn /\ UNCHANGED <<ring, head, tail, isr, isr_load, core1>>
    BY <1>4, <1>a DEF EnqueueCount, ResetCount
  <2>1. First' = First /\ (Resetting' <=> Resetting)
    BY <2>0 DEF First, Resetting
  <2>2. CASE core0 = "count"
    <3>1. core0' = "count_store" /\ UNCHANGED <<count, latest>>
      BY <1>4, <2>2 DEF EnqueueCount
    <3>2. Held' = Held /\ Counting /\ Counting'
      BY <2>0, <2>2, <3>1 DEF Held, Counting
    <3> QED
      BY <2>0, <2>1, <2>2, <3>1, <3>2, SameEnds DEF EndsInv
  <2>3. CASE core0 = "count_store"
    <3>1. /\ core0' = "test" /\ count' = (core0_load + 1) % Wrap
          /\ ~Resetting /\ isr = "none"
      BY <1>4, <2>0, <2>3, Untorn DEF EnqueueCount, AtRing, Masked
    <3>2. core0_load = count /\ count < Slots /\ count \in 0 .. Wrap - 1
      BY <2>0, <2>3 DEF RingInv, LoadInv, RingTypeOK
    <3>3. count' = count + 1
      BY <3>1, <3>2, CounterArithmetic
    <3>4. Held = count /\ Held' = Held + 1 /\ First \in 0 .. Slots - 1
      <4>1. core1 # "count"
        BY <3>1 DEF Resetting
      <4>2. Held = count
        BY <2>0, <3>1, <4>1, Untorn
      <4>3. Held' = count'
        BY <2>0, <3>1, <4>1 DEF Held
      <4> QED
        BY <2>0, <3>3, <4>2, <4>3, Untorn
    <3>5. head = (First + Held + 1) % Slots
      BY <2>0, <2>3, <3>1 DEF EndsInv, Counting
    <3>6. First + Held + 1 = First + (Held + 1)
      BY <3>2, <3>4
    <3>7. head' = (First' + Held') % Slots
      BY <2>0, <2>1, <3>4, <3>5, <3>6, Zenon
    <3> QED
      BY <2>0, <2>1, <3>1, <3>7 DEF EndsInv, Counting
  <2> QED
    BY <1>4, <2>2, <2>3 DEF EnqueueCount
<1>5. CASE EnqueueTest
  <2>1. /\ UNCHANGED <<ring, head, tail, count, latest, core0_load, isr_load>>
        /\ First' = First /\ Held' = Held
        /\ (Counting' <=> Counting) /\ (Resetting' <=> Resetting)
        /\ core0' \notin {"head", "head_store"} \/ core0' = core0
        /\ isr' # "tail_store" \/ isr' = isr
    BY <1>5 DEF EnqueueTest, First, Held, Counting, Resetting
  <2>2. ~torn
    BY <1>5, <1>a DEF EnqueueTest, ResetCount
  <2> QED
    BY <2>1, <2>2, SameEnds DEF EndsInv
<1>6. CASE ArmClaim
  <2>1. /\ UNCHANGED <<ring, head, tail, count, latest, core0_load, isr_load>>
        /\ First' = First /\ Held' = Held
        /\ (Counting' <=> Counting) /\ (Resetting' <=> Resetting)
        /\ core0' \notin {"head", "head_store"} \/ core0' = core0
        /\ isr' # "tail_store" \/ isr' = isr
    BY <1>6 DEF ArmClaim, First, Held, Counting, Resetting
  <2>2. ~torn
    BY <1>6, <1>a DEF ArmClaim, ResetCount
  <2> QED
    BY <2>1, <2>2, SameEnds DEF EndsInv
<1>7. CASE ArmHook
  <2>1. /\ UNCHANGED <<ring, head, tail, count, latest, core0_load, isr_load>>
        /\ First' = First /\ Held' = Held
        /\ (Counting' <=> Counting) /\ (Resetting' <=> Resetting)
        /\ core0' \notin {"head", "head_store"} \/ core0' = core0
        /\ isr' # "tail_store" \/ isr' = isr
    BY <1>7 DEF ArmHook, First, Held, Counting, Resetting
  <2>2. ~torn
    BY <1>7, <1>a DEF ArmHook, ResetCount
  <2> QED
    BY <2>1, <2>2, SameEnds DEF EndsInv
<1>8. CASE ArmTarget
  <2>1. /\ UNCHANGED <<ring, head, tail, count, latest, core0_load, isr_load>>
        /\ First' = First /\ Held' = Held
        /\ (Counting' <=> Counting) /\ (Resetting' <=> Resetting)
        /\ core0' \notin {"head", "head_store"} \/ core0' = core0
        /\ isr' # "tail_store" \/ isr' = isr
    BY <1>8 DEF ArmTarget, First, Held, Counting, Resetting
  <2>2. ~torn
    BY <1>8, <1>a DEF ArmTarget, ResetCount
  <2> QED
    BY <2>1, <2>2, SameEnds DEF EndsInv
<1>9. CASE ArmFlag
  <2>1. /\ UNCHANGED <<ring, head, tail, count, latest, core0_load, isr_load>>
        /\ First' = First /\ Held' = Held
        /\ (Counting' <=> Counting) /\ (Resetting' <=> Resetting)
        /\ core0' \notin {"head", "head_store"} \/ core0' = core0
        /\ isr' # "tail_store" \/ isr' = isr
    BY <1>9 DEF ArmFlag, First, Held, Counting, Resetting
  <2>2. ~torn
    BY <1>9, <1>a DEF ArmFlag, ResetCount
  <2> QED
    BY <2>1, <2>2, SameEnds DEF EndsInv
<1>10. CASE AlarmFires
  <2>1. /\ UNCHANGED <<ring, head, tail, count, latest, core0_load, isr_load>>
        /\ First' = First /\ Held' = Held
        /\ (Counting' <=> Counting) /\ (Resetting' <=> Resetting)
        /\ core0' \notin {"head", "head_store"} \/ core0' = core0
        /\ isr' # "tail_store" \/ isr' = isr
    BY <1>10 DEF AlarmFires, First, Held, Counting, Resetting
  <2>2. ~torn
    BY <1>10, <1>a DEF AlarmFires, ResetCount
  <2> QED
    BY <2>1, <2>2, SameEnds DEF EndsInv
<1>11. CASE AlarmCheck
  <2>1. /\ UNCHANGED <<ring, head, tail, count, latest, core0_load, isr_load>>
        /\ First' = First /\ Held' = Held
        /\ (Counting' <=> Counting) /\ (Resetting' <=> Resetting)
        /\ core0' \notin {"head", "head_store"} \/ core0' = core0
        /\ isr' # "tail_store" \/ isr' = isr
    BY <1>11 DEF AlarmCheck, First, Held, Counting, Resetting
  <2>2. ~torn
    BY <1>11, <1>a DEF AlarmCheck, ResetCount
  <2> QED
    BY <2>1, <2>2, SameEnds DEF EndsInv
<1>12. CASE AlarmUnderflow
  <2>1. /\ UNCHANGED <<ring, head, tail, count, latest, core0_load, isr_load>>
        /\ First' = First /\ Held' = Held
        /\ (Counting' <=> Counting) /\ (Resetting' <=> Resetting)
        /\ core0' \notin {"head", "head_store"} \/ core0' = core0
        /\ isr' # "tail_store" \/ isr' = isr
    BY <1>12 DEF AlarmUnderflow, First, Held, Counting, Resetting
  <2>2. ~torn
    BY <1>12, <1>a DEF AlarmUnderflow, ResetCount
  <2> QED
    BY <2>1, <2>2, SameEnds DEF EndsInv
<1>13. CASE AlarmLook
  <2>1. /\ UNCHANGED <<ring, head, tail, count, latest, core0_load, isr_load>>
        /\ First' = First /\ Held' = Held
        /\ (Counting' <=> Counting) /\ (Resetting' <=> Resetting)
        /\ core0' \notin {"head", "head_store"} \/ core0' = core0
        /\ isr' # "tail_store" \/ isr' = isr
    BY <1>13 DEF AlarmLook, RunInto, First, Held, Counting, Resetting
  <2>2. ~torn
    BY <1>13, <1>a DEF AlarmLook, ResetCount
  <2> QED
    BY <2>1, <2>2, SameEnds DEF EndsInv
<1>14. CASE AlarmTake
  <2>1. /\ isr = "take" /\ isr' = "tail" /\ ~torn
        /\ UNCHANGED <<ring, head, tail, count, latest, core0, core0_load, core1>>
    BY <1>14, <1>a DEF AlarmTake, ResetCount
  <2>2. ~Resetting /\ ~Resetting' /\ ~Masked /\ core1 # "count"
    BY <2>1, Untorn DEF AtRing, Resetting
  <2>3. core0 \notin {"head", "head_store", "count", "count_store"}
    BY <2>2 DEF Masked
  <2>4. /\ First = tail /\ Held = count /\ First' = Next(tail) /\ Held' = count - 1
        /\ count - 1 \in 0 .. Slots - 1 /\ count \in 1 .. Slots
        /\ tail \in 0 .. Slots - 1
    <3>1. count > 0 /\ count <= Slots /\ count \in 0 .. Wrap - 1 /\ tail \in 0 .. Slots - 1
      BY <2>1 DEF RingInv, LoadInv, CountFits, RingTypeOK
    <3> QED
      BY <2>1, <2>2, <3>1 DEF First, Held, Next
  <2>5. head = (tail + count) % Slots
    BY <2>1, <2>2, <2>3, <2>4 DEF EndsInv, Counting
  <2>6. (Next(tail) + (count - 1)) % Slots = (tail + (count - 1) + 1) % Slots
    BY <2>4, Successors
  <2>7. tail + (count - 1) + 1 = tail + count
    BY <2>4
  <2>8. head' = (First' + Held') % Slots
    BY <2>1, <2>4, <2>5, <2>6, <2>7, Zenon
  <2> QED
    BY <2>1, <2>3, <2>8 DEF EndsInv, Counting
<1>15. CASE AlarmTail
  <2>0. ~torn /\ UNCHANGED <<ring, head, count, latest, core0, core0_load, core1>>
    BY <1>15, <1>a DEF AlarmTail, ResetCount
  <2>1. (Counting' <=> Counting) /\ (Resetting' <=> Resetting)
    BY <2>0 DEF Counting, Resetting
  <2>2. CASE isr = "tail"
    <3>1. isr' = "tail_store" /\ isr_load' = tail /\ UNCHANGED tail
      BY <1>15, <2>2 DEF AlarmTail
    <3>2. First' = First /\ Held' = Held
      BY <2>0, <2>2, <3>1 DEF First, Held, Next
    <3> QED
      BY <2>0, <2>1, <3>1, <3>2, SameEnds DEF EndsInv
  <2>3. CASE isr = "tail_store"
    <3>1. isr' = "count" /\ tail' = Next(isr_load)
      BY <1>15, <2>3 DEF AlarmTail
    <3>2. isr_load = tail
      BY <2>0, <2>3 DEF EndsInv
    <3>3. First' = First /\ Held' = Held
      BY <2>0, <2>3, <3>1, <3>2 DEF First, Held
    <3> QED
      BY <2>0, <2>1, <3>1, <3>3, SameEnds DEF EndsInv
  <2> QED
    BY <1>15, <2>2, <2>3 DEF AlarmTail
<1>16. CASE AlarmCount
  <2>0. ~torn /\ UNCHANGED <<ring, head, tail, latest, core0, core0_load, core1>>
    BY <1>16, <1>a DEF AlarmCount, ResetCount
  <2>1. (Counting' <=> Counting) /\ (Resetting' <=> Resetting)
    BY <2>0 DEF Counting, Resetting
  <2>2. First' = First /\ isr' # "tail_store"
    BY <1>16, <2>0 DEF AlarmCount, First
  <2>3. Held' = Held
    <3>1. CASE isr = "count"
      BY <1>16, <2>0, <3>1 DEF AlarmCount, Held
    <3>2. CASE isr = "count_store"
      <4>1. /\ count > 0 /\ isr_load = count /\ count \in 0 .. Wrap - 1
        BY <2>0, <3>2 DEF RingInv, LoadInv, RingTypeOK
      <4>2. count' = count - 1 /\ isr' = "rearm"
        BY <1>16, <3>2, <4>1, CounterArithmetic DEF AlarmCount
      <4> QED
        BY <2>0, <3>2, <4>2 DEF Held
    <3> QED
      BY <1>16, <3>1, <3>2 DEF AlarmCount
  <2> QED
    BY <2>0, <2>1, <2>2, <2>3, SameEnds DEF EndsInv
<1>17. CASE AlarmRearm
  <2>1. /\ UNCHANGED <<ring, head, tail, count, latest, core0_load, isr_load>>
        /\ First' = First /\ Held' = Held
        /\ (Counting' <=> Counting) /\ (Resetting' <=> Resetting)
        /\ core0' \notin {"head", "head_store"} \/ core0' = core0
        /\ isr' # "tail_store" \/ isr' = isr
    BY <1>17 DEF AlarmRearm, First, Held, Counting, Resetting
  <2>2. ~torn
    BY <1>17, <1>a DEF AlarmRearm, ResetCount
  <2> QED
    BY <2>1, <2>2, SameEnds DEF EndsInv
<1>18. CASE StopAlarm
  <2>1. /\ UNCHANGED <<ring, head, tail, count, latest, core0_load, isr_load>>
        /\ First' = First /\ Held' = Held
        /\ (Counting' <=> Counting) /\ (Resetting' <=> Resetting)
        /\ core0' \notin {"head", "head_store"} \/ core0' = core0
        /\ isr' # "tail_store" \/ isr' = isr
    BY <1>18 DEF StopAlarm, First, Held, Counting, Resetting
  <2>2. ~torn
    BY <1>18, <1>a DEF StopAlarm, ResetCount
  <2> QED
    BY <2>1, <2>2, SameEnds DEF EndsInv
<1>19. CASE StopNumber
  <2>1. /\ UNCHANGED <<ring, head, tail, count, latest, core0_load, isr_load>>
        /\ First' = First /\ Held' = Held
        /\ (Counting' <=> Counting) /\ (Resetting' <=> Resetting)
        /\ core0' \notin {"head", "head_store"} \/ core0' = core0
        /\ isr' # "tail_store" \/ isr' = isr
    BY <1>19 DEF StopNumber, First, Held, Counting, Resetting
  <2>2. ~torn
    BY <1>19, <1>a DEF StopNumber, ResetCount
  <2> QED
    BY <2>1, <2>2, SameEnds DEF EndsInv
<1>20. CASE StopFlag
  <2>1. /\ UNCHANGED <<ring, head, tail, count, latest, core0_load, isr_load>>
        /\ First' = First /\ Held' = Held
        /\ (Counting' <=> Counting) /\ (Resetting' <=> Resetting)
        /\ core0' \notin {"head", "head_store"} \/ core0' = core0
        /\ isr' # "tail_store" \/ isr' = isr
    BY <1>20 DEF StopFlag, First, Held, Counting, Resetting
  <2>2. ~torn
    BY <1>20, <1>a DEF StopFlag, ResetCount
  <2> QED
    BY <2>1, <2>2, SameEnds DEF EndsInv
<1>21. CASE ResetHead
  <2>1. core1' \in {"tail", "count"} /\ ~AtRing /\ UNCHANGED <<core0, isr>>
    BY <1>21, <1>a, Untorn DEF ResetHead, Resetting, ResetCount
  <2> QED
    BY <2>1 DEF EndsInv, AtRing, Counting, Resetting
<1>22. CASE ResetTail
  <2>1. core1' \in {"tail", "count"} /\ ~AtRing /\ UNCHANGED <<core0, isr>>
    BY <1>22, <1>a, Untorn DEF ResetTail, Resetting, ResetCount
  <2> QED
    BY <2>1 DEF EndsInv, AtRing, Counting, Resetting
<1>23. CASE ResetCount
  <2>1. /\ whole /\ core1 = "count" /\ core1' = "watch" /\ count' = 0
        /\ UNCHANGED <<head, tail, core0, isr>>
    BY <1>23 DEF ResetCount
  <2>2. ~AtRing /\ head = 0 /\ tail = 0
    BY <2>1 DEF RingInv, ResetInv
  <2>3. First' = 0 /\ Held' = 0 /\ ~Counting'
    BY <2>1, <2>2 DEF First, Held, Counting, AtRing
  <2>4. (0 + 0) % Slots = 0
    OBVIOUS
  <2>5. head' = (First' + Held') % Slots
    BY <2>1, <2>2, <2>3, <2>4, Zenon
  <2> QED
    BY <2>1, <2>2, <2>3, <2>5 DEF EndsInv, AtRing, Counting
<1> QED
  BY <1>0, <1>1, <1>2, <1>3, <1>4, <1>5, <1>6, <1>7, <1>8, <1>9, <1>10, <1>11,
     <1>12, <1>13, <1>14, <1>15, <1>16, <1>17, <1>18, <1>19, <1>20, <1>21, <1>22, <1>23
  DEF RingNext, Core0, Isr, Core1

(* The frames in the ring are a sequence of frame numbers.                 *)
LEMMA WaitingIsSequence ==
    ASSUME RingInv, ~torn
    PROVE  /\ Held \in 0 .. Slots
           /\ Waiting \in Seq(0 .. Numbers - 1)
           /\ Len(Waiting) = Held
<1>1. Held \in 0 .. Slots /\ First \in 0 .. Slots - 1
  BY Untorn
<1>2. \A i \in 1 .. Held : (First + i - 1) % Slots \in 0 .. Slots - 1
  BY <1>1
<1>3. ring \in [0 .. Slots - 1 -> 0 .. Numbers - 1]
  BY DEF RingInv, RingTypeOK
<1>4. Waiting \in [1 .. Held -> 0 .. Numbers - 1]
  BY <1>2, <1>3 DEF Waiting
<1> QED
  BY <1>1, <1>4

(* Append and Tail, element by element.                                    *)
LEMMA AppendElements ==
    ASSUME NEW S, NEW seq \in Seq(S), NEW elt \in S
    PROVE  Append(seq, elt) =
             [i \in 1 .. Len(seq) + 1 |->
                 IF i = Len(seq) + 1 THEN elt ELSE seq[i]]
<1> DEFINE longer == Append(seq, elt)
<1>1. /\ longer \in Seq(S) /\ Len(longer) = Len(seq) + 1
      /\ \A i \in 1 .. Len(seq) : longer[i] = seq[i]
      /\ longer[Len(seq) + 1] = elt
  BY AppendProperties
<1>2. Len(seq) \in Nat
  BY LenProperties
<1> HIDE DEF longer
<1>3. longer \in [1 .. Len(seq) + 1 -> S]
  BY <1>1, LenProperties
<1>4. \A i \in 1 .. Len(seq) + 1 :
        longer[i] = IF i = Len(seq) + 1 THEN elt ELSE seq[i]
  BY <1>1, <1>2
<1>5. longer = [i \in 1 .. Len(seq) + 1 |->
                  IF i = Len(seq) + 1 THEN elt ELSE seq[i]]
  BY <1>3, <1>4
<1> QED
  BY <1>5 DEF longer

LEMMA TailElements ==
    ASSUME NEW S, NEW seq \in Seq(S), seq # << >>
    PROVE  Tail(seq) = [i \in 1 .. Len(seq) - 1 |-> seq[i + 1]]
<1>1. /\ Tail(seq) \in [1 .. Len(seq) - 1 -> S]
      /\ \A i \in 1 .. Len(seq) - 1 : Tail(seq)[i] = seq[i + 1]
  BY HeadTailProperties, LenProperties
<1> QED
  BY <1>1

(* A step that keeps the ends and the ring keeps the queue as it is.       *)
LEMMA SameWaiting ==
    ASSUME Held' = Held, First' = First, ring' = ring
    PROVE  Waiting' = Waiting
BY DEF Waiting

(* The slot written next is none of those that are counted.                *)
LEMMA FreeSlot ==
    ASSUME NEW from \in 0 .. Slots - 1, NEW n \in 0 .. Slots - 1,
           NEW i \in 1 .. n
    PROVE  (from + i - 1) % Slots # (from + n) % Slots
<1>1. from + i - 1 \in 0 .. Slots + Slots - 1 /\ from + n \in 0 .. Slots + Slots - 1
  OBVIOUS
<1>2. /\ (from + i - 1) % Slots =
            IF from + i - 1 < Slots THEN from + i - 1 ELSE from + i - 1 - Slots
      /\ (from + n) % Slots = IF from + n < Slots THEN from + n ELSE from + n - Slots
  BY <1>1, Remainders
<1> QED
  BY <1>2

(* Counting a frame in is Put, copying one out is Take, resetting the tail *)
(* is Clear, and so is the end of a reset that makes the ring whole again; *)
(* a step that runs into another, and all steps up to that end, are Tear.  *)
LEMMA RingStepIsQueueStep ==
    ASSUME RingInv, EndsInv, [RingNext]_ringVars, RingTypeOK'
    PROVE  [Queue!QueueNext]_(Queue!queueVars)
<1> USE DEF indices, timer, core0Pc, isrPc, frames, history
<1> DEFINE Stutter == UNCHANGED <<Waiting, latest, served, torn>>
<1>a. Stutter => [Queue!QueueNext]_(Queue!queueVars)
  BY DEF Queue!queueVars
<1>b. CASE torn'
  <2>1. torn' = TRUE
    BY <1>b DEF RingTypeOK
  <2> QED
    BY <2>1, Zenon DEF Queue!QueueNext, Queue!Tear
<1>c. CASE ResetCount /\ ~torn'
  <2>1. /\ whole /\ core1 = "count" /\ core1' = "watch" /\ count' = 0
        /\ UNCHANGED <<tail, isr, latest, served>>
    BY <1>c DEF ResetCount
  <2>2. ~AtRing
    BY <2>1 DEF RingInv, ResetInv
  <2>3. Held' = 0
    BY <2>1, <2>2 DEF Held, AtRing
  <2>4. Waiting' = << >>
    BY <2>3 DEF Waiting
  <2>5. torn' = FALSE
    BY <1>c DEF RingTypeOK
  <2> QED
    BY <2>1, <2>4, <2>5, Zenon DEF Queue!QueueNext, Queue!Clear
<1>d. CASE ~torn' /\ ~ResetCount
  <2>a. ~torn /\ torn' = torn
    <3>1. torn => torn'
      BY <1>d DEF RingNext, Core0, Isr, Core1, EnqueueCheck, EnqueueSlot, EnqueueHead,
         EnqueueCount, EnqueueTest, ArmClaim, ArmHook, ArmTarget, ArmFlag, AlarmFires,
         AlarmCheck, AlarmUnderflow, AlarmLook, AlarmTake, AlarmTail, AlarmCount,
         AlarmRearm, StopAlarm, StopNumber, StopFlag, ResetHead, ResetTail, RunInto,
         ringVars
    <3>2. torn \in BOOLEAN /\ torn' \in BOOLEAN
      BY Zenon DEF RingTypeOK, RingInv
    <3> QED
      BY <1>d, <3>1, <3>2, Zenon
  <2>0. CASE UNCHANGED ringVars
    <3>1. Held' = Held /\ First' = First /\ UNCHANGED <<ring, latest, served>>
      BY <2>0 DEF ringVars, Held, First, Next
    <3> QED
      BY <1>a, <2>a, <3>1, SameWaiting DEF Stutter
  <2>1. CASE EnqueueCheck
    <3>1. Held' = Held /\ First' = First /\ UNCHANGED <<ring, latest, served>>
      BY <2>1 DEF EnqueueCheck, Core0Runs, Held, First
    <3> QED
      BY <1>a, <2>a, <3>1, SameWaiting DEF Stutter
  <2>2. CASE EnqueueSlot
    <3>1. /\ core0 = "slot" /\ ~Resetting /\ isr = "none" /\ count < Slots
          /\ ring' = [ring EXCEPT ![head] = After(latest)]
          /\ UNCHANGED <<head, tail, count, isr, core1, latest, served>>
      BY <1>d, <2>a, <2>2, Untorn DEF EnqueueSlot, RunInto
    <3>2. First = tail /\ Held = count /\ First' = First /\ Held' = Held
      BY <2>a, <3>1, Untorn DEF First, Held, Resetting
    <3>3. head = (First + Held) % Slots
      BY <2>a, <3>1 DEF EndsInv, Counting
    <3>4. First \in 0 .. Slots - 1 /\ Held \in 0 .. Slots - 1
      BY <2>a, <3>1, <3>2, Untorn
    <3>5. \A i \in 1 .. Held : (First + i - 1) % Slots # head
      BY <3>3, <3>4, FreeSlot
    <3>6. \A i \in 1 .. Held : ring'[(First + i - 1) % Slots] = ring[(First + i - 1) % Slots]
      <4>1. \A i \in 1 .. Held : (First + i - 1) % Slots \in 0 .. Slots - 1
        BY <3>4
      <4>2. ring \in [0 .. Slots - 1 -> 0 .. Numbers - 1]
        BY DEF RingInv, RingTypeOK
      <4> QED
        BY <3>1, <3>5, <4>1, <4>2, Zenon
    <3>7. Waiting' = Waiting
      BY <3>2, <3>6, Zenon DEF Waiting
    <3> QED
      BY <1>a, <2>a, <3>1, <3>7 DEF Stutter
  <2>3. CASE EnqueueHead
    <3>1. Held' = Held /\ First' = First /\ UNCHANGED <<ring, latest, served>>
      BY <2>3 DEF EnqueueHead, Held, First
    <3> QED
      BY <1>a, <2>a, <3>1, SameWaiting DEF Stutter
  <2>4. CASE EnqueueCount
    <3>x. CASE core0 = "count"
      <4>1. Held' = Held /\ First' = First /\ UNCHANGED <<ring, latest, served>>
        BY <2>4, <3>x DEF EnqueueCount, Held, First
      <4> QED
        BY <1>a, <2>a, <4>1, SameWaiting DEF Stutter
    <3>y. CASE core0 = "count_store"
      <4>0. ~Resetting /\ isr = "none" /\ core1 # "count"
        BY <2>a, <3>y, Untorn DEF AtRing, Masked, Resetting
      <4>1. /\ Held = count /\ Held' = count + 1 /\ First' = First /\ ring' = ring
            /\ First \in 0 .. Slots - 1 /\ count \in 0 .. Slots - 1
        <5>1. core0_load = count /\ count < Slots /\ count \in 0 .. Wrap - 1
          BY <2>a, <3>y DEF RingInv, LoadInv, RingTypeOK
        <5>2. /\ count' = (core0_load + 1) % Wrap
              /\ UNCHANGED <<ring, tail, isr, core1>>
          BY <2>4, <3>y DEF EnqueueCount
        <5>3. count' = count + 1
          BY <5>1, <5>2, CounterArithmetic
        <5>4. Held = count /\ First \in 0 .. Slots - 1
          BY <2>a, <4>0, Untorn
        <5>5. Held' = count' /\ First' = First
          BY <4>0, <5>2 DEF Held, First
        <5> QED
          BY <5>1, <5>2, <5>3, <5>4, <5>5
      <4>2. /\ latest' = After(latest) /\ ring[(First + count) % Slots] = After(latest)
            /\ UNCHANGED served
        BY <2>a, <2>4, <3>y, <4>1 DEF EnqueueCount, EndsInv, Counting
      <4>3. Waiting \in Seq(0 .. Numbers - 1) /\ Len(Waiting) = count
        BY <2>a, <4>1, WaitingIsSequence
      <4>4. After(latest) \in 0 .. Numbers - 1
        BY ModuloTypes DEF RingInv, RingTypeOK
      <4>5. Waiting' = [i \in 1 .. count + 1 |-> ring[(First + i - 1) % Slots]]
        BY <4>1, Zenon DEF Waiting
      <4>6. Append(Waiting, latest') =
              [i \in 1 .. count + 1 |->
                  IF i = count + 1 THEN latest' ELSE Waiting[i]]
        <5>1. Append(Waiting, latest') =
                [i \in 1 .. Len(Waiting) + 1 |->
                    IF i = Len(Waiting) + 1 THEN latest' ELSE Waiting[i]]
          <6>1. latest' \in 0 .. Numbers - 1
            BY <4>2, <4>4, Zenon
          <6>2. \A seq \in Seq(0 .. Numbers - 1), elt \in 0 .. Numbers - 1 :
                  Append(seq, elt) =
                    [i \in 1 .. Len(seq) + 1 |->
                        IF i = Len(seq) + 1 THEN elt ELSE seq[i]]
            BY AppendElements
          <6> QED
            BY <4>3, <6>1, <6>2
        <5> QED
          BY <4>3, <5>1, Zenon
      <4>7. \A i \in 1 .. count + 1 :
              ring[(First + i - 1) % Slots] =
                  IF i = count + 1 THEN latest' ELSE Waiting[i]
        <5> SUFFICES ASSUME NEW i \in 1 .. count + 1
                     PROVE  ring[(First + i - 1) % Slots] =
                                IF i = count + 1 THEN latest' ELSE Waiting[i]
          OBVIOUS
        <5>1. CASE i = count + 1
          <6>1. First + i - 1 = First + count
            BY <4>1, <5>1
          <6> QED
            BY <4>2, <5>1, <6>1, Zenon
        <5>2. CASE i # count + 1
          <6>1. i \in 1 .. Held
            BY <4>1, <5>2
          <6> QED
            BY <5>2, <6>1, Zenon DEF Waiting
        <5> QED
          BY <5>1, <5>2
      <4>8. Waiting' = Append(Waiting, latest')
        BY <4>5, <4>6, <4>7, Zenon
      <4>9. Len(Waiting) < Slots /\ served' = served
        BY <4>1, <4>2, <4>3
      <4> QED
        BY <2>a, <4>2, <4>8, <4>9, Zenon
        DEF Queue!QueueNext, Queue!Put, Queue!After, After
    <3> QED
      BY <2>4, <3>x, <3>y DEF EnqueueCount
  <2>5. CASE EnqueueTest
    <3>1. Held' = Held /\ First' = First /\ UNCHANGED <<ring, latest, served>>
      BY <2>5 DEF EnqueueTest, Held, First
    <3> QED
      BY <1>a, <2>a, <3>1, SameWaiting DEF Stutter
  <2>6. CASE ArmClaim
    <3>1. Held' = Held /\ First' = First /\ UNCHANGED <<ring, latest, served>>
      BY <2>6 DEF ArmClaim, Held, First
    <3> QED
      BY <1>a, <2>a, <3>1, SameWaiting DEF Stutter
  <2>7. CASE ArmHook
    <3>1. Held' = Held /\ First' = First /\ UNCHANGED <<ring, latest, served>>
      BY <2>7 DEF ArmHook, Held, First
    <3> QED
      BY <1>a, <2>a, <3>1, SameWaiting DEF Stutter
  <2>8. CASE ArmTarget
    <3>1. Held' = Held /\ First' = First /\ UNCHANGED <<ring, latest, served>>
      BY <2>8 DEF ArmTarget, Held, First
    <3> QED
      BY <1>a, <2>a, <3>1, SameWaiting DEF Stutter
  <2>9. CASE ArmFlag
    <3>1. Held' = Held /\ First' = First /\ UNCHANGED <<ring, latest, served>>
      BY <2>9 DEF ArmFlag, Held, First
    <3> QED
      BY <1>a, <2>a, <3>1, SameWaiting DEF Stutter
  <2>10. CASE AlarmFires
    <3>1. Held' = Held /\ First' = First /\ UNCHANGED <<ring, latest, served>>
      BY <2>10 DEF AlarmFires, Held, First
    <3> QED
      BY <1>a, <2>a, <3>1, SameWaiting DEF Stutter
  <2>11. CASE AlarmCheck
    <3>1. Held' = Held /\ First' = First /\ UNCHANGED <<ring, latest, served>>
      BY <2>11 DEF AlarmCheck, Held, First
    <3> QED
      BY <1>a, <2>a, <3>1, SameWaiting DEF Stutter
  <2>12. CASE AlarmUnderflow
    <3>1. Held' = Held /\ First' = First /\ UNCHANGED <<ring, latest, served>>
      BY <2>12 DEF AlarmUnderflow, Held, First
    <3> QED
      BY <1>a, <2>a, <3>1, SameWaiting DEF Stutter
  <2>13. CASE AlarmLook
    <3>1. Held' = Held /\ First' = First /\ UNCHANGED <<ring, latest, served>>
      BY <2>13 DEF AlarmLook, RunInto, Held, First
    <3> QED
      BY <1>a, <2>a, <3>1, SameWaiting DEF Stutter
  <2>14. CASE AlarmTake
    <3>0. /\ isr = "take" /\ isr' = "tail" /\ served' = ring[tail]
          /\ UNCHANGED <<ring, head, tail, count, latest, core1>>
      BY <2>14 DEF AlarmTake
    <3>1. /\ First = tail /\ First' = Next(tail) /\ tail \in 0 .. Slots - 1
          /\ Held = count /\ Held' = count - 1 /\ count \in 1 .. Slots
          /\ count - 1 \in 0 .. Slots - 1
      <4>1. core1 # "count"
        BY <2>a, <3>0, Untorn DEF AtRing, Resetting
      <4>2. count > 0 /\ count <= Slots /\ count \in 0 .. Wrap - 1 /\ tail \in 0 .. Slots - 1
        BY <2>a, <3>0 DEF RingInv, LoadInv, CountFits, RingTypeOK
      <4>3. First' = Next(tail) /\ Held' = count - 1 /\ First = tail /\ Held = count
        BY <3>0, <4>1 DEF First, Held, Next
      <4> QED
        BY <4>2, <4>3
    <3>2. Waiting \in Seq(0 .. Numbers - 1) /\ Len(Waiting) = count
      BY <2>a, <3>1, WaitingIsSequence
    <3>3. Waiting # << >> /\ Head(Waiting) = Waiting[1]
      BY <3>1, <3>2
    <3>4. Waiting[1] = ring[tail]
      <4>1. 1 \in 1 .. Held
        BY <3>1
      <4>2. (tail + 1 - 1) % Slots = tail
        BY <3>1
      <4> QED
        BY <3>1, <4>1, <4>2, Zenon DEF Waiting
    <3>5. Tail(Waiting) = [i \in 1 .. count - 1 |-> Waiting[i + 1]]
      BY <3>2, <3>3, TailElements, Zenon
    <3>6. Waiting' = [i \in 1 .. count - 1 |-> ring[(Next(tail) + i - 1) % Slots]]
      BY <3>0, <3>1, Zenon DEF Waiting
    <3>7. \A i \in 1 .. count - 1 :
            ring[(Next(tail) + i - 1) % Slots] = Waiting[i + 1]
      <4> SUFFICES ASSUME NEW i \in 1 .. count - 1
                   PROVE  ring[(Next(tail) + i - 1) % Slots] = Waiting[i + 1]
        OBVIOUS
      <4>1. i + 1 \in 1 .. Held /\ i - 1 \in 0 .. Slots - 1
        BY <3>1
      <4>2. (Next(tail) + (i - 1)) % Slots = (tail + (i - 1) + 1) % Slots
        BY <3>1, <4>1, Successors
      <4>3. Next(tail) \in 0 .. Slots - 1
        BY <3>1, ModuloTypes
      <4>4. /\ Next(tail) + (i - 1) = Next(tail) + i - 1
            /\ tail + (i - 1) + 1 = tail + (i + 1) - 1
        BY <3>1, <4>1, <4>3
      <4>5. Waiting[i + 1] = ring[(tail + (i + 1) - 1) % Slots]
        BY <3>1, <4>1, Zenon DEF Waiting
      <4> QED
        BY <4>2, <4>4, <4>5, Zenon
    <3>8. Waiting' = Tail(Waiting)
      BY <3>5, <3>6, <3>7, Zenon
    <3>9. served' = Head(Waiting) /\ latest' = latest
      BY <3>0, <3>3, <3>4
    <3> QED
      BY <2>a, <3>3, <3>8, <3>9, Zenon DEF Queue!QueueNext, Queue!Take
  <2>15. CASE AlarmTail
    <3>1. /\ Held' = Held /\ First' = First /\ UNCHANGED <<ring, latest, served>>
      <4>1. UNCHANGED <<ring, count, core1, latest, served>>
        BY <2>15 DEF AlarmTail
      <4>2. CASE isr = "tail"
        BY <2>15, <4>1, <4>2 DEF AlarmTail, Held, First, Next
      <4>3. CASE isr = "tail_store"
        <5>1. isr_load = tail /\ isr' = "count" /\ tail' = Next(isr_load)
          BY <2>a, <2>15, <4>3 DEF AlarmTail, EndsInv
        <5> QED
          BY <4>1, <4>3, <5>1 DEF Held, First
      <4> QED
        BY <2>15, <4>2, <4>3 DEF AlarmTail
    <3> QED
      BY <1>a, <2>a, <3>1, SameWaiting DEF Stutter
  <2>16. CASE AlarmCount
    <3>1. First' = First /\ UNCHANGED <<ring, core1, latest, served>>
      BY <2>16 DEF AlarmCount, First
    <3>2. Held' = Held
      <4>1. CASE isr = "count"
        BY <2>16, <4>1 DEF AlarmCount, Held
      <4>2. CASE isr = "count_store"
        <5>1. /\ count > 0 /\ isr_load = count /\ count \in 0 .. Wrap - 1
          BY <2>a, <4>2 DEF RingInv, LoadInv, RingTypeOK
        <5>2. count' = count - 1 /\ isr' = "rearm"
          BY <2>16, <4>2, <5>1, CounterArithmetic DEF AlarmCount
        <5> QED
          BY <3>1, <4>2, <5>2 DEF Held
      <4> QED
        BY <2>16, <4>1, <4>2 DEF AlarmCount
    <3> QED
      BY <1>a, <2>a, <3>1, <3>2, SameWaiting DEF Stutter
  <2>17. CASE AlarmRearm
    <3>1. Held' = Held /\ First' = First /\ UNCHANGED <<ring, latest, served>>
      BY <2>17 DEF AlarmRearm, Held, First
    <3> QED
      BY <1>a, <2>a, <3>1, SameWaiting DEF Stutter
  <2>18. CASE StopAlarm
    <3>1. Held' = Held /\ First' = First /\ UNCHANGED <<ring, latest, served>>
      BY <2>18 DEF StopAlarm, Held, First
    <3> QED
      BY <1>a, <2>a, <3>1, SameWaiting DEF Stutter
  <2>19. CASE StopNumber
    <3>1. Held' = Held /\ First' = First /\ UNCHANGED <<ring, latest, served>>
      BY <2>19 DEF StopNumber, Held, First
    <3> QED
      BY <1>a, <2>a, <3>1, SameWaiting DEF Stutter
  <2>20. CASE StopFlag
    <3>1. Held' = Held /\ First' = First /\ UNCHANGED <<ring, latest, served>>
      BY <2>20 DEF StopFlag, Held, First
    <3> QED
      BY <1>a, <2>a, <3>1, SameWaiting DEF Stutter
  <2>21. CASE ResetHead
    <3>1. Held' = Held /\ First' = First /\ UNCHANGED <<ring, latest, served>>
      BY <2>21 DEF ResetHead, Held, First
    <3> QED
      BY <1>a, <2>a, <3>1, SameWaiting DEF Stutter
  <2>22. CASE ResetTail
    <3>1. Held' = 0 /\ UNCHANGED <<latest, served>>
      BY <2>22 DEF ResetTail, Held
    <3>2. Waiting' = << >> /\ torn' = FALSE
      BY <1>d, <3>1 DEF Waiting, RingTypeOK
    <3> QED
      BY <3>1, <3>2, Zenon DEF Queue!QueueNext, Queue!Clear
  <2> QED
    BY <1>d, <2>0, <2>1, <2>2, <2>3, <2>4, <2>5, <2>6, <2>7, <2>8, <2>9, <2>10, <2>11,
       <2>12, <2>13, <2>14, <2>15, <2>16, <2>17, <2>18, <2>19, <2>20, <2>21, <2>22
    DEF RingNext, Core0, Isr, Core1
<1> QED
  BY <1>b, <1>c, <1>d

(* The ring starts as an empty queue.                                      *)
LEMMA RingStartsEmpty == RingInit => EndsInv /\ Queue!QueueInit
<1> SUFFICES ASSUME RingInit PROVE EndsInv /\ Queue!QueueInit
  OBVIOUS
<1>1. Held = 0 /\ First = 0
  BY DEF RingInit, Held, First
<1>2. Waiting = << >>
  BY <1>1 DEF Waiting
<1>3. EndsInv
  BY <1>1 DEF RingInit, EndsInv, Counting
<1> QED
  BY <1>2, <1>3 DEF RingInit, Queue!QueueInit

(* Frames leave the ring in the order they came in, each at most once, and *)
(* none from before the link was last given up, unless core 1's reset and  *)
(* core 0 run into one another; core 1 may reset the ring at any moment.   *)
THEOREM RingIsQueue == RingSpec => ImplementsStepQueue
<1>1. RingInit => EndsInv /\ Queue!QueueInit
  BY RingStartsEmpty
<1>2. RingInv /\ EndsInv /\ [RingNext]_ringVars => EndsInv'
  BY EndsStep DEF EndsInv
<1>3. RingInv /\ RingInv' /\ EndsInv /\ [RingNext]_ringVars
        => [Queue!QueueNext]_(Queue!queueVars)
  BY RingStepIsQueueStep DEF RingInv
<1> QED
  BY <1>1, <1>2, <1>3, RingInvariant, PTL
  DEF RingSpec, ImplementsStepQueue, Queue!QueueSpec
================================================================================
