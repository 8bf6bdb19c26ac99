---------------------------- MODULE PwmOutputProofs ----------------------------
(***************************************************************************)
(* Theorems about the PWM output, for all frequencies and limits.          *)
(***************************************************************************)
EXTENDS PwmOutput, TLAPS

USE FrequencyAssumption, LimitAssumption, OkToClearAssumption

(* The frame in rx_buffer is obeyed if its checksum is good and clears the *)
(* error there may be; then it carries the command, and once core 0 is     *)
(* done with it its frequency is the approved one.                         *)
FrameInv ==
    /\ core0 = "handle" =>
          (obeyed <=> rx_ok /\ (checksum_error => checksum_ok_count + 1 >= OkToClear))
    /\ obeyed => rx_frequency = commanded
    /\ obeyed /\ core0 = "idle" => pwm_freq_buffer = rx_frequency
    /\ duty = pwm_freq_buffer

(* As long as there was no new command, core 1 has work only because the   *)
(* one command was approved.                                               *)
CommandInv == ~Idle1 /\ ~changed => /\ pwm_freq_buffer = commanded
                                    /\ core1 = "set" => old_pwm_frequency = commanded

(* The slice has the frequency core 1 remembers.                           *)
Matched == old_pwm_frequency \in {0, wrap}

(* When core 1 has nothing to do the slice matches, or the frame that      *)
(* core 0 is handling explains why not; when it has, and does not match,   *)
(* no frame will bring back the frequency it remembers.                    *)
MatchInv ==
    ~strange /\ core1 = "compare" /\ ~Matched =>
        /\ changed
        /\ old_pwm_frequency = pwm_freq_buffer
              => core0 = "handle" /\ obeyed /\ rx_frequency \in {0, wrap}
        /\ old_pwm_frequency # pwm_freq_buffer => commanded # old_pwm_frequency

Inv == PwmTypeOK /\ FrameInv /\ CommandInv /\ MatchInv

--------------------------------------------------------------------------------
(* Whatever is asked for, what the driver sends is one of its frequencies. *)
LEMMA LimitedIsSent ==
    ASSUME NEW f \in Frequencies \cup {0}
    PROVE  Limited(f) \in Sent
BY DEF Limited, Sent

(* Core 0 approves just the frames that are obeyed, and takes their        *)
(* frequency for the copy and for the duty.                                *)
LEMMA Approved ==
    ASSUME PwmTypeOK, FrameInv, HandleData
    PROVE  /\ checksum_error' <=> ~obeyed
           /\ obeyed => pwm_freq_buffer' = rx_frequency /\ duty' = rx_frequency
           /\ ~obeyed => pwm_freq_buffer' = pwm_freq_buffer /\ duty' = duty
<1>1. obeyed <=> rx_ok /\ (checksum_error => checksum_ok_count + 1 >= OkToClear)
  BY Zenon DEF FrameInv, HandleData
<1>2. checksum_error' <=> ~rx_ok \/ (checksum_error
                               /\ ~(checksum_error /\ checksum_ok_count + 1 >= OkToClear))
  BY Zenon DEF HandleData
<1>3. checksum_error' <=> ~obeyed
  BY <1>1, <1>2, Zenon
<1> QED
  BY <1>3, Zenon DEF HandleData

(* What a frame does: if it is obeyed it carries the command.              *)
LEMMA Arrived ==
    ASSUME Frame
    PROVE  /\ commanded' \in Sent
           /\ rx_frequency' \in Sent \cup Frequencies
           /\ rx_ok' \in BOOLEAN
           /\ obeyed' <=> rx_ok' /\ (checksum_error => checksum_ok_count + 1 >= OkToClear)
           /\ obeyed' => rx_frequency' = commanded'
<1>1. PICK f \in Frequencies \cup {0} : commanded' = Limited(f)
  BY Zenon DEF Frame
<1>2. commanded' \in Sent
  BY <1>1, LimitedIsSent
<1>3. PICK ok \in BOOLEAN :
        /\ rx_ok' = ok
        /\ rx_frequency' \in IF ok THEN {commanded'} ELSE Sent \cup Frequencies
  BY Zenon DEF Frame
<1>4. obeyed' <=> rx_ok' /\ (checksum_error => checksum_ok_count + 1 >= OkToClear)
  BY Zenon DEF Frame
<1>5. rx_frequency' \in Sent \cup Frequencies
  BY <1>2, <1>3
<1>6. rx_ok' => rx_frequency' = commanded'
  BY <1>3, Zenon
<1> QED
  BY <1>2, <1>3, <1>4, <1>5, <1>6, Zenon

--------------------------------------------------------------------------------
(* Every step keeps the types.                                             *)
LEMMA TypeStep ==
    ASSUME PwmTypeOK, FrameInv, [PwmNext]_pwmVars
    PROVE  PwmTypeOK'
<1> USE DEF check, frame, core1Vs
<1> DEFINE Values == /\ {commanded, pwm_freq_buffer, duty, old_pwm_frequency} \subseteq Sent
                     /\ {rx_frequency, wrap} \subseteq Sent \cup Frequencies
           Flags  == /\ {rx_ok, obeyed, checksum_error, changed, strange} \subseteq BOOLEAN
                     /\ core0 \in {"idle", "handle"}
                     /\ core1 \in {"compare", "set"}
<1>1. Values /\ Flags /\ checksum_ok_count \in 0 .. OkToClear - 1
  BY Zenon DEF PwmTypeOK
<1>2. Flags'
  <2>1. CASE Frame
    BY <1>1, <2>1, Arrived, Zenon DEF Frame
  <2>2. CASE HandleData \/ Compare
    BY <1>1, <2>2, Zenon DEF HandleData, Compare
  <2>3. CASE SetFrequency \/ Disconnect \/ UNCHANGED pwmVars
    BY <1>1, <2>3, Zenon DEF SetFrequency, Disconnect, pwmVars
  <2> QED
    BY <2>1, <2>2, <2>3, Zenon DEF PwmNext
<1>3. checksum_ok_count' \in 0 .. OkToClear - 1
  <2>1. CASE HandleData
    <3>1. \/ checksum_ok_count' = 0
          \/ checksum_ok_count' = checksum_ok_count + 1 /\ ~(checksum_ok_count + 1 >= OkToClear)
      BY <2>1, Zenon DEF HandleData
    <3> QED
      BY <1>1, <3>1
  <2>2. CASE ~HandleData
    <3>1. checksum_ok_count' = checksum_ok_count
      BY <2>2, Zenon DEF PwmNext, Frame, Compare, SetFrequency, Disconnect, pwmVars
    <3> QED
      BY <1>1, <3>1
  <2> QED
    BY <2>1, <2>2
<1>4. Values'
  <2> HIDE DEF Flags
  <2>1. CASE Frame
    <3>1. UNCHANGED <<pwm_freq_buffer, duty, old_pwm_frequency, wrap>>
      BY <2>1, Zenon DEF Frame
    <3> QED
      BY <1>1, <2>1, <3>1, Arrived
  <2>2. CASE HandleData
    <3>1. obeyed => rx_frequency = commanded
      BY Zenon DEF FrameInv
    <3>2. pwm_freq_buffer' \in {commanded, pwm_freq_buffer} /\ duty' \in {commanded, duty}
      BY <2>2, <3>1, Approved
    <3>3. UNCHANGED <<commanded, rx_frequency, old_pwm_frequency, wrap>>
      BY <2>2, Zenon DEF HandleData
    <3> QED
      BY <1>1, <3>2, <3>3
  <2>3. CASE Compare
    <3>1. /\ old_pwm_frequency' = pwm_freq_buffer
          /\ UNCHANGED <<commanded, rx_frequency, pwm_freq_buffer, duty, wrap>>
      BY <2>3, Zenon DEF Compare
    <3> QED
      BY <1>1, <3>1
  <2>4. CASE SetFrequency
    <3>1. /\ wrap' \in {wrap, rx_frequency}
          /\ UNCHANGED <<commanded, rx_frequency, pwm_freq_buffer, duty, old_pwm_frequency>>
      BY <2>4 DEF SetFrequency
    <3> QED
      BY <1>1, <3>1
  <2>5. CASE Disconnect \/ UNCHANGED pwmVars
    <3>1. UNCHANGED <<commanded, rx_frequency, pwm_freq_buffer, duty, old_pwm_frequency, wrap>>
      BY <2>5, Zenon DEF Disconnect, pwmVars
    <3> QED
      BY <1>1, <3>1
  <2> QED
    BY <2>1, <2>2, <2>3, <2>4, <2>5, Zenon DEF PwmNext
<1> QED
  BY <1>2, <1>3, <1>4, Zenon DEF PwmTypeOK

(* Every step keeps what is known of the frame.                            *)
LEMMA FrameStep ==
    ASSUME PwmTypeOK, FrameInv, [PwmNext]_pwmVars
    PROVE  FrameInv'
<1> USE DEF check, frame, core1Vs
<1>1. CASE Frame
  <2>1. core0' = "handle" /\ UNCHANGED <<checksum_error, checksum_ok_count, duty, pwm_freq_buffer>>
    BY <1>1, Zenon DEF Frame
  <2>2. duty = pwm_freq_buffer /\ core0' # "idle"
    BY <2>1, Zenon DEF FrameInv
  <2> QED
    BY <1>1, <2>1, <2>2, Arrived, Zenon DEF FrameInv
<1>2. CASE HandleData
  <2>1. core0' = "idle" /\ UNCHANGED <<obeyed, rx_frequency, commanded>>
    BY <1>2, Zenon DEF HandleData
  <2>2. core0' # "handle"
    BY <2>1
  <2> QED
    BY <1>2, <2>1, <2>2, Approved, Zenon DEF FrameInv
<1>3. CASE Compare \/ SetFrequency \/ UNCHANGED pwmVars
  <2>1. UNCHANGED <<obeyed, rx_ok, rx_frequency, commanded, core0, checksum_error,
                    checksum_ok_count, duty, pwm_freq_buffer>>
    BY <1>3, Zenon DEF Compare, SetFrequency, pwmVars
  <2> QED
    BY <2>1, Zenon DEF FrameInv
<1>4. CASE Disconnect
  <2>1. core0' # "handle"
    BY <1>4 DEF Disconnect
  <2> QED
    BY <1>4, <2>1, Zenon DEF FrameInv, Disconnect
<1> QED
  BY <1>1, <1>2, <1>3, <1>4, Zenon DEF PwmNext

(* Every step keeps what is known of the command.                          *)
LEMMA CommandStep ==
    ASSUME Inv, [PwmNext]_pwmVars
    PROVE  CommandInv'
<1> USE DEF check, frame, core1Vs
<1> SUFFICES ASSUME ~Idle1', ~changed'
             PROVE  /\ pwm_freq_buffer' = commanded'
                    /\ core1' = "set" => old_pwm_frequency' = commanded'
  BY Zenon DEF CommandInv
<1>1. CASE Frame
  <2>1. ~Idle1
    BY <1>1, Zenon DEF Frame, Idle1
  <2>2. ~changed /\ commanded' = commanded
    BY <1>1, <2>1, Zenon DEF Frame
  <2> QED
    BY <1>1, <2>1, <2>2, Zenon DEF Inv, CommandInv, Frame
<1>2. CASE HandleData
  <2>1. UNCHANGED <<core1, old_pwm_frequency, commanded, rx_frequency, changed>>
    BY <1>2, Zenon DEF HandleData
  <2>2. /\ obeyed => pwm_freq_buffer' = commanded
        /\ ~obeyed => pwm_freq_buffer' = pwm_freq_buffer
    BY <1>2, Approved, Zenon DEF Inv, FrameInv
  <2>3. core1 = "set" => ~Idle1
    BY DEF Idle1
  <2>4. ~obeyed => ~Idle1
    BY <2>1, <2>2, Zenon DEF Idle1
  <2> QED
    BY <2>1, <2>2, <2>3, <2>4, Zenon DEF Inv, CommandInv
<1>3. CASE Compare
  <2>1. ~Idle1 /\ ~changed
    BY <1>3, Zenon DEF Compare, Idle1
  <2> QED
    BY <1>3, <2>1, Zenon DEF Inv, CommandInv, Compare
<1>4. CASE SetFrequency
  <2>1. ~Idle1 /\ ~changed /\ core1' # "set"
    BY <1>4 DEF SetFrequency, Idle1
  <2> QED
    BY <1>4, <2>1, Zenon DEF Inv, CommandInv, SetFrequency
<1>5. CASE Disconnect \/ UNCHANGED pwmVars
  <2>1. UNCHANGED <<core1, old_pwm_frequency, commanded, pwm_freq_buffer, changed>>
    BY <1>5, Zenon DEF Disconnect, pwmVars
  <2> QED
    BY <2>1, Zenon DEF Inv, CommandInv, Idle1
<1> QED
  BY <1>1, <1>2, <1>3, <1>4, <1>5, Zenon DEF PwmNext

(* Every step keeps what is known of a slice that does not match.          *)
LEMMA MatchStep ==
    ASSUME Inv, [PwmNext]_pwmVars
    PROVE  MatchInv'
<1> USE DEF check, frame, core1Vs
<1> SUFFICES ASSUME ~strange', core1' = "compare", ~Matched'
             PROVE  /\ changed'
                    /\ old_pwm_frequency' = pwm_freq_buffer'
                          => core0' = "handle" /\ obeyed' /\ rx_frequency' \in {0, wrap'}
                    /\ old_pwm_frequency' # pwm_freq_buffer'
                          => commanded' # old_pwm_frequency'
  BY Zenon DEF MatchInv
<1>1. CASE Frame
  <2>1. UNCHANGED <<core1, old_pwm_frequency, pwm_freq_buffer, wrap, strange>> /\ core0 = "idle"
    BY <1>1, Zenon DEF Frame
  <2>2. ~strange /\ core1 = "compare" /\ ~Matched /\ core0 # "handle"
    BY <2>1 DEF Matched
  <2>3. changed /\ old_pwm_frequency # pwm_freq_buffer /\ commanded # old_pwm_frequency
    BY <2>2, Zenon DEF Inv, MatchInv
  <2>4. changed' /\ commanded' = commanded
    BY <1>1, <2>3, Zenon DEF Frame, Idle1
  <2> QED
    BY <2>1, <2>3, <2>4, Zenon
<1>2. CASE HandleData
  <2>1. UNCHANGED <<core1, old_pwm_frequency, wrap, strange, obeyed, commanded, rx_frequency,
                    changed>>
    BY <1>2, Zenon DEF HandleData
  <2>2. /\ obeyed => pwm_freq_buffer' = commanded /\ rx_frequency = commanded
        /\ ~obeyed => pwm_freq_buffer' = pwm_freq_buffer
    BY <1>2, Approved, Zenon DEF Inv, FrameInv
  <2>3. ~strange /\ core1 = "compare" /\ ~Matched
    BY <2>1, Zenon DEF Matched
  <2>4. /\ changed
        /\ old_pwm_frequency = pwm_freq_buffer => obeyed /\ rx_frequency \in {0, wrap}
        /\ old_pwm_frequency # pwm_freq_buffer => commanded # old_pwm_frequency
    BY <2>3, Zenon DEF Inv, MatchInv
  <2>5. commanded # old_pwm_frequency
    <3>1. CASE old_pwm_frequency = pwm_freq_buffer
      BY <2>2, <2>3, <2>4, <3>1, Zenon DEF Matched
    <3> QED
      BY <2>4, <3>1, Zenon
  <2>6. old_pwm_frequency # pwm_freq_buffer'
    <3>1. CASE obeyed
      BY <2>2, <2>5, <3>1, Zenon
    <3>2. CASE ~obeyed
      BY <2>2, <2>4, <3>2, Zenon
    <3> QED
      BY <3>1, <3>2
  <2> QED
    BY <2>1, <2>4, <2>5, <2>6, Zenon
<1>3. CASE Compare
  <2>1. core1' = "set"
    BY <1>3, Zenon DEF Compare
  <2> QED
    BY <2>1
<1>4. CASE SetFrequency
  <2>1. /\ core1 = "set" /\ obeyed
        /\ wrap' = IF rx_frequency = 0 THEN wrap ELSE rx_frequency
        /\ UNCHANGED <<old_pwm_frequency, pwm_freq_buffer, commanded, rx_frequency, obeyed,
                       core0, changed>>
    BY <1>4, Zenon DEF SetFrequency
  <2>2. rx_frequency \in {0, wrap'}
    BY <2>1
  <2>3. rx_frequency = commanded
    BY <2>1, Zenon DEF Inv, FrameInv
  <2>4. commanded # old_pwm_frequency
    BY <2>1, <2>2, <2>3, Zenon DEF Matched
  <2>5. ~Idle1
    BY <2>1 DEF Idle1
  <2>6. changed
    BY <2>1, <2>4, <2>5, Zenon DEF Inv, CommandInv
  <2>7. core0 = "idle" => pwm_freq_buffer # old_pwm_frequency
    BY <2>1, <2>3, <2>4, Zenon DEF Inv, FrameInv
  <2>8. core0 \in {"idle", "handle"}
    BY Zenon DEF Inv, PwmTypeOK
  <2>9. changed' /\ obeyed' /\ rx_frequency' \in {0, wrap'} /\ commanded' # old_pwm_frequency'
    BY <2>1, <2>2, <2>4, <2>6, Zenon
  <2>10. old_pwm_frequency' = pwm_freq_buffer' => core0' = "handle"
    BY <2>1, <2>7, <2>8
  <2> QED
    BY <2>9, <2>10, Zenon
<1>5. CASE Disconnect \/ UNCHANGED pwmVars
  <2>1. UNCHANGED <<core1, old_pwm_frequency, wrap, strange, obeyed, commanded, rx_frequency,
                    changed, pwm_freq_buffer, core0>>
    BY <1>5, Zenon DEF Disconnect, pwmVars
  <2>2. ~strange /\ core1 = "compare" /\ ~Matched
    BY <2>1, Zenon DEF Matched
  <2> QED
    BY <2>1, <2>2, Zenon DEF Inv, MatchInv
<1> QED
  BY <1>1, <1>2, <1>3, <1>4, <1>5, Zenon DEF PwmNext

--------------------------------------------------------------------------------
(* The invariant is inductive.                                             *)
LEMMA Invariant == PwmSpec => []Inv
<1>1. PwmInit => Inv
  <2> SUFFICES ASSUME PwmInit PROVE Inv
    OBVIOUS
  <2>1. 0 \in Sent
    BY DEF Sent
  <2>2. PwmTypeOK
    <3>1. 0 \in 0 .. OkToClear - 1
      OBVIOUS
    <3> QED
      BY <2>1, <3>1, Zenon DEF PwmInit, PwmTypeOK
  <2>3. /\ core0 # "handle" /\ Idle1 /\ Matched
        /\ rx_frequency = commanded /\ pwm_freq_buffer = rx_frequency /\ duty = pwm_freq_buffer
    BY DEF PwmInit, Matched, Idle1
  <2>4. FrameInv /\ CommandInv /\ MatchInv
    BY <2>3, Zenon DEF FrameInv, CommandInv, MatchInv
  <2> QED
    BY <2>2, <2>4, Zenon DEF Inv
<1>2. Inv /\ [PwmNext]_pwmVars => Inv'
  BY TypeStep, FrameStep, CommandStep, MatchStep, Zenon DEF Inv
<1> QED
  BY <1>1, <1>2, PTL DEF PwmSpec

(* Every variable has its type, and a frequency that core 0 lets through   *)
(* is one of the driver's, within its limits, whatever a garbled frame     *)
(* says.                                                                   *)
THEOREM PwmTypes == PwmSpec => []PwmTypeOK
<1>1. Inv => PwmTypeOK
  BY Zenon DEF Inv
<1> QED
  BY <1>1, Invariant, PTL

(* At rest the duty is one for the frequency of the slice, whichever       *)
(* frame core 1 took that frequency from.                                  *)
THEOREM DutyFits == PwmSpec => []DutyFitsFrequency
<1>1. Inv => DutyFitsFrequency
  <2> SUFFICES ASSUME Inv, AtRest, ~strange
               PROVE  duty \in {0, wrap}
    BY Zenon DEF DutyFitsFrequency
  <2>1. core0 # "handle" /\ core1 = "compare" /\ old_pwm_frequency = pwm_freq_buffer
    BY DEF AtRest, Idle1
  <2>2. Matched
    BY <2>1, Zenon DEF Inv, MatchInv
  <2> QED
    BY <2>1, <2>2, Zenon DEF Inv, FrameInv, Matched
<1> QED
  BY <1>1, Invariant, PTL
================================================================================
