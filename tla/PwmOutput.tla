-------------------------------- MODULE PwmOutput --------------------------------
(***************************************************************************)
(* A PWM output from the driver's pins to the PWM slice: the PWM part of   *)
(* udp_io_process_send() in hal-driver/flexi-ninja.c, of handle_data() and *)
(* core1_entry() in firmware/src/main.c, and firmware/src/pwm.c.           *)
(*                                                                         *)
(* Core 0 copies the frequency of a frame with a clean checksum and sets   *)
(* the duty at once; core 1 notices that the copy has changed, and sets    *)
(* the frequency of the frame that is in rx_buffer by then.  A frame is a  *)
(* record of its duty, for which the driver already computed the level at  *)
(* the frequency it sends, so a duty is known by that frequency; 0 is off. *)
(***************************************************************************)
EXTENDS Naturals

CONSTANTS
    Frequencies,  \* what the frequency pin may say
    Lowest,       \* frequencies below it are raised to it (1908)
    Highest,      \* and those above are lowered (1000000)
    OkToClear     \* good frames in a row that clear checksum_error (10)

ASSUME FrequencyAssumption == Frequencies \subseteq Nat
ASSUME LimitAssumption     == Lowest \in Nat \ {0} /\ Highest \in Nat /\ Lowest <= Highest
ASSUME OkToClearAssumption == OkToClear \in Nat \ {0}

VARIABLES
    commanded,          \* the frequency last commanded, 0 when disabled
    rx_frequency,       \* rx_buffer->pwm_frequency
    rx_ok,              \* the outcome of that frame's checksum
    core0,              \* where handle_data() is
    checksum_error, checksum_ok_count,
    pwm_freq_buffer,
    duty,
    core1,              \* where core 1's loop is
    old_pwm_frequency,
    wrap,               \* the frequency the slice is set to
    obeyed,             \* history: is that frame one that core 0 obeys?
    changed,            \* history: a new command core 1 has not gone round since
    strange             \* history: was what is set taken from a frame not obeyed?

check   == <<checksum_error, checksum_ok_count>>
frame   == <<commanded, rx_frequency, rx_ok, obeyed>>
core1Vs == <<core1, old_pwm_frequency, wrap>>
pwmVars == <<frame, core0, check, pwm_freq_buffer, duty, core1Vs, changed, strange>>

(* The driver's limits.                                                    *)
Limited(frequency) == IF frequency = 0 THEN 0
                      ELSE IF frequency > Highest THEN Highest
                      ELSE IF frequency < Lowest THEN Lowest
                      ELSE frequency

Sent == {Limited(frequency) : frequency \in Frequencies} \cup {0}

PwmInit ==
    /\ commanded = 0 /\ rx_frequency = 0 /\ rx_ok = TRUE /\ obeyed = TRUE
    /\ core0 = "idle"
    /\ checksum_error = FALSE /\ checksum_ok_count = 0
    /\ pwm_freq_buffer = 0 /\ duty = 0
    /\ core1 = "compare" /\ old_pwm_frequency = 0 /\ wrap = 0
    /\ changed = FALSE /\ strange = FALSE

--------------------------------------------------------------------------------
(* Core 1 has nothing to do.                                               *)
Idle1 == core1 = "compare" /\ old_pwm_frequency = pwm_freq_buffer

(* A frame arrives; a garbled one says anything.  The command does not     *)
(* change twice before core 1 has gone round.                              *)
Frame ==
    /\ core0 = "idle"
    /\ \E frequency \in Frequencies \cup {0} : commanded' = Limited(frequency)
    /\ \E ok \in BOOLEAN :
          /\ rx_ok' = ok
          /\ rx_frequency' \in IF ok THEN {commanded'} ELSE Sent \cup Frequencies
    /\ obeyed' = (rx_ok' /\ (checksum_error => checksum_ok_count + 1 >= OkToClear))
    /\ commanded' # commanded => Idle1 \/ ~changed
    /\ changed' = (~Idle1 /\ (changed \/ commanded' # commanded))
    /\ core0' = "handle"
    /\ UNCHANGED <<check, pwm_freq_buffer, duty, core1Vs, strange>>

(* The checksum (as in Firmware), then the duty and the copy.              *)
HandleData ==
    /\ core0 = "handle"
    /\ LET clears == checksum_error /\ checksum_ok_count + 1 >= OkToClear
       IN  /\ checksum_error' = (~rx_ok \/ (checksum_error /\ ~clears))
           /\ checksum_ok_count' = IF ~rx_ok \/ clears \/ ~checksum_error THEN 0
                                   ELSE checksum_ok_count + 1
    /\ pwm_freq_buffer' = IF checksum_error' THEN pwm_freq_buffer ELSE rx_frequency
    /\ duty' = IF checksum_error' THEN duty ELSE rx_frequency
    /\ core0' = "idle"
    /\ UNCHANGED <<frame, core1Vs, changed, strange>>

Compare ==
    /\ core1 = "compare"
    /\ old_pwm_frequency # pwm_freq_buffer
    /\ old_pwm_frequency' = pwm_freq_buffer
    /\ core1' = "set"
    /\ UNCHANGED <<frame, core0, check, pwm_freq_buffer, duty, wrap, changed,
                   strange>>

(* Mutant: what was set is remembered only once it is set.                 *)
SetFrequency_RemembersLast ==
    /\ core1 = "set"
    /\ wrap' = IF old_pwm_frequency = 0 THEN wrap ELSE old_pwm_frequency
    /\ old_pwm_frequency' = pwm_freq_buffer
    /\ strange' = FALSE
    /\ core1' = "compare"
    /\ UNCHANGED <<frame, core0, check, pwm_freq_buffer, duty, changed>>

(* ninja_pwm_set_frequency() of the frame in rx_buffer: 0 changes nothing. *)
SetFrequency ==
    /\ core1 = "set"
    /\ wrap' = IF rx_frequency = 0 THEN wrap ELSE rx_frequency
    /\ strange' = ~obeyed
    /\ core1' = "compare"
    /\ UNCHANGED <<frame, core0, check, pwm_freq_buffer, duty,
                   old_pwm_frequency, changed>>

(* The link has timed out: a checksum error is forgotten; the output keeps *)
(* running as it was.                                                      *)
Disconnect ==
    /\ core1 = "compare"
    /\ core0 = "idle"
    /\ checksum_error' = FALSE
    /\ UNCHANGED <<frame, core0, checksum_ok_count, pwm_freq_buffer, duty,
                   core1Vs, changed, strange>>

PwmNext == Frame \/ HandleData \/ Compare \/ SetFrequency \/ Disconnect

PwmSpec == PwmInit /\ [][PwmNext]_pwmVars

(* Both cores go on, and frames keep coming.                               *)
FairPwmSpec ==
    /\ PwmSpec
    /\ WF_pwmVars(Frame) /\ WF_pwmVars(HandleData)
    /\ WF_pwmVars(Compare) /\ WF_pwmVars(SetFrequency)

--------------------------------------------------------------------------------
(* Both cores are done with the last frame.                                *)
AtRest == core0 = "idle" /\ Idle1

(* At rest the slice runs at the frequency its duty was computed for,      *)
(* although one core compares the approved frequency and sets the received *)
(* one, while the other replaces both; unless it set one of a frame that   *)
(* was not obeyed.                                                         *)
DutyFitsFrequency == AtRest /\ ~strange => duty \in {0, wrap}

(* Once the frames are good and ask for one frequency, that is what the    *)
(* slice is set to, or what it got from a frame not obeyed.                *)
FrequencySettles ==
    \A frequency \in Sent \ {0} :
        <>[](commanded = frequency /\ ~checksum_error /\ rx_ok)
            => <>[](strange \/ core0 = "handle" \/ wrap = frequency)

(* Every variable has its type, and what core 0 lets through is within the *)
(* driver's limits.                                                        *)
PwmTypeOK ==
    /\ {commanded, pwm_freq_buffer, duty, old_pwm_frequency} \subseteq Sent
    /\ {rx_frequency, wrap} \subseteq Sent \cup Frequencies
    /\ {rx_ok, obeyed, checksum_error, changed, strange} \subseteq BOOLEAN
    /\ core0 \in {"idle", "handle"}
    /\ core1 \in {"compare", "set"}
    /\ checksum_ok_count \in 0 .. OkToClear - 1
================================================================================
