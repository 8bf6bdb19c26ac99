-------------------------------- MODULE IrqEncoder --------------------------------
(***************************************************************************)
(* A quadrature encoder counted by interrupts: firmware/src/irq_encoder.c  *)
(* and its callers in firmware/src/main.c.                                 *)
(*                                                                         *)
(* The edges of A, B and the index interrupt core 1; its main loop turns   *)
(* the counting on and off as the last frame says, and resets the count    *)
(* when the link times out; core 0 resets it when a frame asks for it.     *)
(* Nothing keeps these apart: the count and the state it goes with are     *)
(* shared without a lock, and read and written in separate steps.  Counts  *)
(* are bounded by Reach, not by 2^31.                                      *)
(***************************************************************************)
EXTENDS Integers

CONSTANT Reach   \* how far the shaft turns between two resets

ASSUME ReachAssumption == Reach \in Nat \ {0}

VARIABLES
    shaft,              \* position within the four states of A and B
    pending,            \* pins whose edge has not been handled yet
    edge_irq,           \* are the interrupts of A and B on?
    counter, prev_state,
    isr, isr_sum, isr_state,  \* where gpio_callback() is, what it has computed
    core1, core1_state, \* where the main loop of core 1 is, and pins it read
    enc_irq_enabled,
    core0, core0_state, \* where core 0 is
    turned,             \* history: travel since the last reset
    lost,               \* history: counts lost since then, "none", "pairs", "any"
    torn                \* history: has the last reset run into something else?

counts  == <<counter, prev_state>>
isrVars == <<isr, isr_sum, isr_state>>
travel  == <<turned, lost>>
encVars == <<shaft, pending, edge_irq, counts, isrVars, core1, core1_state,
             enc_irq_enabled, core0, core0_state, travel, torn>>

EncInit ==
    /\ shaft = 0 /\ pending = {}
    /\ edge_irq = TRUE
    /\ counter = 0 /\ prev_state = 0
    /\ isr = "none" /\ isr_sum = 0 /\ isr_state = 0
    /\ core1 = "top" /\ core1_state = 0
    /\ enc_irq_enabled = FALSE
    /\ core0 = "idle" /\ core0_state = 0
    /\ turned = 0 /\ lost = "none" /\ torn = FALSE

--------------------------------------------------------------------------------
(* A is bit 0 and B bit 1: forward is 00, 10, 11, 01.                      *)
Pins(position) == CASE position = 0 -> 0 [] position = 1 -> 2
                    [] position = 2 -> 3 [] position = 3 -> 1

Forward  == {<<0, 2>>, <<2, 3>>, <<3, 1>>, <<1, 0>>}
Backward == {<<2, 0>>, <<3, 2>>, <<1, 3>>, <<0, 1>>}

(* Mutant: a change of both pins counts.                                   *)
Transition_Both(old, new) ==
    CASE <<old, new>> \in Forward \cup {<<0, 3>>} -> 1
      [] <<old, new>> \in Backward -> -1
      [] OTHER -> 0

Transition(old, new) ==
    CASE <<old, new>> \in Forward -> 1
      [] <<old, new>> \in Backward -> -1
      [] OTHER -> 0

ResetSteps == {"zero", "read", "store"}
Resetting  == isr \in ResetSteps \/ core1 \in ResetSteps \/ core0 \in ResetSteps
Enabling   == core1 \in {"enable", "switch"}
Changed    == pending \cap {"A", "B"} # {}

(* A reset, or an enable, begins: amidst something else it is torn.        *)
Begins == torn' = (Resetting \/ Enabling \/ isr = "sum")

(* The shaft turns by one state, in which A or B changes.  What turns      *)
(* while the interrupts are off is lost; of two edges that are not handled *)
(* in time, both or none.                                                  *)
Turn(by) ==
    /\ {turned + by, counter + by, isr_sum + by} \subseteq -Reach .. Reach
    /\ shaft' = (shaft + by) % 4
    /\ turned' = turned + by
    /\ LET pin == IF Pins(shaft) % 2 = Pins(shaft') % 2 THEN "B" ELSE "A"
       IN  pending' = IF edge_irq THEN pending \cup {pin} ELSE pending
    /\ lost' = IF ~edge_irq \/ Enabling THEN "any"
               ELSE IF lost = "none" /\ Changed THEN "pairs"
               ELSE lost
    /\ UNCHANGED <<edge_irq, counts, isrVars, core1, core1_state,
                   enc_irq_enabled, core0, core0_state, torn>>

IndexPulse ==
    /\ pending' = pending \cup {"index"}
    /\ UNCHANGED <<shaft, edge_irq, counts, isrVars, core1, core1_state,
                   enc_irq_enabled, core0, core0_state, travel, torn>>

--------------------------------------------------------------------------------
(* irq_encoder_reset_count(), by either core or in the interrupt: counter, *)
(* pins, prev_state.                                                       *)
(* Mutant: prev_state is left alone.                                       *)
ResetStep_CountOnly(pc, state) ==
    \/ /\ pc = "zero"
       /\ counter' = 0
       /\ UNCHANGED <<prev_state, state, travel>>
    \/ /\ pc = "read"
       /\ state' = Pins(shaft)
       /\ turned' = 0 /\ lost' = "none"
       /\ UNCHANGED counts
    \/ /\ pc = "store"
       /\ state' = 0
       /\ UNCHANGED <<counts, travel>>

ResetStep(pc, state) ==
    \/ /\ pc = "zero"
       /\ counter' = 0
       /\ UNCHANGED <<prev_state, state, travel>>
    \/ /\ pc = "read"
       /\ state' = Pins(shaft)
       /\ turned' = 0 /\ lost' = "none"
       /\ UNCHANGED counts
    \/ /\ pc = "store"
       /\ prev_state' = state
       /\ state' = 0
       /\ UNCHANGED <<counter, travel>>

After(pc, done) == CASE pc = "zero" -> "read" [] pc = "read" -> "store"
                     [] pc = "store" -> done

(* irq_encoder_handle_edge(): the sum is made and stored in two steps.     *)
Edge(pin) ==
    /\ isr = "none"
    /\ pin \in pending
    /\ pending' = pending \ {pin}
    /\ isr_state' = Pins(shaft)
    /\ isr_sum' = counter + Transition(prev_state, Pins(shaft))
    /\ isr' = "sum"
    /\ torn' = (torn \/ Resetting \/ Enabling)
    /\ UNCHANGED <<shaft, edge_irq, counts, core1, core1_state, enc_irq_enabled,
                   core0, core0_state, travel>>

EdgeStore ==
    /\ isr = "sum"
    /\ counter' = isr_sum
    /\ prev_state' = isr_state
    /\ isr' = "none" /\ isr_sum' = 0 /\ isr_state' = 0
    /\ UNCHANGED <<shaft, pending, edge_irq, core1, core1_state,
                   enc_irq_enabled, core0, core0_state, travel, torn>>

(* The index edge resets the count within the interrupt.                   *)
Index ==
    /\ isr = "none"
    /\ "index" \in pending
    /\ pending' = pending \ {"index"}
    /\ isr' = "zero"
    /\ Begins
    /\ UNCHANGED <<shaft, edge_irq, counts, isr_sum, isr_state, core1, core1_state,
                   enc_irq_enabled, core0, core0_state, travel>>

IndexReset ==
    /\ isr \in ResetSteps
    /\ ResetStep(isr, isr_state)
    /\ isr' = After(isr, "none")
    /\ UNCHANGED <<shaft, pending, edge_irq, isr_sum, core1, core1_state,
                   enc_irq_enabled, core0, core0_state, torn>>

Interrupt == Edge("A") \/ Edge("B") \/ EdgeStore \/ Index \/ IndexReset

--------------------------------------------------------------------------------
(* Core 1's loop, which its interrupts suspend.  The enable bit is taken   *)
(* from rx_buffer whether the frame is garbled or not.  Switching the      *)
(* interrupts off or on forgets the edges that are pending.                *)
Disable ==
    /\ isr = "none" /\ core1 = "top"
    /\ enc_irq_enabled
    /\ edge_irq' = FALSE
    /\ pending' = pending \ {"A", "B"}
    /\ lost' = IF Changed THEN "any" ELSE lost
    /\ enc_irq_enabled' = FALSE
    /\ UNCHANGED <<shaft, counts, isrVars, core1, core1_state, core0, core0_state,
                   turned, torn>>

(* irq_encoder_enable(): prev_state, counter, then the interrupts.         *)
EnableState ==
    /\ isr = "none" /\ core1 = "top"
    /\ ~enc_irq_enabled
    /\ prev_state' = Pins(shaft)
    /\ core1' = "enable"
    /\ Begins
    /\ UNCHANGED <<shaft, pending, edge_irq, counter, isrVars, core1_state,
                   enc_irq_enabled, core0, core0_state, travel>>

EnableZero ==
    /\ isr = "none" /\ core1 = "enable"
    /\ counter' = 0
    /\ turned' = 0
    /\ lost' = IF prev_state = Pins(shaft) THEN "none" ELSE "any"
    /\ core1' = "switch"
    /\ UNCHANGED <<shaft, pending, edge_irq, prev_state, isrVars, core1_state,
                   enc_irq_enabled, core0, core0_state, torn>>

EnableSwitch ==
    /\ isr = "none" /\ core1 = "switch"
    /\ edge_irq' = TRUE
    /\ pending' = pending \ {"A", "B"}
    /\ enc_irq_enabled' = TRUE
    /\ core1' = "top"
    /\ UNCHANGED <<shaft, counts, isrVars, core1_state, core0, core0_state,
                   travel, torn>>

(* The link is taken to have timed out.                                    *)
Disconnect ==
    /\ isr = "none" /\ core1 = "top"
    /\ core1' = "zero"
    /\ Begins
    /\ UNCHANGED <<shaft, pending, edge_irq, counts, isrVars, core1_state,
                   enc_irq_enabled, core0, core0_state, travel>>

DisconnectReset ==
    /\ isr = "none" /\ core1 \in ResetSteps
    /\ ResetStep(core1, core1_state)
    /\ core1' = After(core1, "top")
    /\ UNCHANGED <<shaft, pending, edge_irq, isrVars, enc_irq_enabled, core0,
                   core0_state, torn>>

Core1 == Disable \/ EnableState \/ EnableZero \/ EnableSwitch
         \/ Disconnect \/ DisconnectReset

(* Core 0: the reset bit has come on.                                      *)
Control ==
    /\ core0 = "idle"
    /\ core0' = "zero"
    /\ Begins
    /\ UNCHANGED <<shaft, pending, edge_irq, counts, isrVars, core1,
                   core1_state, enc_irq_enabled, core0_state, travel>>

ControlReset ==
    /\ core0 \in ResetSteps
    /\ ResetStep(core0, core0_state)
    /\ core0' = After(core0, "idle")
    /\ UNCHANGED <<shaft, pending, edge_irq, isrVars, core1, core1_state,
                   enc_irq_enabled, torn>>

EncNext == Turn(1) \/ Turn(-1) \/ IndexPulse \/ Interrupt \/ Core1
           \/ Control \/ ControlReset

EncSpec == EncInit /\ [][EncNext]_encVars

--------------------------------------------------------------------------------
(* No edge is waiting or half handled, and nothing is being reset.         *)
Quiet == ~Changed /\ isr = "none" /\ ~Resetting /\ ~Enabling

(* The count is the travel since the last reset as long as each edge was   *)
(* handled before the next; edges that come too fast are lost in pairs.    *)
(* Only a reset that runs into an edge or into another reset falsifies it, *)
(* and only until the next one that does not.                              *)
CountIsTravel ==
    Quiet /\ ~torn => /\ lost = "none" => counter = turned
                      /\ lost = "pairs" => (counter - turned) % 2 = 0

(* After edges came too fast the counting goes on from the right state,    *)
(* and so it does after any reset that did not run into something else.    *)
StateIsCurrent == Quiet /\ ~torn /\ lost # "any" => prev_state = Pins(shaft)

(* Every variable has its type.                                            *)
EncTypeOK ==
    /\ shaft \in 0 .. 3
    /\ pending \subseteq {"A", "B", "index"}
    /\ {edge_irq, enc_irq_enabled, torn} \subseteq BOOLEAN
    /\ {counter, isr_sum, turned} \subseteq Int
    /\ {prev_state, isr_state, core0_state, core1_state} \subseteq 0 .. 3
    /\ isr \in {"none", "sum"} \cup ResetSteps
    /\ core1 \in {"top", "enable", "switch"} \cup ResetSteps
    /\ core0 \in {"idle"} \cup ResetSteps
    /\ lost \in {"none", "pairs", "any"}
================================================================================
