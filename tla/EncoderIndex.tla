------------------------------ MODULE EncoderIndex -------------------------------
(***************************************************************************)
(* An encoder counted by the PIO with its index pulse, from the pins to    *)
(* the counts the driver takes for motion: gpio_callback() and the encoder *)
(* parts of core1_entry() and handle_data() in firmware/src/main.c, and    *)
(* of udp_io_process_recv() in hal-driver/flexi-ninja.c.                   *)
(*                                                                         *)
(* The index interrupts core 1, which also switches that interrupt on and  *)
(* off as the control bits in rx_buffer say, good or garbled, and zeroes   *)
(* the count when it takes the link to have timed out.  Core 0 resets the  *)
(* count on request, and reports it and the index events in two steps.     *)
(* The two are interleaved at will.  The driver throws a reply away whose  *)
(* checksum is wrong.  The PIO program, vendored, counts; counts are       *)
(* bounded by Reach.                                                       *)
(***************************************************************************)
EXTENDS Integers

CONSTANTS
    Reach,        \* how far the shaft turns between two resets, or two replies
    Scale         \* counts of a turn, as the driver is told

ASSUME ReachAssumption == Reach \in Nat \ {0}
ASSUME ScaleAssumption == Scale \in Nat /\ Scale > 2 * Reach

VARIABLES
    y,                  \* register Y of the PIO program: the count
    pio_enc_offset,
    index_irq,          \* is the interrupt of the index on?
    index_edge,         \* an index edge is waiting
    isr,                \* where gpio_callback() is
    core1,              \* where core 1's loop is
    enc_index_enabled,
    index_reset_flags,
    core0,              \* where handle_data() is
    enc_reset_done,
    rx_control,         \* rx_buffer->enc_control
    reply,              \* the reply in the making, or made; and history
    raw_count,          \* the driver's
    turned,             \* history: travel since the index edge being handled
    moved,              \* history: travel since the last reply not thrown away
    rezeroed,           \* history: reset since then, other than by the index
    crossed,            \* history: what has since parted a count from its event
    before,             \* history: what had when the last reply was accepted
    spike               \* history: why the driver took a reset for motion

index   == <<index_irq, index_edge, isr, enc_index_enabled>>
frame   == <<core0, enc_reset_done, rx_control, reply>>
driver  == <<raw_count, before, spike>>
indexVars == <<y, pio_enc_offset, index, core1, index_reset_flags, frame,
               driver, turned, moved, rezeroed, crossed>>

NoReply == [count |-> 0, event |-> FALSE, moved |-> 0, exact |-> TRUE]
Control == [reset : BOOLEAN, index : BOOLEAN]

IndexInit ==
    /\ y = 0 /\ pio_enc_offset = 0
    /\ index_irq = FALSE /\ index_edge = FALSE /\ isr = "none"
    /\ core1 = "index"
    /\ enc_index_enabled = FALSE /\ index_reset_flags = FALSE
    /\ core0 = "idle" /\ enc_reset_done = FALSE
    /\ rx_control = [reset |-> FALSE, index |-> FALSE]
    /\ reply = NoReply
    /\ raw_count = 0
    /\ turned = 0 /\ moved = 0 /\ rezeroed = FALSE
    /\ crossed = "none" /\ before = "none" /\ spike = "none"

--------------------------------------------------------------------------------
Turn(by) ==
    /\ {turned + by, moved + by, moved + reply.moved + by, y + by} \subseteq -Reach .. Reach
    /\ y' = y + by
    /\ turned' = IF isr = "flag" THEN turned + by ELSE 0
    /\ moved' = moved + by
    /\ UNCHANGED <<pio_enc_offset, index, core1, index_reset_flags, frame,
                   driver, rezeroed, crossed>>

IndexPulse ==
    /\ index_irq
    /\ index_edge' = TRUE
    /\ UNCHANGED <<y, pio_enc_offset, index_irq, isr, enc_index_enabled, core1,
                   index_reset_flags, frame, driver, turned, moved, rezeroed,
                   crossed>>

(* The interrupt runs into core 0 between the read of the count and the    *)
(* clearing of the flag that goes with it.                                 *)
InReply == core0 \in {"flags", "clear"}
Tear(tears) == crossed' = IF tears /\ crossed = "none" THEN "torn" ELSE crossed

(* gpio_callback() on core 1: the counter is zeroed first.                 *)
Index ==
    /\ index_edge /\ isr = "none"
    /\ index_edge' = FALSE
    /\ y' = 0
    /\ turned' = 0
    /\ isr' = "flag"
    /\ Tear(InReply)
    /\ UNCHANGED <<pio_enc_offset, index_irq, enc_index_enabled, core1,
                   index_reset_flags, frame, driver, moved, rezeroed>>

(* Mutant: the interrupt goes off, but not the note that it is on.         *)
IndexFlag_KeepsNote ==
    /\ isr = "flag"
    /\ index_reset_flags' = TRUE
    /\ index_irq' = (index_irq /\ ~enc_index_enabled)
    /\ isr' = "none"
    /\ turned' = 0
    /\ Tear(InReply)
    /\ UNCHANGED <<y, pio_enc_offset, index_edge, enc_index_enabled, core1,
                   frame, driver, moved, rezeroed>>

(* Then the flag is set and the interrupt switched off, until core 1's     *)
(* loop switches it on again.                                              *)
IndexFlag ==
    /\ isr = "flag"
    /\ index_reset_flags' = TRUE
    /\ index_irq' = (index_irq /\ ~enc_index_enabled)
    /\ enc_index_enabled' = FALSE
    /\ isr' = "none"
    /\ turned' = 0
    /\ Tear(InReply)
    /\ UNCHANGED <<y, pio_enc_offset, index_edge, core1, frame, driver, moved,
                   rezeroed>>

--------------------------------------------------------------------------------
(* Core 1's loop, which its interrupts suspend.  First the index           *)
(* interrupt; an edge that is waiting when it is switched on is forgotten. *)
IndexSwitch ==
    /\ isr = "none" /\ core1 = "index"
    /\ IF rx_control.index = enc_index_enabled
       THEN UNCHANGED <<core1, index_irq, index_edge>>
       ELSE /\ index_irq' = rx_control.index
            /\ index_edge' = FALSE
            /\ core1' = IF rx_control.index THEN "note_on" ELSE "note_off"
    /\ UNCHANGED <<y, pio_enc_offset, isr, enc_index_enabled, index_reset_flags,
                   frame, driver, turned, moved, rezeroed, crossed>>

IndexNote ==
    /\ isr = "none" /\ core1 \in {"note_on", "note_off"}
    /\ enc_index_enabled' = (core1 = "note_on")
    /\ core1' = "index"
    /\ UNCHANGED <<y, pio_enc_offset, index_irq, index_edge, isr,
                   index_reset_flags, frame, driver, turned, moved, rezeroed,
                   crossed>>

(* The link is taken to have timed out, whatever core 0 is at: Y is        *)
(* zeroed, pio_enc_offset is not.                                          *)
Disconnect ==
    /\ isr = "none" /\ core1 = "index"
    /\ y' = 0
    /\ rezeroed' = TRUE
    /\ UNCHANGED <<pio_enc_offset, index, core1, index_reset_flags, frame,
                   driver, turned, moved, crossed>>

Core1 == Index \/ IndexFlag \/ IndexSwitch \/ IndexNote \/ Disconnect

--------------------------------------------------------------------------------
(* The counts of a period; while the index is looked for, more than half a *)
(* turn is taken for the reset of the count.                               *)
Delta(pin) ==
    LET delta == reply.count - raw_count
    IN  IF pin /\ 2 * delta < -Scale THEN delta + Scale
        ELSE IF pin /\ 2 * delta > Scale THEN delta - Scale
        ELSE delta

Cause ==
    CASE "lost" \in {crossed, before} -> "lost"
      [] crossed = "none" /\ before = "none" -> "nothing"
      [] OTHER -> "torn"

(* The driver handles the reply to the frame before: it takes the counts   *)
(* since the reply before that for motion, unless this one tells of an     *)
(* index reset.                                                            *)
Accept(pin) ==
    /\ raw_count' = reply.count
    /\ spike' = IF reply.exact /\ ~reply.event /\ Delta(pin) # reply.moved
                THEN Cause ELSE "none"
    /\ before' = crossed
    /\ crossed' = "none"
    /\ UNCHANGED <<moved, rezeroed>>

(* Mutant: the baseline of the counts goes on with a reply thrown away.    *)
Reject_Rebases ==
    /\ raw_count' = reply.count
    /\ spike' = "none"
    /\ crossed' = IF reply.event THEN "lost" ELSE crossed
    /\ moved' = moved + reply.moved
    /\ rezeroed' = (rezeroed \/ ~reply.exact)
    /\ UNCHANGED before

(* Its checksum is wrong, and it leaves at once: with the reply goes the   *)
(* index event that it may have told of.                                   *)
Reject ==
    /\ spike' = "none"
    /\ crossed' = IF reply.event THEN "lost" ELSE crossed
    /\ moved' = moved + reply.moved
    /\ rezeroed' = (rezeroed \/ ~reply.exact)
    /\ UNCHANGED <<raw_count, before>>

(* A transfer: a reply comes in, and the control bits go out.  The driver  *)
(* asks for the index as index_triggered says, but as a garbled frame      *)
(* carries any bits, any are possible.  (Over SPI the reply is one period  *)
(* older; only differences of successive ones matter here.)                *)
Exchange ==
    /\ core0 = "idle"
    /\ (\E pin \in BOOLEAN : Accept(pin)) \/ Reject
    /\ rx_control' \in Control
    /\ reply' = NoReply
    /\ core0' = "reset"
    /\ UNCHANGED <<y, pio_enc_offset, index, core1, index_reset_flags,
                   enc_reset_done, turned>>

(* The reset bit has come on: pio_enc_offset takes the count, which the    *)
(* restart of the state machine leaves in Y.                               *)
ControlReset ==
    /\ core0 = "reset"
    /\ enc_reset_done' = rx_control.reset
    /\ IF rx_control.reset /\ ~enc_reset_done
       THEN pio_enc_offset' = y /\ rezeroed' = TRUE
       ELSE UNCHANGED <<pio_enc_offset, rezeroed>>
    /\ core0' = "count"
    /\ UNCHANGED <<y, index, core1, index_reset_flags, rx_control, reply,
                   driver, turned, moved, crossed>>

(* While the reset bit is held the count is reported as 0.                 *)
ReplyCount ==
    /\ core0 = "count"
    /\ reply' = [count |-> IF enc_reset_done THEN 0 ELSE y - pio_enc_offset,
                 event |-> FALSE, moved |-> moved,
                 exact |-> ~rezeroed /\ ~enc_reset_done]
    /\ moved' = 0
    /\ rezeroed' = enc_reset_done
    /\ Tear(isr = "flag")
    /\ core0' = "flags"
    /\ UNCHANGED <<y, pio_enc_offset, index, core1, index_reset_flags,
                   enc_reset_done, rx_control, driver, turned>>

(* Masked on core 0, which keeps core 1 from nothing.                      *)
ReplyEvent ==
    /\ core0 = "flags"
    /\ reply' = [reply EXCEPT !.event = index_reset_flags]
    /\ core0' = "clear"
    /\ UNCHANGED <<y, pio_enc_offset, index, core1, index_reset_flags,
                   enc_reset_done, rx_control, driver, turned, moved, rezeroed,
                   crossed>>

ClearEvent ==
    /\ core0 = "clear"
    /\ index_reset_flags' = FALSE
    /\ core0' = "idle"
    /\ UNCHANGED <<y, pio_enc_offset, index, core1, enc_reset_done, rx_control,
                   reply, driver, turned, moved, rezeroed, crossed>>

Core0 == Exchange \/ ControlReset \/ ReplyCount \/ ReplyEvent \/ ClearEvent

IndexNext == Turn(1) \/ Turn(-1) \/ IndexPulse \/ Core0 \/ Core1

IndexSpec == IndexInit /\ [][IndexNext]_indexVars

--------------------------------------------------------------------------------
(* Core 1's loop and its interrupt agree whether the index interrupt is    *)
(* on, although both change it and the loop is interrupted in between.     *)
IndexSwitchIsNoted ==
    isr # "flag" /\ core1 \notin {"note_on", "note_off"}
        => index_irq = enc_index_enabled

(* The driver takes no reset by the index for motion but for two reasons:  *)
(* core 1's interrupt fell between the count and the event of a reply, or  *)
(* the reply with the event was thrown away.  Either is good for one       *)
(* spike, in the reply it befell or the next one accepted.                 *)
SpikeHasCause == spike # "nothing"

(* "Rebase encoder timing/count state on index-reset event so one-shot     *)
(* index-enable reset does not inject a velocity spike"                    *)
(* (flexi-ninja.c:747): as long as no reply with an event is lost, the     *)
(* driver takes no reset by the index for motion.                          *)
NoVelocitySpike == spike \in {"none", "lost"}

(* "Reset the selected encoder exactly on the index edge." (main.c:956):   *)
(* while the interrupt runs, the count as reported is the travel since the *)
(* edge.                                                                   *)
IndexResetsCount == isr = "flag" => y - pio_enc_offset = turned

(* Every variable has its type.                                            *)
IndexTypeOK ==
    /\ {y, pio_enc_offset, turned, moved, moved + reply.moved} \subseteq -Reach .. Reach
    /\ raw_count \in -2 * Reach .. 2 * Reach
    /\ {index_irq, index_edge, enc_index_enabled, index_reset_flags,
        enc_reset_done, rezeroed} \subseteq BOOLEAN
    /\ {crossed, before} \subseteq {"none", "torn", "lost"}
    /\ spike \in {"none", "nothing", "torn", "lost"}
    /\ isr \in {"none", "flag"}
    /\ core1 \in {"index", "note_on", "note_off"}
    /\ core0 \in {"idle", "reset", "count", "flags", "clear"}
    /\ rx_control \in Control
    /\ reply \in [count : -2 * Reach .. 2 * Reach, event : BOOLEAN,
                 moved : -Reach .. Reach, exact : BOOLEAN]
================================================================================
