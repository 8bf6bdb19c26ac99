---------------------------------- MODULE Board ----------------------------------
(***************************************************************************)
(* The board from reset to reset: main() brings up the configuration of    *)
(* FlashConfig, loads the RP2040 that is the FlexGPIO expander             *)
(* (rp2040_ram_loader.c), starts core 1 and handles frames, with the       *)
(* expander's inputs and outputs (flexgpio.c).  The RP2040 is a computer   *)
(* of its own on an I2C bus: it outlives the resets of the RP2350, and     *)
(* core 1 may load it anew from the terminal while core 0 uses the bus.    *)
(*                                                                         *)
(* External: the program of the RP2040 is not in this repository.  It      *)
(* drives the outputs and signals changes of the inputs once it has been   *)
(* written a packet; its bootloader drives nothing.                        *)
(***************************************************************************)
EXTENDS FlashConfig

VARIABLES
    rp2040,       \* "bootloader" or "app"
    ex_out,       \* an output of the expander
    ex_mask,      \* does it signal changes of its inputs?
    ex_in,        \* an input of the expander
    flexgpio_pending,
    input,        \* tx_buffer->inputs[2]
    last_probe,   \* last_probe_mask; {} since the boot
    frame,        \* the outputs and the probe selection being handled
    doubtful      \* history: was the last read junk, or the mask lost?

expander  == <<rp2040, ex_out, ex_mask>>
sync      == <<flexgpio_pending, input, last_probe, frame>>
boardVars == <<flashVars, core0, core1, expander, ex_in, sync, doubtful>>

--------------------------------------------------------------------------------
NoFrame == [out |-> 0, probe |-> FALSE]

BoardInit ==
    /\ FlashInit
    /\ rp2040 = "bootloader"
    /\ ex_out = 0
    /\ ex_mask = FALSE
    /\ ex_in \in {0, 1}
    /\ flexgpio_pending = FALSE
    /\ input = 0
    /\ last_probe = {}
    /\ frame = NoFrame
    /\ doubtful = FALSE

(* The RP2040 starts a program: nothing is driven or signalled.            *)
Starts(program) == rp2040' = program /\ ex_out' = 0 /\ ex_mask' = FALSE

(* flexgpio_write(): nobody looks whether it succeeds.                     *)
Written(out) ==
    \/ rp2040 = "app" /\ ex_out' = out /\ ex_mask' = TRUE /\ UNCHANGED rp2040
    \/ UNCHANGED expander

--------------------------------------------------------------------------------
(* Mutant: a program that still answers is kept.                           *)
ContactRp2040_KeepsApp ==
    /\ core0 = "start"
    /\ \/ rp2040 = "bootloader" /\ core0' = "upload" /\ Starts("bootloader")
       \/ rp2040 = "app" /\ core0' = "init" /\ UNCHANGED expander
       \/ core0' = "halted" /\ UNCHANGED expander
    /\ UNCHANGED <<flashVars, core1, ex_in, sync, doubtful>>

(* rp2040_enter_bootloader(): a bootloader answers, a program is told to   *)
(* go back to it.  After five tries main() halts, with core 1 not started. *)
ContactRp2040 ==
    /\ core0 = "start"
    /\ \/ core0' = "upload" /\ Starts("bootloader")
       \/ core0' = "halted" /\ UNCHANGED expander
    /\ UNCHANGED <<flashVars, core1, ex_in, sync, doubtful>>

(* rp2040_load_and_run(): every chunk is acknowledged, or the boot fails;  *)
(* whether the program then runs is printed and ignored.                   *)
UploadProgram ==
    /\ core0 = "upload"
    /\ \/ core0' = "init" /\ \E program \in {"app", "bootloader"} : Starts(program)
       \/ core0' = "halted" /\ UNCHANGED expander
    /\ UNCHANGED <<flashVars, core1, ex_in, sync, doubtful>>

(* flexgpio_init(), and core 1 is started.                                 *)
InitExpander ==
    /\ core0 = "init"
    /\ Written(0)
    /\ flexgpio_pending' = TRUE
    /\ core0' = "loop"
    /\ core1' = "on"
    /\ UNCHANGED <<flashVars, ex_in, input, last_probe, frame, doubtful>>

--------------------------------------------------------------------------------
(***************************************************************************)
(* Core 0 handles a frame.  The bus may fail at any time, also because     *)
(* core 1 is on it.                                                        *)
(***************************************************************************)
TakeFrame ==
    /\ core0 = "loop"
    /\ frame' \in [out : {0, 1}, probe : BOOLEAN]
    /\ core0' = "sync"
    /\ UNCHANGED <<flashVars, core1, expander, ex_in, flexgpio_pending, input,
                   last_probe, doubtful>>

SyncInputs ==
    /\ core0 = "sync"
    /\ core0' = IF flexgpio_pending THEN "read" ELSE "push"
    /\ flexgpio_pending' = FALSE
    /\ UNCHANGED <<flashVars, core1, expander, ex_in, input, last_probe, frame,
                   doubtful>>

(* flexgpio_read() does not say that it failed: what it leaves is then     *)
(* what was on the stack.                                                  *)
ReadInputs ==
    /\ core0 = "read"
    /\ \/ rp2040 = "app" /\ input' = ex_in /\ doubtful' = ~ex_mask
       \/ input' \in {0, 1} /\ doubtful' = TRUE
    /\ core0' = "push"
    /\ UNCHANGED <<flashVars, core1, expander, ex_in, flexgpio_pending, last_probe,
                   frame>>

(* Mutant: the flag is cleared here, at the end of the exchange.           *)
PushOutputs_Clears ==
    /\ core0 = "push"
    /\ Written(frame.out)
    /\ flexgpio_pending' = (last_probe # {frame.probe})
    /\ last_probe' = {frame.probe}
    /\ frame' = NoFrame
    /\ core0' = "loop"
    /\ UNCHANGED <<flashVars, core1, ex_in, input, doubtful>>

PushOutputs ==
    /\ core0 = "push"
    /\ Written(frame.out)
    /\ flexgpio_pending' = (flexgpio_pending \/ last_probe # {frame.probe})
    /\ last_probe' = {frame.probe}
    /\ frame' = NoFrame
    /\ core0' = "loop"
    /\ UNCHANGED <<flashVars, core1, ex_in, input, doubtful>>

HandleData == TakeFrame \/ SyncInputs \/ ReadInputs \/ PushOutputs

--------------------------------------------------------------------------------
(* An input changes; flexgpio_irq_handler() runs on core 0 between any two *)
(* steps of it.                                                            *)
InputChanges ==
    /\ ex_in' = 1 - ex_in
    /\ flexgpio_pending' = (flexgpio_pending \/ ex_mask)
    /\ UNCHANGED <<flashVars, core0, core1, expander, input, last_probe, frame,
                   doubtful>>

(* "rp2040_reload" on core 1: the expander goes down, and comes up, or     *)
(* not, with nothing written to it; flexgpio_pending is left alone.        *)
ReloadCommand ==
    /\ core1 = "on"
    /\ core1' = "reload"
    /\ \/ Starts("bootloader") /\ doubtful' = TRUE
       \/ UNCHANGED <<expander, doubtful>>
    /\ UNCHANGED <<flashVars, core0, ex_in, sync>>

ReloadEnds ==
    /\ core1 = "reload"
    /\ core1' = "on"
    /\ \/ rp2040 = "bootloader" /\ Starts("app")
       \/ UNCHANGED expander
    /\ UNCHANGED <<flashVars, core0, ex_in, sync, doubtful>>

--------------------------------------------------------------------------------
(* A reset clears the RAM, not the expander; a power cut clears both.      *)
Restarts ==
    /\ Ram0
    /\ core0' = "load"
    /\ core1' = "off"
    /\ flexgpio_pending' = FALSE
    /\ input' = 0
    /\ last_probe' = {}
    /\ frame' = NoFrame
    /\ doubtful' = FALSE
    /\ NothingAsked
    /\ UNCHANGED <<flash, ex_in>>

Reset ==
    /\ core0 = "written" \/ core1 = "resetting"
    /\ Restarts
    /\ UNCHANGED <<expander>>

PowerCut ==
    /\ Restarts
    /\ Starts("bootloader")

--------------------------------------------------------------------------------
rest == <<expander, ex_in, sync, doubtful>>

Boot == ContactRp2040 \/ UploadProgram \/ InitExpander

BoardNext ==
    \/ Flash /\ UNCHANGED rest
    \/ Terminal /\ UNCHANGED rest
    \/ Boot \/ HandleData
    \/ InputChanges
    \/ ReloadCommand \/ ReloadEnds
    \/ Reset \/ PowerCut

BoardSpec == BoardInit /\ [][BoardNext]_boardVars

(* Core 0 runs, and so does the watchdog.                                  *)
FairBoardSpec ==
    /\ BoardSpec
    /\ WF_boardVars((Flash /\ UNCHANGED rest) \/ Boot \/ Reset)

--------------------------------------------------------------------------------
(* A boot ends: whatever the sector holds and whichever step of a save     *)
(* fails, the defaults the boot itself saves do not send it round again    *)
(* for ever; only the power can, if it never stays on.                     *)
BootEnds ==
    \/ core0 = "load" ~> core0 \in {"loop", "halted"}
    \/ []<><<PowerCut>>_boardVars

(* Until a frame says otherwise the outputs of the expander are off, also  *)
(* after a reset that left the RP2040 running with its outputs on, and     *)
(* although nobody looks whether flexgpio_init() reached it.               *)
OutputsOffUntilFrame == core0 = "loop" /\ last_probe = {} => ex_out = 0

(* An input that changes while core 0 reads the inputs is read again.      *)
InputsAreCurrent ==
    core0 = "loop" /\ ~flexgpio_pending /\ ~doubtful => input = ex_in

(* Every variable has its type.                                            *)
BoardTypeOK ==
    /\ FlashTypeOK
    /\ rp2040 \in {"bootloader", "app"}
    /\ {ex_out, ex_in, input} \subseteq {0, 1}
    /\ {ex_mask, flexgpio_pending, doubtful} \subseteq BOOLEAN
    /\ last_probe \in SUBSET BOOLEAN
    /\ frame \in [out : {0, 1}, probe : BOOLEAN]
    /\ core0 \in {"load", "sum", "copy", "erase", "program", "written", "start",
                  "upload", "init", "loop", "halted", "sync", "read", "push"}
================================================================================
