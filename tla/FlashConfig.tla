------------------------------- MODULE FlashConfig -------------------------------
(***************************************************************************)
(* The configuration of the board (flash_config.c) and the terminal that   *)
(* edits it (serial_terminal.c).  The terminal runs on core 1 and only     *)
(* asks for a save; core 0 saves, from its main loop or while it boots,    *)
(* and a save that succeeds resets the board.  This module has the states  *)
(* and the operations; Board puts them together with the rest of a boot.   *)
(*                                                                         *)
(* A configuration is a model value.  With its checksum it is a record     *)
(* [data, sum], whole when the two agree; a sector that is erased, or was  *)
(* when the power went, or is of another CONFIG_VERSION, has NoConfig.     *)
(***************************************************************************)
EXTENDS Integers

CONSTANTS
    Configs,   \* what a configuration_t may hold, checksum left out
    Default,   \* default_config
    NoConfig

ASSUME ConfigAssumption == Default \in Configs /\ NoConfig \notin Configs

VARIABLES
    flash,           \* the sector at FLASH_TARGET_OFFSET
    flash_config,    \* the copy in RAM, which the cores share
    settings,        \* net_info, port and TIMEOUT_US: what the board runs on
    save_requested,
    buffer,          \* the data of the save in progress, until it is freed
    saves_left,      \* saves the boot will still try if this one fails
    core0, core1,    \* where the cores are
    asked,           \* history: what the save in progress is to save
    touched          \* history: did core 1 change flash_config meanwhile?

ram       == <<flash_config, settings, save_requested, buffer, saves_left>>
flashVars == <<flash, ram, asked, touched>>

--------------------------------------------------------------------------------
Stored(data, sum) == [data |-> data, sum |-> sum]
Whole(data)       == Stored(data, data)
Erased            == Whole(NoConfig)

(* Mutant: the version is not looked at, nor is an erased sector told.     *)
Valid_AnyVersion(config) == config.data = config.sum

Valid(config) == config.data = config.sum /\ config.data # NoConfig

Ram0 == /\ flash_config' = Erased
        /\ settings' = NoConfig
        /\ save_requested' = FALSE
        /\ buffer' = Erased
        /\ saves_left' = 0

NothingAsked == asked' = NoConfig /\ touched' = FALSE

FlashInit ==
    /\ flash \in {Whole(c) : c \in Configs} \cup {Erased}
    /\ flash_config = Erased
    /\ settings = NoConfig
    /\ save_requested = FALSE
    /\ buffer = Erased
    /\ saves_left = 0
    /\ core0 = "load"
    /\ core1 = "off"
    /\ asked = NoConfig
    /\ touched = FALSE

--------------------------------------------------------------------------------
(***************************************************************************)
(* Core 0.                                                                 *)
(***************************************************************************)
(* load_configuration(): a sector that is not valid gives way to the       *)
(* defaults, which are saved, twice if the first save fails.               *)
LoadConfig ==
    /\ core0 = "load"
    /\ IF Valid(flash)
       THEN /\ flash_config' = flash
            /\ settings' = flash.data
            /\ core0' = "start"
            /\ UNCHANGED <<saves_left, asked, touched>>
       ELSE /\ flash_config' = Whole(Default)
            /\ saves_left' = 1
            /\ asked' = Default
            /\ touched' = FALSE
            /\ core0' = "sum"
            /\ UNCHANGED settings
    /\ UNCHANGED <<flash, save_requested, buffer, core1>>

ConsumeRequest ==
    /\ core0 = "loop"
    /\ save_requested
    /\ save_requested' = FALSE
    /\ core0' = "sum"
    /\ UNCHANGED <<flash, flash_config, settings, buffer, saves_left, core1, asked,
                   touched>>

(* Mutant: the checksum is worked out when the data has been copied.       *)
SumConfig_Late ==
    /\ core0 = "sum"
    /\ core0' = "copy"
    /\ UNCHANGED <<flashVars, core1>>

SumConfig ==
    /\ core0 = "sum"
    /\ flash_config' = Whole(flash_config.data)
    /\ core0' = "copy"
    /\ UNCHANGED <<flash, settings, save_requested, buffer, saves_left, core1,
                   asked, touched>>

CopyConfig ==
    /\ core0 = "copy"
    /\ buffer' = flash_config
    /\ core0' = "erase"
    /\ UNCHANGED <<flash, flash_config, settings, save_requested, saves_left, core1,
                   asked, touched>>

EraseSector ==
    /\ core0 = "erase"
    /\ flash' = Erased
    /\ core0' = "program"
    /\ UNCHANGED <<ram, core1, asked, touched>>

ProgramSector ==
    /\ core0 = "program"
    /\ flash' = buffer
    /\ buffer' = Erased
    /\ core0' = "written"
    /\ UNCHANGED <<flash_config, settings, save_requested, saves_left, core1, asked,
                   touched>>

(* Mutants: the board is reset after a save that failed, too; the boot     *)
(* does not count its saves.                                               *)
SaveFails_Resets ==
    /\ core0 \in {"sum", "erase", "program"}
    /\ buffer' = Erased
    /\ core0' = "written"
    /\ UNCHANGED <<flash, flash_config, settings, save_requested, saves_left, core1,
                   asked, touched>>

SaveFails_NoCount ==
    /\ core0 \in {"sum", "erase", "program"}
    /\ buffer' = Erased
    /\ core0' = "sum"
    /\ saves_left' = saves_left - 1
    /\ UNCHANGED <<flash, flash_config, settings, save_requested, core1, asked,
                   touched>>

(* No memory, or flash_safe_execute() refuses.  A save that fails after    *)
(* the erase leaves the sector erased; the boot goes on with the defaults. *)
SaveFails ==
    /\ core0 \in {"sum", "erase", "program"}
    /\ buffer' = Erased
    /\ IF saves_left > 0
       THEN core0' = "sum" /\ saves_left' = saves_left - 1 /\ UNCHANGED settings
       ELSE IF core1 = "off"
       THEN core0' = "start" /\ settings' = flash_config.data /\ UNCHANGED saves_left
       ELSE core0' = "loop" /\ UNCHANGED <<settings, saves_left>>
    /\ IF saves_left > 0 \/ save_requested THEN UNCHANGED <<asked, touched>>
                                          ELSE NothingAsked
    /\ UNCHANGED <<flash, flash_config, save_requested, core1>>

Flash == \/ LoadConfig \/ ConsumeRequest \/ SumConfig \/ CopyConfig
         \/ EraseSector \/ ProgramSector \/ SaveFails

--------------------------------------------------------------------------------
(***************************************************************************)
(* Core 1: the commands.  It does not run while core 0 erases or programs, *)
(* but between the two, and before, it does.                               *)
(***************************************************************************)
Saving ==
    save_requested \/ core0 \in {"sum", "copy", "erase", "program", "written"}

(* A change of flash_config, and what it does to a save under way.         *)
Changed(config) ==
    /\ flash_config' = config
    /\ touched' = (touched \/ (Saving /\ config.data # flash_config.data))

(* save_configuration() leaves the checksum of what was there before.      *)
Unsummed(data) == Stored(data, flash_config.sum)

(* "ip", "port", "timeout", ...                                            *)
SetCommand ==
    /\ core1 = "on"
    /\ settings' \in Configs
    /\ Changed(Unsummed(settings'))
    /\ UNCHANGED <<flash, save_requested, buffer, saves_left, core0, core1, asked>>

(* A request that finds none pending is the one that will be served.       *)
Request(config) ==
    /\ save_requested' = TRUE
    /\ IF Saving
       THEN Changed(config) /\ UNCHANGED asked
       ELSE flash_config' = config /\ asked' = config.data /\ touched' = FALSE

SaveCommand ==
    /\ core1 = "on"
    /\ Request(Unsummed(settings))
    /\ UNCHANGED <<flash, settings, buffer, saves_left, core0, core1>>

(* The board goes on running on its settings until it is reset.            *)
DefaultsCommand ==
    /\ core1 = "on"
    /\ Request(Whole(Default))
    /\ UNCHANGED <<flash, settings, buffer, saves_left, core0, core1>>

(* "reset", "reboot": the watchdog bites a millisecond later.              *)
ResetCommand ==
    /\ core1 = "on"
    /\ core1' = "resetting"
    /\ UNCHANGED <<flashVars, core0>>

Terminal == SetCommand \/ SaveCommand \/ DefaultsCommand \/ ResetCommand

--------------------------------------------------------------------------------
(* The configuration asked for is what the next boot finds, unless core 1  *)
(* changes flash_config between the request and the end of the save.  The  *)
(* checksum is worked out before the copy is taken: one change in between  *)
(* and the boot refuses what was saved.                                    *)
SavedConfigIsKept == core0 = "written" /\ ~touched => flash = Whole(asked)

(* The board never runs on what it did not find whole in the flash, was    *)
(* not told at the terminal, and is not the default.                       *)
RunsOnAConfig == core0 \in {"start", "loop"} => settings \in Configs

FlashTypeOK ==
    LET Records == {Stored(d, s) : d, s \in Configs \cup {NoConfig}}
    IN  /\ {flash, flash_config, buffer} \subseteq Records
        /\ {settings, asked} \subseteq Configs \cup {NoConfig}
        /\ {save_requested, touched} \subseteq BOOLEAN
        /\ saves_left \in {0, 1}
        /\ core1 \in {"off", "on", "reload", "resetting"}
================================================================================
