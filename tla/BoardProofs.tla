------------------------------- MODULE BoardProofs -------------------------------
(***************************************************************************)
(* Theorems about the board, for every set of configurations: power cuts   *)
(* and resets at any step, any commands at the terminal, any failures of   *)
(* the flash and of the bus.                                               *)
(***************************************************************************)
EXTENDS Board, TLAPS

USE ConfigAssumption

(* Before core 1 runs, and asks for a save, core 0 boots.                  *)
Booting == {"load", "start", "upload", "init", "halted"}
Running == {"loop", "sync", "read", "push"}

CoresInv ==
    /\ core0 \in Booting => core1 = "off"
    /\ core0 \in Running => core1 # "off"
    /\ core1 = "off" => ~save_requested

(* What the board runs on is a configuration once it is set; a save that   *)
(* fails while the board boots sets it to the copy in RAM.                 *)
SettingsInv ==
    /\ core0 \in {"start", "upload", "init"} \/ core1 # "off" => settings \in Configs
    /\ core1 = "off" /\ core0 \in {"sum", "copy", "erase", "program"}
          => flash_config.data \in Configs

(* As long as core 1 lets it alone, what was asked for is handed on from   *)
(* one stage of the save to the next.                                      *)
SaveInv ==
    ~touched =>
        /\ Saving => flash_config.data = asked
        /\ core0 = "copy" => flash_config = Whole(asked)
        /\ core0 \in {"erase", "program"} => buffer = Whole(asked)
        /\ core0 = "written" => flash = Whole(asked)

(* A program that was just loaded drives nothing, nor does a bootloader    *)
(* signal anything; only frames turn outputs on.                           *)
OutputInv ==
    /\ rp2040 = "bootloader" => ~ex_mask
    /\ core0 \in {"upload", "init"} => ex_out = 0
    /\ core1 # "off" /\ last_probe = {} => ex_out = 0

(* Unless something is pending, or the last read cannot be trusted, the    *)
(* inputs are as read, and the next change will be signalled.              *)
InputInv ==
    core1 # "off" /\ core0 # "read" /\ ~flexgpio_pending /\ ~doubtful
        => input = ex_in /\ ex_mask

--------------------------------------------------------------------------------
(* The records of the flash module.                                        *)
LEMMA Records ==
    LET R == {Stored(d, s) : d, s \in Configs \cup {NoConfig}}
    IN  /\ \A r \in R : r.data \in Configs \cup {NoConfig}
        /\ \A d \in Configs \cup {NoConfig}, r \in R :
              Whole(d) \in R /\ Stored(d, r.sum) \in R
        /\ Erased \in R /\ Whole(Default) \in R
BY DEF Stored, Whole, Erased

(* What a configuration without and with its checksum is.                  *)
LEMMA Wholeness ==
    /\ \A d : Whole(d).data = d /\ Whole(d).sum = d
    /\ \A d, s : Stored(d, s).data = d /\ Stored(d, s).sum = s
    /\ \A d, s : Stored(d, s).data = Stored(d, s).sum => Stored(d, s) = Whole(d)
BY DEF Stored, Whole

(* Every step keeps the configuration's types.                             *)
LEMMA FlashTypeStep ==
    ASSUME FlashTypeOK, [BoardNext]_boardVars
    PROVE  FlashTypeOK'
<1> DEFINE R == {Stored(d, s) : d, s \in Configs \cup {NoConfig}}
<1>1. /\ flash \in R /\ flash_config \in R /\ buffer \in R
      /\ {settings, asked} \subseteq Configs \cup {NoConfig}
      /\ {save_requested, touched} \subseteq BOOLEAN
      /\ saves_left \in {0, 1}
      /\ core1 \in {"off", "on", "reload", "resetting"}
  BY DEF FlashTypeOK
<1>2. /\ \A r \in R : r.data \in Configs \cup {NoConfig}
      /\ \A d \in Configs \cup {NoConfig}, r \in R :
            Whole(d) \in R /\ Stored(d, r.sum) \in R
      /\ Erased \in R /\ Whole(Default) \in R
  BY Records
<1> HIDE DEF R
<1> SUFFICES /\ flash' \in R /\ flash_config' \in R /\ buffer' \in R
             /\ {settings', asked'} \subseteq Configs \cup {NoConfig}
             /\ {save_requested', touched'} \subseteq BOOLEAN
             /\ saves_left' \in {0, 1}
             /\ core1' \in {"off", "on", "reload", "resetting"}
  BY DEF R, FlashTypeOK
<1> USE DEF flashVars, ram
<1>3. CASE LoadConfig
  BY <1>1, <1>2, <1>3 DEF LoadConfig
<1>4. CASE ConsumeRequest
  BY <1>1, <1>4 DEF ConsumeRequest
<1>5. CASE SumConfig
  BY <1>1, <1>2, <1>5 DEF SumConfig
<1>6. CASE CopyConfig
  BY <1>1, <1>6 DEF CopyConfig
<1>7. CASE EraseSector
  BY <1>1, <1>2, <1>7 DEF EraseSector
<1>8. CASE ProgramSector
  BY <1>1, <1>2, <1>8 DEF ProgramSector
<1>9. CASE SaveFails
  <2>1. CASE saves_left = 1
    BY <1>1, <1>2, <1>9, <2>1 DEF SaveFails
  <2>2. CASE saves_left = 0
    <3>1. {asked'} \subseteq Configs \cup {NoConfig} /\ touched' \in BOOLEAN
      BY <1>1, <1>9, <2>2 DEF SaveFails, NothingAsked
    <3>2. {settings'} \subseteq Configs \cup {NoConfig}
      BY <1>1, <1>2, <1>9, <2>2 DEF SaveFails
    <3> QED
      BY <1>1, <1>2, <1>9, <2>2, <3>1, <3>2 DEF SaveFails
  <2> QED
    BY <1>1, <2>1, <2>2
<1>10. CASE SetCommand
  BY <1>1, <1>2, <1>10 DEF SetCommand, Changed, Unsummed
<1>11. CASE SaveCommand
  BY <1>1, <1>2, <1>11 DEF SaveCommand, Request, Changed, Unsummed
<1>12. CASE DefaultsCommand
  BY <1>1, <1>2, <1>12 DEF DefaultsCommand, Request, Changed
<1>13. CASE ResetCommand
  BY <1>1, <1>13 DEF ResetCommand
<1>14. CASE Boot \/ HandleData
  BY <1>1, <1>14 DEF Boot, ContactRp2040, UploadProgram, InitExpander, HandleData,
                     TakeFrame, SyncInputs, ReadInputs, PushOutputs
<1>15. CASE InputChanges \/ ReloadCommand \/ ReloadEnds
  BY <1>1, <1>15 DEF InputChanges, ReloadCommand, ReloadEnds
<1>16. CASE Reset \/ PowerCut
  BY <1>1, <1>2, <1>16 DEF Reset, PowerCut, Restarts, Ram0, NothingAsked
<1>17. CASE UNCHANGED boardVars
  BY <1>1, <1>17 DEF boardVars
<1> QED
  BY <1>3, <1>4, <1>5, <1>6, <1>7, <1>8, <1>9, <1>10, <1>11, <1>12, <1>13, <1>14,
     <1>15, <1>16, <1>17 DEF BoardNext, Flash, Terminal

(* The two modules' actions, told by what they do outside of FlashConfig.  *)
LEMMA TypeStep ==
    ASSUME BoardTypeOK, [BoardNext]_boardVars
    PROVE  BoardTypeOK'
<1>1. FlashTypeOK'
  BY FlashTypeStep DEF BoardTypeOK
<1> SUFFICES /\ rp2040' \in {"bootloader", "app"}
             /\ {ex_out', ex_in', input'} \subseteq {0, 1}
             /\ {ex_mask', flexgpio_pending', doubtful'} \subseteq BOOLEAN
             /\ last_probe' \in SUBSET BOOLEAN
             /\ core0' \in {"load", "sum", "copy", "erase", "program", "written",
                            "start", "upload", "init", "loop", "halted", "sync",
                            "read", "push"}
             /\ frame' \in [out : {0, 1}, probe : BOOLEAN]
  BY <1>1 DEF BoardTypeOK
<1> USE DEF BoardTypeOK, expander, sync, rest
<1>2. CASE Flash /\ UNCHANGED rest
  BY <1>2 DEF Flash, LoadConfig, ConsumeRequest, SumConfig, CopyConfig, EraseSector,
              ProgramSector, SaveFails
<1>3. CASE Terminal /\ UNCHANGED rest
  BY <1>3 DEF Terminal, SetCommand, SaveCommand, DefaultsCommand, ResetCommand
<1>4. CASE Boot
  BY <1>4 DEF Boot, ContactRp2040, UploadProgram, InitExpander, Starts, Written
<1>5. CASE TakeFrame \/ SyncInputs \/ ReadInputs
  BY <1>5 DEF TakeFrame, SyncInputs, ReadInputs
<1>6. CASE PushOutputs
  BY <1>6 DEF PushOutputs, Written, NoFrame
<1>7. CASE InputChanges
  <2>1. ex_in' \in {0, 1}
    BY <1>7 DEF InputChanges
  <2> QED
    BY <1>7, <2>1, Zenon DEF InputChanges
<1>10. CASE ReloadCommand \/ ReloadEnds
  BY <1>10 DEF ReloadCommand, ReloadEnds, Starts
<1>8. CASE Restarts /\ (UNCHANGED expander \/ Starts("bootloader"))
  BY <1>8, Zenon DEF Restarts, Starts, NoFrame
<1>9. CASE UNCHANGED boardVars
  BY <1>9 DEF boardVars
<1> QED
  BY <1>2, <1>3, <1>4, <1>5, <1>6, <1>7, <1>8, <1>9, <1>10
  DEF BoardNext, HandleData, Reset, PowerCut

--------------------------------------------------------------------------------
(* Core 1 runs from the end of a boot to the next reset.                   *)
LEMMA CoresStep ==
    ASSUME BoardTypeOK, CoresInv, [BoardNext]_boardVars
    PROVE  CoresInv'
<1> USE DEF CoresInv, Booting, Running, flashVars, ram
<1>2. CASE Flash
  BY <1>2 DEF Flash, LoadConfig, ConsumeRequest, SumConfig, CopyConfig, EraseSector,
              ProgramSector, SaveFails
<1>3. CASE Terminal
  BY <1>3 DEF Terminal, SetCommand, SaveCommand, DefaultsCommand, ResetCommand
<1>4. CASE Boot
  BY <1>4 DEF Boot, ContactRp2040, UploadProgram, InitExpander
<1>5. CASE HandleData
  BY <1>5 DEF HandleData, TakeFrame, SyncInputs, ReadInputs, PushOutputs
<1>7. CASE InputChanges \/ ReloadCommand \/ ReloadEnds
  BY <1>7 DEF InputChanges, ReloadCommand, ReloadEnds
<1>8. CASE Reset \/ PowerCut
  BY <1>8 DEF Reset, PowerCut, Restarts, Ram0
<1>9. CASE UNCHANGED boardVars
  BY <1>9 DEF boardVars
<1> QED
  BY <1>2, <1>3, <1>4, <1>5, <1>7, <1>8, <1>9 DEF BoardNext

(* The settings are set before anything needs them, and from a whole       *)
(* configuration.                                                          *)
LEMMA SettingsStep ==
    ASSUME BoardTypeOK, CoresInv, SettingsInv, [BoardNext]_boardVars
    PROVE  SettingsInv'
<1> USE DEF SettingsInv, flashVars, ram
<1>1. flash.data \in Configs \cup {NoConfig}
  BY Records DEF BoardTypeOK, FlashTypeOK
<1>2. CASE LoadConfig
  BY <1>1, <1>2, Wholeness DEF LoadConfig, Valid, CoresInv, Booting
<1>3. CASE SumConfig
  BY <1>3, Wholeness DEF SumConfig
<1>4. CASE SaveFails
  <2>1. CASE core1 = "off"
    BY <1>4, <2>1 DEF SaveFails
  <2>2. CASE core1 # "off"
    BY <1>4, <2>2 DEF SaveFails
  <2> QED
    BY <2>1, <2>2
<1>5. CASE ConsumeRequest \/ CopyConfig \/ EraseSector \/ ProgramSector
  BY <1>5 DEF ConsumeRequest, CopyConfig, EraseSector, ProgramSector, CoresInv, Running
<1>6. CASE Terminal
  BY <1>6 DEF Terminal, SetCommand, SaveCommand, DefaultsCommand, ResetCommand
<1>7. CASE Boot
  BY <1>7 DEF Boot, ContactRp2040, UploadProgram, InitExpander
<1>8. CASE HandleData
  BY <1>8 DEF HandleData, TakeFrame, SyncInputs, ReadInputs, PushOutputs, CoresInv,
              Running
<1>9. CASE InputChanges \/ ReloadCommand \/ ReloadEnds
  BY <1>9 DEF InputChanges, ReloadCommand, ReloadEnds
<1>10. CASE Reset \/ PowerCut
  BY <1>10 DEF Reset, PowerCut, Restarts
<1>11. CASE UNCHANGED boardVars
  BY <1>11 DEF boardVars
<1> QED
  BY <1>2, <1>3, <1>4, <1>5, <1>6, <1>7, <1>8, <1>9, <1>10, <1>11
  DEF BoardNext, Flash

(* A save keeps what was asked for, unless core 1 touches it.              *)
LEMMA SaveStep ==
    ASSUME BoardTypeOK, CoresInv, SaveInv, [BoardNext]_boardVars
    PROVE  SaveInv'
<1> USE DEF SaveInv, Saving, flashVars, ram
<1>1. touched \in BOOLEAN /\ save_requested \in BOOLEAN
  BY DEF BoardTypeOK, FlashTypeOK
<1>2. CASE LoadConfig
  BY <1>2, Wholeness DEF LoadConfig, CoresInv, Booting
<1>3. CASE ConsumeRequest
  BY <1>3 DEF ConsumeRequest
<1>4. CASE SumConfig
  BY <1>4, Wholeness DEF SumConfig
<1>5. CASE CopyConfig
  BY <1>5 DEF CopyConfig
<1>6. CASE EraseSector
  BY <1>6 DEF EraseSector
<1>7. CASE ProgramSector
  BY <1>7 DEF ProgramSector
<1>8. CASE SaveFails
  <2>1. CASE saves_left > 0
    BY <1>8, <2>1 DEF SaveFails
  <2>2. CASE ~(saves_left > 0) /\ save_requested
    BY <1>8, <2>2 DEF SaveFails
  <2>3. CASE ~(saves_left > 0) /\ ~save_requested
    BY <1>1, <1>8, <2>3 DEF SaveFails
  <2> QED
    BY <2>1, <2>2, <2>3
<1>9. CASE SetCommand \/ SaveCommand \/ DefaultsCommand
  <2>1. /\ flash_config' = Stored(flash_config'.data, flash_config'.sum)
        /\ flash_config'.data = flash_config.data
              => flash_config'.sum \in {flash_config.sum, flash_config'.data}
        /\ \/ touched' = (touched \/ (Saving /\ flash_config'.data # flash_config.data))
              /\ asked' = asked /\ (Saving' => Saving)
           \/ ~Saving /\ asked' = flash_config'.data
        /\ UNCHANGED <<flash, buffer, core0>>
    <3>1. CASE SetCommand
      <4>1. flash_config' = Stored(settings', flash_config.sum)
        BY <3>1 DEF SetCommand, Changed, Unsummed
      <4> QED
        BY <3>1, <4>1, Wholeness DEF SetCommand, Changed
    <3>2. CASE SaveCommand
      <4>1. flash_config' = Stored(settings, flash_config.sum)
        BY <3>2 DEF SaveCommand, Request, Changed, Unsummed
      <4> QED
        BY <3>2, <4>1, Wholeness DEF SaveCommand, Request, Changed
    <3>3. CASE DefaultsCommand
      <4>1. flash_config' = Stored(Default, Default)
        BY <3>3 DEF DefaultsCommand, Request, Changed, Whole
      <4> QED
        BY <3>3, <4>1, Wholeness DEF DefaultsCommand, Request, Changed, Whole
    <3> QED
      BY <1>9, <3>1, <3>2, <3>3
  <2>2. CASE ~Saving /\ asked' = flash_config'.data
    BY <2>1, <2>2, Zenon
  <2>3. CASE touched' = (touched \/ (Saving /\ flash_config'.data # flash_config.data))
             /\ asked' = asked /\ (Saving' => Saving)
    <3> SUFFICES ASSUME ~touched' PROVE SaveInv'
      BY Zenon
    <3>1. ~touched /\ (Saving => flash_config'.data = flash_config.data)
      BY <2>3, Zenon
    <3>2. Saving' => flash_config'.data = asked'
      BY <2>1, <2>3, <3>1, Zenon
    <3>3. core0 = "copy" => flash_config'.data = asked /\ flash_config'.sum = asked
      BY <2>1, <3>1, Wholeness
    <3>4. core0 = "copy" => flash_config' = Whole(asked)
      BY <2>1, <3>3, Wholeness
    <3> QED
      BY <2>1, <2>3, <3>1, <3>2, <3>4
  <2> QED
    BY <2>1, <2>2, <2>3, Zenon
<1>10. CASE ResetCommand
  BY <1>10 DEF ResetCommand
<1>11. CASE Boot
  BY <1>11 DEF Boot, ContactRp2040, UploadProgram, InitExpander
<1>12. CASE HandleData
  BY <1>12 DEF HandleData, TakeFrame, SyncInputs, ReadInputs, PushOutputs
<1>13. CASE InputChanges \/ ReloadCommand \/ ReloadEnds
  BY <1>13 DEF InputChanges, ReloadCommand, ReloadEnds
<1>14. CASE Reset \/ PowerCut
  BY <1>14 DEF Reset, PowerCut, Restarts, Ram0
<1>15. CASE UNCHANGED boardVars
  BY <1>15 DEF boardVars
<1> QED
  BY <1>2, <1>3, <1>4, <1>5, <1>6, <1>7, <1>8, <1>9, <1>10, <1>11, <1>12, <1>13,
     <1>14, <1>15 DEF BoardNext, Flash, Terminal

(* Nothing but a frame turns an output of the expander on.                 *)
LEMMA OutputStep ==
    ASSUME BoardTypeOK, CoresInv, OutputInv, [BoardNext]_boardVars
    PROVE  OutputInv'
<1> USE DEF OutputInv, expander, rest, sync
<1>2. CASE Flash /\ UNCHANGED rest
  BY <1>2 DEF Flash, LoadConfig, ConsumeRequest, SumConfig, CopyConfig, EraseSector,
              ProgramSector, SaveFails
<1>3. CASE Terminal /\ UNCHANGED rest
  BY <1>3 DEF Terminal, SetCommand, SaveCommand, DefaultsCommand, ResetCommand
<1>4. CASE Boot
  BY <1>4 DEF Boot, ContactRp2040, UploadProgram, InitExpander, Starts, Written,
              CoresInv, Booting
<1>5. CASE TakeFrame \/ SyncInputs \/ ReadInputs
  BY <1>5 DEF TakeFrame, SyncInputs, ReadInputs
<1>6. CASE PushOutputs
  BY <1>6 DEF PushOutputs, Written
<1>7. CASE InputChanges \/ ReloadCommand \/ ReloadEnds
  BY <1>7 DEF InputChanges, ReloadCommand, ReloadEnds, Starts, BoardTypeOK
<1>8. CASE Reset \/ PowerCut
  BY <1>8 DEF Reset, PowerCut, Restarts, Starts
<1>9. CASE UNCHANGED boardVars
  BY <1>9 DEF boardVars
<1> QED
  BY <1>2, <1>3, <1>4, <1>5, <1>6, <1>7, <1>8, <1>9 DEF BoardNext, HandleData

(* A change of an input is read, or pending, or in doubt.                  *)
LEMMA InputStep ==
    ASSUME BoardTypeOK, CoresInv, OutputInv, InputInv, [BoardNext]_boardVars
    PROVE  InputInv'
<1> USE DEF InputInv, expander, rest, sync, BoardTypeOK
<1>2. CASE Flash /\ UNCHANGED rest
  BY <1>2 DEF Flash, LoadConfig, ConsumeRequest, SumConfig, CopyConfig, EraseSector,
              ProgramSector, SaveFails, CoresInv, Booting
<1>3. CASE Terminal /\ UNCHANGED rest
  BY <1>3 DEF Terminal, SetCommand, SaveCommand, DefaultsCommand, ResetCommand
<1>4. CASE Boot
  BY <1>4 DEF Boot, ContactRp2040, UploadProgram, InitExpander, CoresInv, Booting
<1>5. CASE TakeFrame
  BY <1>5 DEF TakeFrame
<1>6. CASE SyncInputs
  BY <1>6 DEF SyncInputs
<1>7. CASE ReadInputs
  BY <1>7 DEF ReadInputs
<1>8. CASE PushOutputs
  BY <1>8 DEF PushOutputs, Written
<1>9. CASE InputChanges
  BY <1>9 DEF InputChanges
<1>10. CASE ReloadCommand
  BY <1>10 DEF ReloadCommand, Starts
<1>11. CASE ReloadEnds
  BY <1>11 DEF ReloadEnds, Starts, OutputInv
<1>12. CASE Reset \/ PowerCut
  BY <1>12 DEF Reset, PowerCut, Restarts
<1>13. CASE UNCHANGED boardVars
  BY <1>13 DEF boardVars
<1> QED
  BY <1>2, <1>3, <1>4, <1>5, <1>6, <1>7, <1>8, <1>9, <1>10, <1>11, <1>12, <1>13
  DEF BoardNext, HandleData

--------------------------------------------------------------------------------
BoardInv == /\ BoardTypeOK /\ CoresInv /\ SettingsInv
            /\ SaveInv /\ OutputInv /\ InputInv

(* The inductive invariant holds in every state of every board.            *)
LEMMA BoardInvariant == BoardSpec => []BoardInv
<1>1. BoardInit => BoardInv
  <2> SUFFICES ASSUME BoardInit PROVE BoardInv
    OBVIOUS
  <2> USE DEF BoardInit, FlashInit
  <2>1. flash \in {Stored(d, s) : d, s \in Configs \cup {NoConfig}}
    <3>1. CASE flash = Erased
      BY <3>1 DEF Erased, Whole
    <3>2. CASE \E c \in Configs : flash = Whole(c)
      BY <3>2 DEF Whole
    <3> QED
      BY <3>1, <3>2
  <2>2. BoardTypeOK
    <3> DEFINE R == {Stored(d, s) : d, s \in Configs \cup {NoConfig}}
    <3>2. flash \in R /\ Erased \in R
      BY <2>1, Records
    <3> HIDE DEF R
    <3>3. {flash, flash_config, buffer} \subseteq R
      BY <3>2
    <3>4. /\ {settings, asked} \subseteq Configs \cup {NoConfig}
          /\ {save_requested, touched} \subseteq BOOLEAN
          /\ saves_left \in {0, 1}
          /\ core1 \in {"off", "on", "reload", "resetting"}
      OBVIOUS
    <3> HIDE DEF BoardInit, FlashInit
    <3>1. FlashTypeOK
      BY <3>3, <3>4 DEF FlashTypeOK, R
    <3> QED
      BY <3>1 DEF BoardTypeOK, NoFrame, BoardInit, FlashInit
  <2>3. CoresInv /\ SettingsInv /\ SaveInv /\ OutputInv /\ InputInv
    BY DEF CoresInv, Booting, Running, SettingsInv, SaveInv, Saving, OutputInv, InputInv
  <2> QED
    BY <2>2, <2>3 DEF BoardInv
<1>2. BoardInv /\ [BoardNext]_boardVars => BoardInv'
  BY TypeStep, CoresStep, SettingsStep, SaveStep, OutputStep, InputStep DEF BoardInv
<1> QED
  BY <1>1, <1>2, PTL DEF BoardSpec

(* Every variable of the board keeps its type: flash_config.c never saves  *)
(* anything but a configuration, whole or not.                             *)
THEOREM BoardTypes == BoardSpec => []BoardTypeOK
BY BoardInvariant, PTL DEF BoardInv

(* Whatever the sector holds, and whichever steps of the saves fail, the   *)
(* board runs on a configuration (load_configuration()).                   *)
THEOREM ConfigRuns == BoardSpec => []RunsOnAConfig
<1>1. BoardInv => RunsOnAConfig
  BY DEF BoardInv, SettingsInv, CoresInv, Running, RunsOnAConfig
<1> QED
  BY <1>1, BoardInvariant, PTL

(* A save that core 1 does not disturb puts into the flash, whole, what    *)
(* was asked for (save_configuration_core0()).                             *)
THEOREM SaveKeeps == BoardSpec => []SavedConfigIsKept
<1>1. BoardInv => SavedConfigIsKept
  BY DEF BoardInv, SaveInv, SavedConfigIsKept
<1> QED
  BY <1>1, BoardInvariant, PTL

(* No output of the expander is on before the first frame of a boot, also  *)
(* after a reset in the middle of a job (rp2040_enter_bootloader()).       *)
THEOREM OutputsStartOff == BoardSpec => []OutputsOffUntilFrame
<1>1. BoardInv => OutputsOffUntilFrame
  BY DEF BoardInv, OutputInv, CoresInv, Running, OutputsOffUntilFrame
<1> QED
  BY <1>1, BoardInvariant, PTL

(* A change of an input that meets flexgpio_sync_inputs() at any point is  *)
(* not lost.                                                               *)
THEOREM InputsFollow == BoardSpec => []InputsAreCurrent
<1>1. BoardInv => InputsAreCurrent
  BY DEF BoardInv, InputInv, CoresInv, Running, InputsAreCurrent
<1> QED
  BY <1>1, BoardInvariant, PTL
================================================================================
