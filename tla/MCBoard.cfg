SPECIFICATION FairBoardSpec
CONSTANTS
    Configs = {default, mine}
    Default = default
    NoConfig = none
INVARIANTS BoardTypeOK SavedConfigIsKept RunsOnAConfig OutputsOffUntilFrame InputsAreCurrent
PROPERTY BootEnds
