SPECIFICATION IndexSpec
CONSTANTS
    Reach = 1
    Scale = 4
INVARIANTS
    IndexSwitchIsNoted
    SpikeHasCause
