SPECIFICATION FairRingSpec
CONSTANTS
    Slots = 2
    Wrap = 4
    Numbers = 3
INVARIANTS
    RingTypeOK
    CountFits
    
    FullRingIsServed
PROPERTIES
    ImplementsStepQueue
    WaitingFramesLeave
