SPECIFICATION EncSpec
CONSTANTS
    Reach = 2
INVARIANTS
    CountIsTravel
    StateIsCurrent
