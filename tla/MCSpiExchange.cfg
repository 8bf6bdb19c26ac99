SPECIFICATION SpiSpec
CONSTANTS
    N = 9
    D = 4
    Ids = 4
    MaxLate = 0
PROPERTY ImplementsFrameSwap
