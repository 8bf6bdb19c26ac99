SPECIFICATION FairPwmSpec
CONSTANTS
    Frequencies = {1000, 5000, 2000000}
    Lowest = 1908
    Highest = 1000000
    OkToClear = 3
INVARIANTS
    DutyFitsFrequency
PROPERTY FrequencySettles
