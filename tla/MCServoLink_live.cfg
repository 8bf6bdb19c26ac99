SPECIFICATION FairSpec
CONSTANTS
    WatchdogTimeout = 1
    LateWatchdog = FALSE
    StepLimit = 1
    TimingMax = 1
    TimeoutPeriods = 2
    ClockWrap = 5
    OkToClear = 2
    FifoDepth = 1
    ClockFirst = FALSE
    Core0Prompt = TRUE
    Core1Prompt = TRUE
    MaxFaults = 2
    t1 = t1
    unpatched = unpatched
    Unpatched <- unpatched
    BootSetting <- t1
    Positions <- MCPositions
    Commands = {0, 1}
    Timings <- OneTiming
    Garbage = {0}
    EnableAt = {0}
    Travel = {0, 1}
    GarbledWords = {}
    Outputs = {1}
    Requests = {TRUE}
    FaultKinds = {"frame", "missed"}
PROPERTIES
    DeadLinkStopsMachine
    LinkSettles
