SPECIFICATION Spec
CONSTANTS
    WatchdogTimeout = 1
    LateWatchdog = FALSE
    StepLimit = 2
    TimingMax = 1
    TimeoutPeriods = 1
    ClockWrap = 3
    OkToClear = 2
    FifoDepth = 1
    ClockFirst = TRUE
    Core0Prompt = TRUE
    Core1Prompt = FALSE
    MaxFaults = 1
    t1 = t1
    unpatched = unpatched
    Unpatched <- unpatched
    BootSetting <- t1
    Positions <- MCPositions
    Commands = {0, 3}
    Timings <- OneTiming
    GarbledWords <- OneWord
    Garbage <- GarbageRead
    EnableAt = {0, 1}
    Travel = {0, 1}
    Outputs = {0}
    Requests = {TRUE}
    FaultKinds <- AllFaults
INVARIANTS
    FwTypeOK
    CommandIsConserved
    DirSettlesBeforeStep
    StepsAreAccountedFor
    FeedbackIsFresh
PROPERTIES
    StepsNeedCleanRun
