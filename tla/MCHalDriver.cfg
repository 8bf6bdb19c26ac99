SPECIFICATION MCHalSpec
CONSTANTS
    WatchdogTimeout = 3
    LateWatchdog = TRUE
    StepLimit = 2
    TimingMax = 1
    t1 = t1
    Positions <- MCPositions
    Commands <- MCCommands
    Timings <- MCTimings
    Outputs = {0}
    Requests = {TRUE, FALSE}
INVARIANTS
    HalTypeOK
    ExpiredIsDisconnected
    ReadyIsLive
PROPERTIES
    ExpiryIsFinal
    SilenceIsReported
