SPECIFICATION FairUdpSpec
CONSTANTS
    WatchdogTimeout = 3
    OkToClear = 3
    TimeoutPeriods = 5
    ClockWrap = 8
    Faults = 2
INVARIANTS UdpTypeOK LossIsSeen DeadBoardStopsMachine NoFrameIsForgotten DeadLinkIsShown
PROPERTY PulledCableIsNoticed
