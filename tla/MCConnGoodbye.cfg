SPECIFICATION Spec
CONSTANTS
    Intervals <- MCIntervals
    MaxIntervals = 2
    Timeouts <- MCTimeouts
    DefaultTimeout = 1
    TimeoutCap = 1
    UdpModes <- MCBoth
    AgeCap = 2
    MaxConnects = 1
    MaxFrames = 1
    MaxBurst = 1
    MaxIn = 1
    MaxOut = 2
PROPERTIES GoodbyeDisconnects
CHECK_DEADLOCK FALSE
