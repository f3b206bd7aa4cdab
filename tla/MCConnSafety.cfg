SPECIFICATION Spec
CONSTANTS
    Intervals <- MCIntervals
    MaxIntervals = 2
    Timeouts <- MCTimeouts
    DefaultTimeout = 1
    TimeoutCap = 1
    UdpModes <- MCBoth
    AgeCap = 2
    MaxConnects = 2
    MaxFrames = 1
    MaxBurst = 1
    MaxIn = 2
    MaxOut = 2
INVARIANTS TypeOK SocketsMatchState NoLimbo StopIsClean NoLostSocket
PROPERTIES LastWords
CHECK_DEADLOCK FALSE
