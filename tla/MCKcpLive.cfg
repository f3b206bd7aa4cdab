SPECIFICATION Spec
CONSTANTS
    Half = 3
    Word = 12
    Ends <- MCEnds
    Eager <- MCEager
    Lengths <- MCUpMany
    Mtu = 3
    Overhead = 1
    SndWnd = 1
    RcvWnd = 2
    WndSnd = 1
    WndRcv = 2
    NoCwnd = TRUE
    ThreshMin = 2
    FastResend = 0
    DeadLink = 1
    FragLimit = 10
    DupCount = 0
    DupAck = FALSE
    DupDynamic = FALSE
    DupWndOn = 1
    MaxNet = 1
    MaxAcks = 1
    MaxFaults = 1
INVARIANTS
    DecodesRight
    NoWedge
PROPERTIES
    WindowReopens
    FallsSilent
CHECK_DEADLOCK FALSE
