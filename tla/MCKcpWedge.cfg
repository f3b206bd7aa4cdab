SPECIFICATION Spec
CONSTANTS
    Half = 8
    Word = 32
    Ends <- MCEnds
    Eager <- MCEager
    Lengths <- MCUpLong
    Mtu = 3
    Overhead = 1
    SndWnd = 2
    RcvWnd = 2
    WndSnd = 2
    WndRcv = 2
    NoCwnd = TRUE
    ThreshMin = 2
    FastResend = 0
    DeadLink = 1
    FragLimit = 10
    DupCount = 0
    DupAck = FALSE
    DupDynamic = FALSE
    DupWndOn = 1
    MaxNet = 2
    MaxAcks = 2
    MaxFaults = 1
INVARIANTS NoWedge
CHECK_DEADLOCK FALSE
