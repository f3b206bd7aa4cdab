SPECIFICATION Spec
CONSTANTS
    Half = 8
    Word = 32
    Ends <- MCEnds
    Eager <- MCEager
    Lengths <- MCDown
    Mtu = 3
    Overhead = 1
    SndWnd = 2
    RcvWnd = 2
    WndSnd = 2
    WndRcv = 2
    NoCwnd = FALSE
    ThreshMin = 2
    FastResend = 1
    DeadLink = 1
    FragLimit = 10
    DupCount = 1
    DupAck = TRUE
    DupDynamic = TRUE
    DupWndOn = 1
    MaxNet = 2
    MaxAcks = 2
    MaxFaults = 1
INVARIANTS
    NothingForgotten
    WindowsHold
PROPERTIES
    ReliableDelivery
CHECK_DEADLOCK FALSE
