SPECIFICATION Spec
CONSTANTS
    Half = 8
    Word = 192
    Start = 1
    Horizon = 10
    Steps <- MCSteps
    MaxBack = 2
    Interval = 2
    Slack = 10
    RtoDef = 4
    RtoMin = 3
    RtoMax = 6
    Nodelay = FALSE
    FastResend = 1
    DupCount = 1
    DupWait = 3
    DupLen = 1
    SndWnd = 2
    ProbeInit = 3
    ProbeLimit = 5
    IntervalLost = 5
    MaxSends = 2
    Windows <- MCBoth
INVARIANTS DupInTime
CHECK_DEADLOCK FALSE
