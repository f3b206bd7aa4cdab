SPECIFICATION Spec
CONSTANTS
    Half = 8
    Word = 64
    Start = 60
    Horizon = 16
    Steps <- MCSteps
    MaxBack = 0
    Interval = 2
    Slack = 10
    RtoDef = 4
    RtoMin = 3
    RtoMax = 6
    Nodelay = FALSE
    FastResend = 1
    DupCount = 1
    DupWait = 3
    DupLen = 2
    SndWnd = 2
    ProbeInit = 3
    ProbeLimit = 5
    IntervalLost = 5
    MaxSends = 2
    Windows <- MCOpen
INVARIANTS OnSchedule
CHECK_DEADLOCK FALSE
