SPECIFICATION Spec
CONSTANTS
    Bytes <- MCBytes
    Junk = Junk
    Block = 2
    MaxSize = 7
    HeadLen = 2
    RecvSize = 3
    Frames <- MCFrames
    OutLens = {2}
    PingLen = 3
    MaxConns = 2
    MaxGiven = 2
    MaxAsked = 1
INVARIANTS
    HandledWhole
    SentWhole
PROPERTIES
    FramesHandled
CHECK_DEADLOCK FALSE
