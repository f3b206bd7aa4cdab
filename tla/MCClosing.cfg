SPECIFICATION MCSpec
CONSTANTS
    Fds = {3, 4, 5}
    BlockLoops = 2
    MaxSlots = 3
    MaxOthers = 2
    PerPacket = 2
    MaxAcks = 2
    MaxDue = 3
    MaxDups = 2
INVARIANTS NoMisuse DeletedClean ReleasedOnce DepthBounded
PROPERTIES RelinkKeepsSession DestructorEnds
CHECK_DEADLOCK FALSE
