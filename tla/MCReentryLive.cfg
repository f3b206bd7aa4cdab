SPECIFICATION Spec
CONSTANTS
    PerPacket = 2
    MaxAcks = 2
    MaxDue = 3
    MaxDups = 2
INVARIANTS OutputOnLive
CHECK_DEADLOCK FALSE
