SPECIFICATION Spec
CONSTANTS
    Clients = {1, 2}
    MaxPackets = 1
INVARIANTS OwnFlow
CHECK_DEADLOCK FALSE
