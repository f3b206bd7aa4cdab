SPECIFICATION Spec
CONSTANTS
    Fds = {3, 4, 5}
    BlockLoops = 2
    MaxSlots = 2
    MaxOthers = 1
INVARIANTS SwitchIsSafe
CHECK_DEADLOCK FALSE
