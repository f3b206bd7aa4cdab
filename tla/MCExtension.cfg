SPECIFICATION BindingSpec
CONSTANTS
    Clients = {c1, c2, c3}
    Kinds = {"log"}
    MaxOut = 1
    MaxEvents = 1
INVARIANTS
    UpdatedOnce
    MissedAtMostClosed
PROPERTIES
    CallbacksDelivered
CHECK_DEADLOCK FALSE
