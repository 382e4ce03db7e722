SPECIFICATION Spec
CONSTANTS
    Requests = {r1, r2, r3}
    NoRequest = NoRequest
    MaxQueued = 2
    MaxInflight = 1
    HasTimeout = TRUE
    Disconnecting = {r1}
    CanShutdown = FALSE
    FinalStates = {"COMPLETED"}

INVARIANT NoLeakedSlot
