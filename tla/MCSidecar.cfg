SPECIFICATION SidecarSpec
CONSTANTS
    Requests = {"r1", "r2"}
    Handlers = {"r1", "r2"}
    NoRequest = NoRequest
    MaxQueued = 1
    MaxInflight = 1
    HasTimeout = TRUE
    Disconnecting = {"r1"}
    CanShutdown = TRUE
    FinalStates = {"COMPLETED"}
    Shape <- MCShape
    DeviceStates = {"READY", "OFFLINE", "RECOVERING"}
    MaxChanges = 3
CHECK_DEADLOCK FALSE
INVARIANTS
    AtMostOneSlips
    WorkExact
