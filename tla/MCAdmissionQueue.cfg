SPECIFICATION FairSpec
CONSTANTS
    Requests = {r1, r2, r3}
    NoRequest = NoRequest
    MaxQueued = 2
    MaxInflight = 1
    HasTimeout = TRUE
    Disconnecting = {r1}
    CanShutdown = TRUE
    FinalStates = {"COMPLETED"}
CHECK_DEADLOCK FALSE
INVARIANTS
    InflightExact
    NoLostTicket
    CountersAddUp
PROPERTIES
    ImplementsSlotLimiter
    EveryTicketDispatched
    ShutdownReleasesAll
