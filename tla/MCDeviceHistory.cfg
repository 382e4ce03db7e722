SPECIFICATION Spec
CONSTANTS
    MaxProcs = 2
    WindowSec = 3
    RapidSec = 1
    ProbeCap = 3
    EventCap = 2
    MaxMono = 7
CHECK_DEADLOCK FALSE
INVARIANTS RingKeepsLatest ReliabilityExact WorkersBalance DisappearancesExact
