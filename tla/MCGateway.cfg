SPECIFICATION FairSpec
CONSTANTS
    Backends = {b1, b2}
    NoBackend = NoBackend
    MaxRetries = 1
    Attempts <- MCAttempts
    Codes = {200, 400}
    MaxLines = 1
CHECK_DEADLOCK FALSE
INVARIANTS
    OneSource
    CompleteMeansAll
    DoneExactlyOnce
PROPERTY
    AbandonedWorkStops
