SPECIFICATION Spec
CONSTANTS
    Backends = {b1, b2}
    NoBackend = NoBackend
    MaxRetries = 1
    Attempts <- MCAttempts
    Codes = {200}
    MaxLines = 2
CHECK_DEADLOCK FALSE
INVARIANT FailedStreamNotCompleted
