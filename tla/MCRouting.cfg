SPECIFICATION Spec
CONSTANTS
    N = 2
    MaxQueue = 1
    QueueMs = 8
    PrefillMs = 20
    StalenessMs = 25
    MaxChanges = 1
    MaxRefreshes = 2
    MaxFailures = 1
CHECK_DEADLOCK FALSE
INVARIANTS OfferedWasHealthy DirectoryNotStale RecordExplainsChoice
