SPECIFICATION SSpec
CONSTANTS
    OfflineFailures = 2
    ConfirmSamples = 2
    RecoveringHold = 2
    RecoveryStreak = 2
    Observations = {}
    MaxGap = 7
    MaxMono = 7
    Commands <- MCCommands
    Judgements <- MCJudgements
    HasOthers = TRUE
    AccessProbeEach = TRUE
    MaxTelemetryAge = 3
    StallLimit = 2
    MaxClock = 6
INVARIANTS
    EdgesMatchOffline
    ReadyMeansHealthy
    LatchMatchesState
    RecoveryNotOverdue
PROPERTIES
    ImplementsDeviceStatus
    OfflineEarned
    PromotionEarned
    NoFlapping
