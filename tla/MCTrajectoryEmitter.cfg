SPECIFICATION FairSpec
CONSTANTS
    Events = {e1, t1, t2}
    Terminal = {t1, t2}
    QueueCapacity = 1
    BatchSize = 2
    HasFallback = TRUE
    MaxFallback = 0
    FailingWrites = {t1}
CHECK_DEADLOCK FALSE
INVARIANTS
    NothingLostInside
    StatsAddUp
    DeliveredAtMostTwice
    StopFlushes
PROPERTIES
    EmitNeverBlocks
    StopReturns
