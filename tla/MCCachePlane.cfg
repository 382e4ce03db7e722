SPECIFICATION Spec
CONSTANTS
    Keys = {k1, k2, k3}
    MaxEntries = 2
    EntryTTL = 1
    StaleAfter = 2
    MaxNow = 4
    Observers = {o1, o2}
    Tokens = {0, 1}
    DirMax = 1
    MaxSeq = 4
    MaxRestarts = 1
    Batches <- MCBatches
    BlockTokens = 1
    MaxBatches = 3
    MaxRedelivered = 1
    MaxFeedNow = 2
CHECK_DEADLOCK FALSE
SYMMETRY Symmetry
INVARIANTS
    DirectoryAgrees
    LastSeqIsNewest
    RestartForgets
    CleanStreamExact
PROPERTY
    EvictsOldest
