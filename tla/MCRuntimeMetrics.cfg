SPECIFICATION FairSpec
CONSTANTS
    Full = 2
    KVUtils = {1}
    HasCache = TRUE
    MaxTokens = 2
    MaxRestarts = 1
    MaxFaults = 1
INVARIANT RateWasGenerated
PROPERTY ViewConverges
