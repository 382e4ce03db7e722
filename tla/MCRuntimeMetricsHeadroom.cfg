SPECIFICATION Spec
CONSTANTS
    Full = 2
    KVUtils = {1}
    HasCache = TRUE
    MaxTokens = 1
    MaxRestarts = 1
    MaxFaults = 1
INVARIANT HeadroomMeasured
