SPECIFICATION FairSpec
CONSTANTS
    Timeouts = {0, 1, 3, 6}
    PollInterval = 2
    MaxLatency = 1
    MaxSkew = 1
INVARIANTS
    TypeOK
    Overshoot
    NoLongRunMissed
PROPERTIES
    KeepsContract
    Returns
