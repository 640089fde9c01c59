SPECIFICATION Spec
CONSTANTS
    Timeouts = {6}
    PollInterval = 2
    MaxLatency = 1
    MaxSkew = 0
INVARIANTS
    FailedMeansNotRunning
