SPECIFICATION FairRuntimeSpec
CONSTANTS
    r1 = r1
    r2 = r2
    Requests = {r1}
    Modes = {"immediate", "serial", "adaptive"}
    BatchSize = 2
    MaxTokens = 2
    Paths = {"simulated", "distributed", "local"}
    MaxCancels = 2
    MaxReconfigs = 0
    MaxReplans = 0
INVARIANTS
    CancelBoundsTokens
PROPERTIES
    IsRequestStream
    UnstoppedRequestsEnd
    StartedRequestsEnd
CHECK_DEADLOCK FALSE
