SPECIFICATION Spec
CONSTANTS
    r1 = r1
    r2 = r2
    Requests = {r1}
    Modes = {"immediate", "serial", "adaptive"}
    BatchSize = 2
    MaxTokens = 1
    Paths = {"simulated", "distributed", "local"}
    MaxCancels = 1
    MaxReconfigs = 1
    MaxReplans = 1
INVARIANTS
    NoWorkerSurvives
CHECK_DEADLOCK FALSE
