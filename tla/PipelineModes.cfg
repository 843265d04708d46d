SPECIFICATION RuntimeSpec
CONSTANTS
    r1 = r1
    r2 = r2
    Requests = {r1, r2}
    Modes = {"immediate", "serial", "adaptive"}
    BatchSize = 2
    MaxTokens = 1
    Paths = {"simulated"}
    MaxCancels = 1
    MaxReconfigs = 0
    MaxReplans = 0
SYMMETRY Symmetry
INVARIANTS
    TypeOK
    TerminalIsLast
    HeldByOne
    StartInOrder
CHECK_DEADLOCK FALSE
