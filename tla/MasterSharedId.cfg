SPECIFICATION Spec
CONSTANTS
    c1 = c1
    c2 = c2
    Conns = {c1, c2}
    Ids = {"http-req"}
    s1 = s1
    s2 = s2
    Fds = {s1, s2}
    Naming <- MasterNaming
    MaxTokens = 0
    MaxLeavers = 0
    MaxStalled = 0
INVARIANTS
    ServerSurvives
CHECK_DEADLOCK FALSE
