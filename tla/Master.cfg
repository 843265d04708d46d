SPECIFICATION FairSpec
CONSTANTS
    c1 = c1
    c2 = c2
    Conns = {c1, c2}
    Ids = {"http-req", "req-2"}
    s1 = s1
    s2 = s2
    Fds = {s1, s2}
    Naming <- BothNamings
    MaxTokens = 2
    MaxLeavers = 2
    MaxStalled = 1
INVARIANTS
    TypeOK
    RepliesNotMixed
    WorkersAreTracked
PROPERTIES
    RepliesEnd
CHECK_DEADLOCK FALSE
