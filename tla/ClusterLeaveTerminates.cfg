SPECIFICATION Spec
CONSTANTS
    Nodes = {1, 2, 3}
    MaxId = 3
    LocalIds = {2}
    Trusted = {1, 2, 3}
    SuspectAfter = 1
    MaxRevision = 6
    StoreResults = {"lost"}
    MaxBoots = 1
INVARIANT
    NeverTerminated
CHECK_DEADLOCK FALSE
