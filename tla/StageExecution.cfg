SPECIFICATION Spec
CONSTANTS
    Workers = {w1, w2}
    Plans <- MCPlans
    Registered = {"llama", "cpu"}
    Artifacts = {"embed", "layers", "layers2"}
    Builds = {"loopback", "tls"}
    MaxTokens = 2
    Nobody = Nobody
INVARIANTS
    TypeOK
    SessionsOwnShards
    LeaseTakenForCause
PROPERTY
    LocalRequestsEnd
CHECK_DEADLOCK FALSE
