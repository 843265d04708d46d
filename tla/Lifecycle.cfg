SPECIFICATION FairSpec
CONSTANTS
    Platforms = {"macos", "linux", "android", "windows"}
    MaxInbox = 2
    Builds = {"none", "loopback", "tls"}
    MaxStarts = 2
INVARIANTS
    TypeOK
    StoppedIsQuiet
    FailedStartLeavesMembership
PROPERTIES
    StopReturns
CHECK_DEADLOCK FALSE
