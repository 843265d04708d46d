SPECIFICATION FairSpec
CONSTANTS
    Nodes = {1, 2, 3}
    MaxId = 3
    LocalIds = {2}
    Trusted = {1, 2, 3}
    SuspectAfter = 1
    MaxRevision = 7
    StoreResults = {"stored"}
    MaxBoots = 2
INVARIANTS
    TypeOK
    OnlySuspicionsUnseen
    LeaderIsHighestAlive
    LeaderWasAdmitted
    FenceBelongsToLeader
    OneLeaderPerTerm
PROPERTIES
    RevisionNamesMembers
    TermsNeverRegress
    IsLeaseService
    SilentMembersTurnSuspect
CHECK_DEADLOCK FALSE
