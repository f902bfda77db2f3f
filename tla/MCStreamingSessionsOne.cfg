SPECIFICATION SessionsFairSpec
CONSTANTS
    s1 = s1
    s2 = s2
    u1 = u1
    Session <- OneSession
    User <- OneUser
    OwnerOf <- OwnedByOne
    MaxSessions = 1
    MaxSessionsPerUser = 1
    MaxSpawns <- ThreeProcesses
INVARIANTS
    NoOrphanProcess
    OneWriter
PROPERTIES
    ReleaseIsFinal
    NoStartAfterEnd
    CreatingEnds
    ReleaseLeavesNothing
CHECK_DEADLOCK FALSE
