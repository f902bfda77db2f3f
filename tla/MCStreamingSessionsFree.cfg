SPECIFICATION SessionsSpec
CONSTANTS
    s1 = s1
    s2 = s2
    u1 = u1
    Session <- TwoSessions
    User <- OneUser
    OwnerOf <- OwnedByOne
    MaxSessions = 1
    MaxSessionsPerUser = 2
    MaxSpawns <- FirstRestarts
PROPERTIES
    VacatedSlotIsFree
CHECK_DEADLOCK FALSE
