\* The chains and twins of MCJobQueue; two sessions of one user.
SPECIFICATION ContentionSpec
CONSTRAINT Contenders
CONSTANTS
    w1 = w1
    w2 = w2
    o1 = o1
    s1 = "s1"
    None = None
    Key = Key
    Job <- ChainsJobs
    Worker <- TwoWorkers
    Operation <- OneOperation
    WorkerOf <- SecondOnW2
    PriorityOf <- SamePriority
    DedupeKeyOf <- KeyOfTwins
    MaxAttempts <- ChainsAttempts
    Concurrency <- OneSlot
    CandidateLimit = 3
    Batches <- ChainsBatches
    AttemptBound = 2
    u1 = "u1"
    Session = {"s1", "s2"}
    User = {"u1"}
    OwnerOf <- OwnedByOne
    MaxSessions = 1
    MaxSessionsPerUser = 2
    MaxSpawns <- FirstRestarts
INVARIANTS
    DependencyRespected
    OneActivePerDedupeKey
    NoLeakedSlot
    FirstStartHoldsSlot
PROPERTIES
    CascadeReachesDependents
CHECK_DEADLOCK FALSE
