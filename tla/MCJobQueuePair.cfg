SPECIFICATION FairSpec
CONSTANTS
    w1 = w1
    w2 = w2
    o1 = o1
    None = None
    Key = Key
    Job <- PairJobs
    Worker <- OneWorker
    Operation <- OneOperation
    WorkerOf <- OnW1
    PriorityOf <- SamePriority
    DedupeKeyOf <- NoKeys
    MaxAttempts <- TwoAttempts
    Concurrency <- OneSlot
    CandidateLimit = 2
    Batches <- PairBatches
    AttemptBound = 2
INVARIANTS
    TypeOK
    CountersMatchRows
    StatusMatchesRows
    ConcurrencyRespected
    ResultOfLastClaim
PROPERTIES
    CancelledNeverStarts
    ClaimTakesEveryRunnable
    JobsKeepPromise
    RunnableIsClaimed
    BlockedIsCancelled
