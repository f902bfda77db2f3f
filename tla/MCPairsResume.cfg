\* One call at a time, on an operation of up to two tasks.
CONSTANTS
    j1 = j1
    j2 = j2
    w1 = w1
    p1 = p1
    p2 = p2
    c1 = c1
    c2 = c2
    o1 = o1
    None = None
    NoWorker = NoWorker
    PoolJob = {j1}
    PoolWorker = {w1}
    Poll = {p1, p2}
    Call = {c1}
    Job = {1, 2, 3, 4, 5}
    PoolWorkerOf <- AllForOne
    PoolMaxAttempts <- TwoAttempts
    PoolConcurrency <- TwoSlots
    PoolMax = 2
    Worker = {w1}
    Operation = {o1}
    WorkerOf <- OfW1
    PriorityOf <- SamePriority
    DedupeKeyOf <- NoKeys
    MaxAttempts <- OneTry
    Concurrency <- OneAtATime
    CandidateLimit = 2
    Batches <- TaskBatches
    AttemptBound = 2
    PageSize = 1
    DisturbanceBound = 0
SPECIFICATION PairsSpec
PROPERTIES DoneTasksStayDone
CHECK_DEADLOCK FALSE
