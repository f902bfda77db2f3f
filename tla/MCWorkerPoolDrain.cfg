\* One job of a worker that is removed: is its handler stopped?
CONSTANTS
    j1 = j1
    j2 = j2
    w1 = w1
    p1 = p1
    p2 = p2
    NoWorker = NoWorker
    PoolJob = {j1}
    PoolWorker = {w1}
    Poll = {p1, p2}
    PoolWorkerOf <- AllForOne
    PoolMaxAttempts <- OneAttempt
    PoolConcurrency <- OneSlot
    PoolMax = 1
    DisturbanceBound = 1
SPECIFICATION PoolSpec
INVARIANTS NoHandlerAfterDrain
CHECK_DEADLOCK FALSE
