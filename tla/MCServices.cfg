\* Three writes; a polling loop with two workers, two polls and one mishap; a
\* pool with one job and one disturbance; one update on either platform with two
\* mishaps; one download with two mishaps.
CONSTANTS
    Op = {"a", "b", "c"}
    NoOp = "none"
    Worker = {"w1", "w2"}
    Poll = {"p1", "p2"}
    LoopMishaps = 1
    PoolJob = {"j"}
    PoolWorker = {"w"}
    PoolPoll = {"p1", "p2"}
    NoWorker = "none"
    Disturbances = 1
    MaxVersion = 2
    Platforms = {TRUE, FALSE}
    UpdateMishaps = 2
    Last = 1
    Slots = 1
    Promoter = {"p1"}
    DownloadMishaps = 2
SPECIFICATION ServicesSpec
INVARIANTS AllTypesOK WritesAlone WakeUpRemembered CompletedKeepsFile CancelledLeavesNothing
PROPERTIES QueuedRuns DueIsPolled SlotComesBack RowMovesOn PendingIsClaimed SwapLosesNothing CancelledReplacesNothing
CHECK_DEADLOCK FALSE
