\* Two downloads, one running slot, no restart and no aborted job.
CONSTANTS
    Last = 2
    Slots = 1
    Promoter = {"p1"}
    DownloadMishaps = 0
SPECIFICATION DownloadSpec
INVARIANT WaitingIsServed
CHECK_DEADLOCK FALSE
