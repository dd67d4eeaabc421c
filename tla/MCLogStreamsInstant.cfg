CONSTANTS
    N = 1
    None = None
    TailLines = 2
    Merge <- MergeByTime
    MaxLines = 3
    MaxTime = 1
    MaxRuns = 1
    MaxBreaks = 0
SPECIFICATION Spec
INVARIANTS DroppedWasDelivered
CHECK_DEADLOCK FALSE
