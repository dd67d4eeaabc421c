CONSTANTS
    N = 1
    None = None
    TailLines = 2
    Merge <- MergeByTime
    MaxLines = 4
    MaxTime = 3
    MaxRuns = 2
    MaxBreaks = 2
SPECIFICATION FairSpec
INVARIANTS OnceInOrder NothingLeftOut MergeIsSorted
PROPERTIES CatchesUp
CHECK_DEADLOCK FALSE
