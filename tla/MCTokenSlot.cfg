CONSTANTS
    c = c
    d = d
    Callers = {c, d}
    Secrets <- MCSecrets
    None = None
    In = In
    Out = Out
    MaxSessions = 2
    MaxRefreshes = 2
    MaxTime = 1
    MaxFaults = 1
SPECIFICATION FairSpec
INVARIANTS NeverReused SignedOutIsForgotten
PROPERTIES CallsEnd AskedOnlyIfNeeded
CHECK_DEADLOCK FALSE
