SPECIFICATION Spec
CHECK_DEADLOCK FALSE
CONSTANTS
    Requests = {r, s}
    Ports = {1}
    None = None
    MaxForwards = 2
    MaxClients = 2
    MaxEvents = 1
    MaxOpen = 0
    MaxLateDrops = 1
INVARIANTS HeldIsWatched NoOrphans
