SPECIFICATION FairSpec
CHECK_DEADLOCK FALSE
CONSTANTS
    Requests = {r}
    Ports = {1, 2}
    None = None
    MaxForwards = 1
    MaxClients = 2
    MaxEvents = 3
    MaxOpen = 2
    MaxLateDrops = 0
INVARIANTS ReconnectingIsProbed ConnectionsAreCounted
PROPERTIES RequestsEnd
