SPECIFICATION FairSpec
CHECK_DEADLOCK FALSE
CONSTANTS
    Keys = {k, l}
    None = None
    Grace = 1
    MaxUsers = 1
    MaxWrites = 2
    MaxErrors = 1
    MaxClients = 2
    MaxEvents = 1
INVARIANTS WatchUsesTheClient
PROPERTIES ShowsThePast DroppedAfterGrace CatchesUp
