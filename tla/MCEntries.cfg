SPECIFICATION Spec
CHECK_DEADLOCK FALSE
CONSTANTS
    Names = {1, 2, 3}
    Users = {1, 2}
    Contents = {"x", "y"}
    Kubes <- SmallKubes
    Absent = Absent
    MaxAttempts = 2
    MaxLoads = 2
    MaxRekeys = 2
INVARIANTS ConnectionsMatchEntries MovedConnectionsAreFound
