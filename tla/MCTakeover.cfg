CONSTANTS
    Instances = {a, b}
    None = None
    Other = Other
    Faults = {"keychain", "slow", "other", "bind"}
    MaxChanges = 6
SPECIFICATION FairSpec
INVARIANTS RunningServes
PROPERTIES ServesTheStored StandbyAgrees
CHECK_DEADLOCK FALSE
