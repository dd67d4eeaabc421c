\* One context whose kubeconfig entry changes, breaks, disappears and returns.
CONSTANTS
    Ids = {a}
    Configs = {x, y}
    Broken = Broken
    None = None
    MaxGeneration = 3
    MaxReloads = 3
    MaxRemovals = 1
SPECIFICATION FairSpec
INVARIANTS
    TasksAreCurrent
    ClientMatchesKubeconfig
    Supervised
    OneSupervisor
    AccessUnlessRemoved
PROPERTIES
    DisconnectedStaysClosed
    RetryHappens
\* The bounds on attempts and reloads end every behaviour.
CHECK_DEADLOCK FALSE
