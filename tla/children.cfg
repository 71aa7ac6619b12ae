CONSTANTS
    Executors = {"e1", "e2"}
    Parents = {"p"}
    Children = {"c1", "c2"}
    ChildOf <- MCChildOf
    Tasks = {1, 2, 3, 4}
    MaxRetries <- MCMaxRetries
    Sites <- MCSites
    Registered <- MCRegistered
    MaxCrashes = 2
    MaxRecoveries = 1
    MaxCancels = 1
    MaxPanics = 1
    MaxDisruptions = 2
SPECIFICATION Spec
CHECK_DEADLOCK FALSE
INVARIANTS PendingIsReachable ReplayedResultAgrees
PROPERTIES StartedFinishes
