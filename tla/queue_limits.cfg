SPECIFICATION FairSpec
CONSTANTS
    Executors = {e1, e2}
    NumWorkflows = 3
    Priority <- SamePriority
    Delayed = {1}
    Registered <- AllRegistered
    None = None
    WorkerConcurrency = 1
    GlobalConcurrency = 1
    RateLimit = 2
    MaxTasksPerIteration = 2
    MaxDisruptions = 1
INVARIANTS
    InOrderGlobalLimitHolds
    WorkerLimitHolds
    ClaimedOnce
PROPERTIES
    QueuedFinishes
