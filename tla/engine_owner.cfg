SPECIFICATION FairSpec
CONSTANTS
    e1 = e1
    e2 = e2
    w1 = w1
    w2 = w2
    Executors = {e1, e2}
    Workflows = {w1, w2}
    Tasks = {t1, t2}
    NumSteps = 2
    Results = {a, err}
    Failures = {err}
    None = None
    LibError = LibError
    Tolerant = {w2}
    MaxRetries = 1
    Sites <- OwnerSites
    QueueSites <- OwnerQueueSites
    Registered <- AllRegistered
    MaxCrashes = 2
    MaxCancels = 1
    MaxResumes = 0
    MaxRecoveries = 0
    MaxFaults = 0
INVARIANTS
    SingleExecution
    PendingIsCovered
    DirectStartsBounded
PROPERTIES
    FinishedIsFinal
    RecordedStepNotRerun
    AcceptedFinishes
