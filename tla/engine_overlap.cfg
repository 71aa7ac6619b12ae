SPECIFICATION Spec
CONSTANTS
    e1 = e1
    e2 = e2
    w1 = w1
    w2 = w2
    Executors = {e1, e2}
    Workflows = {w1}
    Tasks = {t1, t2}
    NumSteps = 2
    Results = {a, err}
    Failures = {err}
    None = None
    LibError = LibError
    Tolerant = {}
    MaxRetries = 1
    Sites <- FirstSite
    QueueSites <- FirstSite
    Registered <- AllRegistered
    MaxCrashes = 1
    MaxCancels = 1
    MaxResumes = 1
    MaxRecoveries = 1
    MaxFaults = 1
SYMMETRY TaskSymmetry
INVARIANTS
    TypeOK
    ReplayAgreement
    SuccessIsReplayable
PROPERTIES
    ImplementsDurableExecution
