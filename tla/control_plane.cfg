CONSTANTS
    Managed = {"w1", "w2"}
    ConductorRequests <- MCConductorRequests
    AdminRequests <- MCAdminRequests
    MaxSent = 2
    MaxCalls = 1
    MaxCuts = 1
    MaxClock = 2
    MaxTasks = 1
SPECIFICATION ControlSpec
CHECK_DEADLOCK FALSE
INVARIANTS SuccessMeansDone
PROPERTIES CollectionSparesNewest ConductorReconnects
