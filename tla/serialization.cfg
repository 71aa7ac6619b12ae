CONSTANTS
    Workflows = {"w1", "w2", "w3"}
    Contents = {"null", "x"}
    Origins = {"rust", "go", "ts", "ts_legacy", "go_legacy"}
    Mail <- MCMail
    MaxRetries <- MCMaxRetries
    MaxCrashes = 1
SPECIFICATION Spec
CHECK_DEADLOCK FALSE
INVARIANTS InputArrives OutcomeIsReadable ReplayIsFaithful
