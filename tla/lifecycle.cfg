CONSTANTS
    Processes = {"p1", "p2"}
    Config <- MCConfig
    Env <- MCEnv
    Binaries = {"hash1", "hash2"}
    MaxTick = 2
    MaxStops = 2
    MaxErrors = 1
SPECIFICATION Spec
CHECK_DEADLOCK FALSE
INVARIANTS DrainedMeansDone NoTickSkipped
PROPERTIES InterruptedIsFinished
