CONSTANTS
    Program <- MCProgram
    Original = "w"
    ForkIds = {"f1"}
    Callers = {1, 2}
    MaxRestarts = 1
    MaxForks = 2
SPECIFICATION Spec
CHECK_DEADLOCK FALSE
INVARIANTS ForkEffectsMatchLog ForkExecutesTheRest
