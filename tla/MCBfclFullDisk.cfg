SPECIFICATION BfclSpec
CONSTANTS
    Prompts = 2
    Sweeps <- Checkpoints
    MaxRuns = 2
    MaxSignals = 0
INVARIANT
    EveryExceptionFinalizes
CHECK_DEADLOCK FALSE
