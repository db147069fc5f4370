SPECIFICATION EnvelopeSpec
CONSTANTS
    l1 = l1
    l2 = l2
    Launchers = {l1, l2}
    Second = 2
    MaxStage = 2
    Grace = 1
    Interrupts = FALSE
    MaxKills = 2
    MaxTime = 10
    MaxSessions = 4
SYMMETRY Either
INVARIANT
    EveryChildCapped
CHECK_DEADLOCK FALSE
