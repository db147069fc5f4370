SPECIFICATION Spec
CONSTANTS
    p1 = p1
    p2 = p2
    p3 = p3
    m1 = m1
    m2 = m2
    r1 = r1
    Prompts = {p1, p2}
    Selected <- TwoPrompts
    Miners = {m1}
    Redoers = {r1}
    Fresh = {FALSE}
    Alongside = TRUE
    BindCrash = FALSE
    MaxFaults = 0
    MaxSeq = 6
    MaxRedo = 1
INVARIANT
    TombstonesReachDerivatives
CHECK_DEADLOCK FALSE
