SPECIFICATION Spec
CONSTANTS
    p1 = p1
    p2 = p2
    p3 = p3
    m1 = m1
    m2 = m2
    r1 = r1
    Prompts = {p1, p2}
    Selected <- TwoPrompts
    Miners = {m1, m2}
    Redoers = {r1}
    Fresh = {TRUE, FALSE}
    Alongside = FALSE
    BindCrash = TRUE
    MaxFaults = 2
    MaxSeq = 6
    MaxRedo = 2
INVARIANT
    PaidForOnce
PROPERTIES
    NeverResample
    FreshStartsEmpty
    DerivativesCurrent
    ImplementsWorkLog
CHECK_DEADLOCK FALSE
