SPECIFICATION FairSpec
CONSTANTS
    p1 = p1
    p2 = p2
    p3 = p3
    m1 = m1
    m2 = m2
    r1 = r1
    Prompts = {p1, p2, p3}
    Selected <- ThreePrompts
    Miners = {m1}
    Redoers = {}
    Fresh = {FALSE}
    Alongside = FALSE
    BindCrash = FALSE
    MaxFaults = 3
    MaxSeq = 8
    MaxRedo = 0
PROPERTY
    StageCompletes
