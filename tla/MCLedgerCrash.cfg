SPECIFICATION Spec
CONSTANTS
    p1 = p1
    p2 = p2
    p3 = p3
    Prompts = {p1, p2, p3}
    Tears = {"fragment"}
    MaxSeq = 6
    MaxRedo = 2
INVARIANTS
    TypeOK
    ChainVerifies
    DurableOnceReturned
    OneActivePerPrompt
PROPERTY
    ImplementsWorkLog
CHECK_DEADLOCK FALSE
