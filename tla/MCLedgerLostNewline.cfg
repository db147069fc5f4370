SPECIFICATION Spec
CONSTANTS
    p1 = p1
    p2 = p2
    p3 = p3
    Prompts = {p1, p2, p3}
    Tears = {"fragment", "newline"}
    MaxSeq = 6
    MaxRedo = 2
INVARIANT
    DurableOnceReturned
CHECK_DEADLOCK FALSE
