SPECIFICATION Spec
CONSTANTS
    l1 = l1
    l2 = l2
    NoPid = NoPid
    Launchers = {l1}
    Ids = {"a"}
    Deadline = 2
    Provider = 4
    Grace = 1
    MaxFaults = 0
INVARIANT
    HardDeathLeftNoAccount
CHECK_DEADLOCK FALSE
