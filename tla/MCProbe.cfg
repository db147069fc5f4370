SPECIFICATION FairSpec
CONSTANTS
    l1 = l1
    l2 = l2
    NoPid = NoPid
    Launchers = {l1, l2}
    Ids = {"a", "b"}
    Deadline = 2
    Provider = 4
    Grace = 1
    MaxFaults = 1
INVARIANTS
    BilledStopsInTime
    OneWriterPerLeaf
    OrderlyEndsAreReal
    SuccessHasReceipt
PROPERTIES
    PaidOnVerifiedFixtures
    DeathIsReported
CHECK_DEADLOCK FALSE
