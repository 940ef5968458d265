CONSTANTS
    k1 = k1
    r1 = r1
    r2 = r2
    NoKey = NoKey
    Keys <- MCKeys
    Reqs <- MCReqs
    MayFail = TRUE
SPECIFICATION Spec
INVARIANTS
    CompletedStaysCompleted
CHECK_DEADLOCK FALSE
