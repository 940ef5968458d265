CONSTANTS
    r1 = r1
    r2 = r2
    r3 = r3
    None = None
    Requests <- MCTwoRequests
    AvailabilityOutcomes = {"ok", "outside"}
    EntitlementOutcomes = {"ok", "limit"}
    ReminderOutcomes = {"ok", "skip", "err"}
    MayFail = FALSE
SPECIFICATION Spec
INVARIANTS
    SameKeySameAnswer
CHECK_DEADLOCK FALSE
