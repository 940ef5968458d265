CONSTANTS
    r1 = r1
    r2 = r2
    r3 = r3
    None = None
    Requests <- MCThreeRequests
    AvailabilityOutcomes = {"ok", "outside", "unavailable"}
    EntitlementOutcomes = {"ok", "limit", "error"}
    ReminderOutcomes = {"ok", "skip", "err"}
    MayFail = TRUE
SPECIFICATION Spec
INVARIANTS
    TypeOK
    NoDanglingReservation
    FinalizedBookingReplayed
    EventsCommitWithBooking
PROPERTIES
    EveryRequestAnswered
CHECK_DEADLOCK FALSE
