CONSTANTS
    r1 = r1
    r2 = r2
    r3 = r3
    c1 = c1
    c2 = c2
    None = None
    Reqs <- MCTwoReqs
    Cancels <- MCCancels
    Intervals <- MCIntervals
    Hours <- MCHours
    Weekday = 1
    TimeOff <- MCTimeOff
    ConfigDuration = 0
    ConfigStep = 0
    Nows = {0, 1}
    SlotsFetchOutcomes = {"ok", "err", "hoursErr", "timeOffErr"}
    QueryWindow <- MCQueryWindow
    AvailabilityOutcomes = {"ok", "err", "hoursErr"}
    MayFail = TRUE
    Tiers = {"starter", "pro"}
    MaxBillingEvents = 1
    ConsumeCanceled = TRUE
SPECIFICATION Spec
INVARIANTS
    BookingTypeOK
    CancelEventExactlyOnce
    OfferedSlotsBookable
    AvailableSlotsMatchReference
PROPERTIES
    TimeOffNeverBooked
    EveryBookingRequestAnswered
CHECK_DEADLOCK FALSE
