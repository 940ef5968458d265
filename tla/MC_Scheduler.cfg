CONSTANTS
    w1 = w1
    w2 = w2
    k1 = k1
    k2 = k2
    NoEvent = NoEvent
    Workers <- MCWorkers
    Keys <- MCKeys
    MaxAttempts = 2
    BatchSize = 1
    Backoff = 2
    MaxLead = 1
    MaxRollbacks = 2
    MaxDeliveries = 3
    RecordOutcomes = {"ok", "err"}
    HandlerOutcomes = {"ok", "err"}
    MayCrash = TRUE
SPECIFICATION SchedulerSpec
INVARIANTS
    SchedulerTypeOK
    AtMostOnce
    DeadLetterExactlyOnce
    DueEventExactlyOnce
PROPERTIES
    EveryRequestSettles
CHECK_DEADLOCK FALSE
