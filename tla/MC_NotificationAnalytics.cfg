CONSTANTS
    e1 = e1
    e2 = e2
    NoEvent = NoEvent
    Events <- MCEvents
    MaxDeliveries = 3
    AMaxDeliveries = 3
    RecordOutcomes = {"ok", "err"}
    SendOutcomes = {"ok", "err", "lost"}
    InsertOutcomes = {"ok", "err"}
    OutboxOutcomes = {"ok", "err"}
    MayCrash = TRUE
SPECIFICATION SystemSpec
INVARIANTS
    SystemTypeOK
    AtMostOnceDelivery
    RecordsTruthful
    AnalyticsTruthful
PROPERTIES
    EveryReminderReported
    EveryReminderCounted
CHECK_DEADLOCK FALSE
