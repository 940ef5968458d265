CONSTANTS
    p1 = p1
    p2 = p2
    a1 = a1
    a2 = a2
    Publishers <- MCPublishers
    Aggregates <- MCAggregates
    MaxRows = 3
    BatchSize = 2
    MaxAborts = 2
SPECIFICATION Spec
INVARIANTS
    TypeOK
    PublishedWasSent
    DuplicateOnlyAfterAbort
PROPERTIES
    EveryRowPublished
    ImplementsOutboxSpec
CHECK_DEADLOCK FALSE
