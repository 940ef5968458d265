CONSTANTS
    b1 = b1
    b2 = b2
    None = None
    Businesses <- MCBusinesses
    SubOwner <- MCSubOwner
    MaxFailures = 1
    Tiers = {"starter", "pro"}
    MaxEvents = 3
    BatchSize = 2
SPECIFICATION Spec
INVARIANTS
    TypeOK
    EntitlementEventMatchesRow
PROPERTIES
    SubscriptionConverges
CHECK_DEADLOCK FALSE
