CONSTANTS
    b1 = b1
    b2 = b2
    None = None
    Businesses <- MCBusinesses
    SubOwner <- MCResubscribeOwner
    MaxFailures = 1
    Tiers = {"starter", "pro"}
    MaxEvents = 3
    BatchSize = 1
SPECIFICATION Spec
PROPERTIES
    SubscriptionHealed
CHECK_DEADLOCK FALSE
