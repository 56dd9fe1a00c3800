SPECIFICATION Spec
CONSTANTS
    Supervisors = {"s1", "s2"}
    NoState = "NoState"
    NoInstance = "NoInstance"
    Local = "s1"
    Ticking = TRUE
    MaxPending = 9
    MinimumTicks = 1
    Order <- TierOrder
    AppOrder <- TierApps
    Rules <- TierRules
    AppRules <- TierAppRules
    Node <- MCNode
    Budget <- TierBudget
    Conciliation = "RUNNING_FAILURE"
    UserStrategies = {"CONFIG"}
INVARIANTS
    TypeOK
PROPERTIES
    StartsInOrder
    StopsInOrder
    JobsEnd
    ShutdownEnds
