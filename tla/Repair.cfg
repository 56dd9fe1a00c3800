SPECIFICATION Spec
CONSTANTS
    Supervisors = {"s1", "s2"}
    NoState = "NoState"
    NoInstance = "NoInstance"
    Local = "s2"
    Ticking = FALSE
    MaxPending = 2
    MinimumTicks = 1
    Order <- PairOrder
    AppOrder <- PairApps
    Rules <- PairRules
    AppRules <- PairAppRules
    Node <- MCNode
    Budget <- PairBudget
    Conciliation = "RUNNING_FAILURE"
    UserStrategies = {"CONFIG"}
INVARIANTS
    Consistent
PROPERTIES
    DeferredStarts
    Followed
    NoDoubleStart
    NoOverload
    LossRepaired
