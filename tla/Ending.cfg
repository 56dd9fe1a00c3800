SPECIFICATION SettledSpec
CONSTANTS
    a = a
    b = b
    c = c
    Instance = {a, b}
    NoMaster = NoMaster
    Rank <- TwoRanks
    InitialInstance = {a, b}
    CoreInstance = {}
    SyncOptions = {"STRICT"}
    FailureStrategy = "SHUTDOWN"
    AutoFence = FALSE
    Starting = {}
    Crashing = {a, b}
    MaxCrash = 1
    MaxCut = 0
    Asked = {a}
    Preferred = {a}
    EndRequests = {"RESTARTING", "SHUTTING_DOWN"}
    MaxConflict = 1
    Works <- AllWorks
    Codes = {"AUTHORIZED"}
    MaxQueue = 1
INVARIANTS
    LocalRunning
PROPERTIES
    EndReached
    StrategyApplied
    Convergence
CHECK_DEADLOCK FALSE
