SPECIFICATION Spec
CONSTANTS
    a = a
    b = b
    c = c
    Instance = {a, b}
    NoMaster = NoMaster
    Rank <- TwoRanks
    InitialInstance = {a, b}
    CoreInstance = {a}
    SyncOptions = {"CORE"}
    FailureStrategy = "CONTINUE"
    AutoFence = FALSE
    Starting = {a, b}
    Crashing = {a}
    MaxCrash = 1
    MaxCut = 0
    Asked = {a}
    Preferred = {a}
    EndRequests = {}
    MaxConflict = 0
    Works <- NoWorks
    Codes = {"AUTHORIZED"}
    MaxQueue = 0
INVARIANTS
    MasterSeenRunning
    OneLeader
PROPERTIES
    LifeCycle
