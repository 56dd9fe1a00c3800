SPECIFICATION SettledSpec
CONSTANTS
    a = a
    b = b
    c = c
    Instance = {a, b}
    NoMaster = NoMaster
    Rank <- TwoRanks
    InitialInstance = {a, b}
    CoreInstance = {a}
    SyncOptions = {"CORE"}
    FailureStrategy = "CONTINUE"
    AutoFence = TRUE
    Starting = {a, b}
    Crashing = {a, b}
    MaxCrash = 0
    MaxCut = 1
    Asked = {a}
    Preferred = {a}
    EndRequests = {}
    MaxConflict = 0
    Works <- NoWorks
    Codes = {"AUTHORIZED", "UNKNOWN"}
    MaxQueue = 0
PROPERTIES
    LifeCycle
    IsolatedForGood
    Detection
    HandshakeEnds
