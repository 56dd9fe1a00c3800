SPECIFICATION MetSpec
CONSTANTS
    a = a
    b = b
    c = c
    Instance = {a, b, c}
    NoMaster = NoMaster
    Rank <- ThreeRanks
    InitialInstance = {a, b, c}
    CoreInstance = {}
    SyncOptions = {"STRICT"}
    FailureStrategy = "CONTINUE"
    AutoFence = FALSE
    Starting = {}
    Crashing = {a, b, c}
    MaxCrash = 0
    MaxCut = 0
    Asked = {a}
    Preferred = {a}
    EndRequests = {}
    MaxConflict = 0
    Works <- NoWorks
    Codes = {"AUTHORIZED"}
    MaxQueue = 0
PROPERTIES
    Convergence
