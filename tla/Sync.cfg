SPECIFICATION Spec
CONSTANTS
    a = a
    b = b
    c = c
    Instance = {a, b}
    NoMaster = NoMaster
    Rank <- TwoRanks
    InitialInstance = {a, b}
    CoreInstance = {}
    SyncOptions = {"TIMEOUT", "USER"}
    FailureStrategy = "CONTINUE"
    AutoFence = FALSE
    Starting = {a, b}
    Crashing = {a, b}
    MaxCrash = 0
    MaxCut = 0
    Asked = {a}
    Preferred = {a, b}
    EndRequests = {}
    MaxConflict = 0
    Works <- NoWorks
    Codes = {"AUTHORIZED"}
    MaxQueue = 0
INVARIANTS
    OneLeader
PROPERTIES
    MasterKept
