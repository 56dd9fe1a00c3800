SPECIFICATION FairSpec
CONSTANTS
    a = a
    b = b
    c = c
    Instance = {a, b}
    NoMaster = NoMaster
    Rank <- TwoRanks
    InitialInstance = {a, b}
    CoreInstance = {a}
    SyncOptions = {"CORE"}
    FailureStrategy = "CONTINUE"
    AutoFence = FALSE
    Starting = {a, b}
    Crashing = {a, b}
    MaxCrash = 0
    MaxCut = 0
    Asked = {a}
    Preferred = {a}
    EndRequests = {}
    MaxConflict = 0
    Works <- StartWorks
    Codes = {"AUTHORIZED"}
    MaxQueue = 1
INVARIANTS
    TypeOK
PROPERTIES
    NoNewcomer
    Convergence
