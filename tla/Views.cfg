SPECIFICATION Spec
CONSTANTS
    Supervisors = {s1}
    Observers = {m, o}
    Master = m
    NoState = NoState
    Features = {"lag", "lose", "restart", "blind", "force", "disable", "remove"}
    MaxTime = 3
    MaxForced = 1
SYMMETRY Symmetry
INVARIANTS
    TypeOK
    Faithful
CHECK_DEADLOCK FALSE
