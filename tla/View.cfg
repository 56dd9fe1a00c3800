SPECIFICATION Spec
CONSTANTS
    Supervisors = {s1, s2}
    Observers = {m}
    Master = m
    NoState = NoState
    Features = {"slow", "lag", "lose", "remove"}
    MaxTime = 2
    MaxForced = 1
SYMMETRY Symmetry
INVARIANTS
    Synthesis
CHECK_DEADLOCK FALSE
