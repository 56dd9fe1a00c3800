SPECIFICATION Spec
CONSTANTS
    Groups = {g}
    Configured = 1
    MaxNumprocs = 2
    Elsewhere = TRUE
    MaxUses = 4
INVARIANTS
    TypeOK
    Counted
PROPERTIES
    Durable
    Leaves
    Answered
CHECK_DEADLOCK FALSE
