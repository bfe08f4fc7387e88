SPECIFICATION Spec
CONSTANTS
    Sessions = {s1, s2}
    Names = {a, b}
    Mixed = Mixed
    MaxDepth = 2
    MaxBytes = 2
    MaxCmds = 4
SYMMETRY Symmetry
CHECK_DEADLOCK FALSE
INVARIANTS TypeOK HandlesAccounted
PROPERTY StoredIsSent
