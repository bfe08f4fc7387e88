SPECIFICATION Spec
CONSTANTS
    Sessions = {s1}
    Bytes = {b1, b2}
    Hole = Hole
    maxFileSize = 0
    Width = 3
    LongWidth = 2
    RestArgs = {1, 2}
    MaxBytes = 2
SYMMETRY Symmetry
INVARIANT RestartPosition
