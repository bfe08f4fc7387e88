SPECIFICATION Spec
CONSTANTS
    Limits = {2, 3, 5, 16}
    Ms = 3
    Second = 12
    Cores = 2
    MaxChunk = 8
    MaxPass = 7
    MaxWall = 20
    MaxLate = 1
INVARIANTS TypeOK RateKept
