SPECIFICATION Spec
CONSTANTS
    Sessions = {s1, s2}
    Bytes = {b1, b2}
    Hole = Hole
    maxFileSize = 2
    Width = 3
    LongWidth = 2
    RestArgs = {5, 9}
    MaxBytes = 2
SYMMETRY Symmetry
VIEW View
INVARIANTS TypeOK UploadBounded
PROPERTIES UploadFaithful DownloadFaithful
