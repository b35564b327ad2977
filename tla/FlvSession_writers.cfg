CONSTANTS
    Buffers = {b1, b2}
    Parts = 2
    MaxSends = 3
    UriChars = {"/", "s", ".flv"}
    MaxUri = 5
SPECIFICATION FlvSpec
INVARIANTS SingleWriter
CHECK_DEADLOCK FALSE
