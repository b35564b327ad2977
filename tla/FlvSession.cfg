CONSTANTS
    Buffers = {b1, b2}
    Parts = 2
    MaxSends = 3
    UriChars = {"/", "s", ".flv"}
    MaxUri = 5
SPECIFICATION FlvFairSpec
INVARIANTS FlvTypeOK WellFormedStream OrderWithinKind WriteIffQueued
PROPERTIES JoinsWhatItAsks NothingAfterTear ImplementsFifo EventuallyWritten
CHECK_DEADLOCK FALSE
