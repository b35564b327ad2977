CONSTANTS
    RtmpOuts = {sub}
    FlvOuts = {flv1, flv2}
    TimeLimit = 8
    FirstTime = 5
    MaxMessages = 4
SYMMETRY FlvSubs
SPECIFICATION Spec
INVARIANTS TypeOK NothingMissed HeaderBeforeFrames TimeInStep
CHECK_DEADLOCK FALSE
