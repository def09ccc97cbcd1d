SPECIFICATION FairSpec
CONSTANTS
    Fd = {f1}
    Tag = {a, b}
    Worker = {w1}
    TimeOut = 3
    MaxNum = 1
    Protocol = FALSE
    NULL = NULL
PROPERTY HeardIsDropped
CHECK_DEADLOCK FALSE
