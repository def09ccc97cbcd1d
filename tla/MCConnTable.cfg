SPECIFICATION Spec
CONSTANTS
    Fd = {f1, f2}
    Tag = {a, b}
    Worker = {w1}
    TimeOut = 1
    MaxNum = 1
    Protocol = FALSE
    NULL = NULL
SYMMETRY Symmetry
INVARIANTS CountBounds IdleBound
CHECK_DEADLOCK FALSE
