SPECIFICATION Spec
CONSTANTS
    Fd = {f1, f2}
    n1 = n1
    n2 = n2
    p1 = p1
    p2 = p2
    Name = {n1, n2}
    Person = {p1, p2}
    Rows <- MCRows
    Command = {"puts", "remove", "unknown"}
    Second = {0}
    Unique = TRUE
    Wrong = Wrong
    None = None
SYMMETRY Symmetry
INVARIANTS Aligned Authenticated OwnDirectory
CHECK_DEADLOCK FALSE
