SPECIFICATION FairSpec
CONSTANTS
    Fd = {f1, f2}
    n1 = n1
    n2 = n2
    p1 = p1
    p2 = p2
    Name = {n1}
    Person = {p1}
    Rows <- MCNoRows
    Command = {"gets"}
    Second = {0}
    Unique = TRUE
    Wrong = Wrong
    None = None
PROPERTIES Answered HungUpIsReaped
CHECK_DEADLOCK FALSE
