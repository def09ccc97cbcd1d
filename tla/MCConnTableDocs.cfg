\* What the comments and docs say of the connection tables and the code does
\* not do: put one of the commented lines in the place of the property.
SPECIFICATION FairSpec
CONSTANTS
    Fd = {f1}
    Tag = {a, b, c}
    Worker = {w1}
    TimeOut = 2
    MaxNum = 1
    Protocol = TRUE
    NULL = NULL
INVARIANT CountIsClients
\* INVARIANT TransferNotInRing
\* INVARIANT MapHasNode
\* PROPERTY ClosedAfterTimeOut
\* PROPERTY SilentIsDropped       (TimeOut = 1 and Tag = {a, b} are enough)
CHECK_DEADLOCK FALSE
