SPECIFICATION FairSpec
CONSTANTS
  Workers = {w1, w2}
  Conns = {c1, c2}
  MaxFd = 2
  Capacity = 1
  TimeOut = 2
  None = None
INVARIANTS TypeOK NobodyForgotten ServedInRing IdleIsClosed
PROPERTIES WorkersReturn
\* Violated by the code, in the place of the properties:
\* INVARIANT IdleIsDisconnected
\* PROPERTY AllWorkersReturn
CHECK_DEADLOCK FALSE
