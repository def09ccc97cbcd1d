SPECIFICATION FairSpec
CONSTANTS
  ThreadNum = 2
  Clients = {c1, c2}
  Capacity = 1
  Items = 1
  None = None
INVARIANTS PopAlone
PROPERTIES EveryoneIsTold ExitEnds
\* Violated by the code, in the place of the properties:
\* INVARIANT JoinsAll
CHECK_DEADLOCK FALSE
