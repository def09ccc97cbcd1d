SPECIFICATION FairSpec
CONSTANTS
  Progs = {"add", "semadd", "mutexadd", "buffer5", "buffer10", "tickets"}
  N = 3
INVARIANT Exact
PROPERTY Finishes
\* Violated by the code, in the place of the properties:
\* INVARIANT AllExact
\* INVARIANT AllSold
\* INVARIANT DestroyedUnused
