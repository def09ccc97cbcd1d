SPECIFICATION Spec
CONSTANTS
  Workers = {w1}
  People = {"p1", "p2"}
  Names = {"n1", "n2"}
  Known = TRUE
INVARIANTS TypeOK Authenticated HomeExists
\* Violated by the code, in the place of the properties, with Workers = {w1, w2}:
\* INVARIANT RegisteredAsTyped
CHECK_DEADLOCK FALSE
