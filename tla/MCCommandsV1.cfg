SPECIFICATION FairSpec
CONSTANTS
  Sessions = {s1, s2}
  Names = {"a"}
  Depth = 2
  Garbage = {"file", "dir"}
  Window = 1
  Builders = {}
  Large = FALSE
  Orderly = TRUE
INVARIANTS TypeOK Aligned PathsExist
PROPERTIES Answered
\* Violated by the code, in the place of the properties:
\* INVARIANT Aligned             with Orderly = FALSE, Garbage = {"file", "dir", "other"}
\* INVARIANT Aligned             with Large = TRUE
\* INVARIANT Aligned             with Names = {"pwd"}
\* INVARIANT PathsExist          with Orderly = FALSE
\* PROPERTY Answered             with Orderly = FALSE
CHECK_DEADLOCK FALSE
