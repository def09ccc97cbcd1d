\* What the two ends of a transfer should keep and do not: put one of the
\* commented lines in the place of the property.
SPECIFICATION FairSpec
CONSTANTS
  None = None
  putFile = putFile
  getFile = getFile
  Threads = {t1, t2}
  Workers = {w1}
  Files = {putFile, getFile}
  Puts = {putFile}
  Size <- MCSize
  Limit = 2
  Half = 4
  Garbage = {0}
  Patient = FALSE
  StopMapped = FALSE
  Torn = FALSE
  Window = 2
  MaxCommands = 3
  MaxBreaks = 1
  MaxStops = 1
INVARIANT ThreadOwnsCommand
\* INVARIANT SuccessMeansSame     with Patient = TRUE, StopMapped = TRUE
\* INVARIANT SuccessMeansSame     with Patient = TRUE, Half = 2
\* INVARIANT SuccessMeansSame     with Patient = TRUE, Torn = TRUE
CHECK_DEADLOCK FALSE
