SPECIFICATION FairSpec
CONSTANTS
  None = None
  putFile = putFile
  getFile = getFile
  Threads = {t1, t2}
  Workers = {w1}
  Files = {putFile, getFile}
  Puts = {putFile}
  Size <- MCSize
  Limit = 2
  Half = 4
  Garbage = {0}
  Patient = TRUE
  StopMapped = FALSE
  Torn = FALSE
  Window = 2
  MaxCommands = 3
  MaxBreaks = 1
  MaxStops = 1
INVARIANTS EndsAgree
PROPERTIES ImplementsCopy TransfersEnd
CHECK_DEADLOCK FALSE
