SPECIFICATION SumSpec
CONSTANTS
  Workers = {w1, w2}
  Conns = {c1, c2}
  MaxFd = 2
  Capacity = 1
  TimeOut = 1
  None = None
  Sessions = {s1, s2}
  Names = {"a"}
  Depth = 2
  Garbage = {"file", "dir"}
  Window = 0
  Builders = {s2}
  Large = FALSE
  Orderly = TRUE
  Logins = {w1}
  People = {"p1", "p2"}
  UserNames = {"n1", "n2"}
  Known = TRUE
INVARIANTS NobodyForgotten IdleIsClosed Authenticated Aligned PathsExist
PROPERTIES WorkersReturn Answered
CHECK_DEADLOCK FALSE
