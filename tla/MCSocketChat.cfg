SPECIFICATION FairSpec
CONSTANTS
  Progs = {"select", "lowat", "epoll", "edge"}
  Clients = {c1, c2}
  Units = 2
  Watched = 1
  NoConn = NoConn
  Listener = Listener
PROPERTIES CurrentServed
\* Violated by the code, in the place of the property:
\* PROPERTY OthersServed
\* PROPERTY AllServed
\* PROPERTY OldServed
\* INVARIANT ServerSurvives
CHECK_DEADLOCK FALSE
