SPECIFICATION SumSpec
CONSTANTS
  ThreadNum = 2
  Clients = {c1, c2}
  Capacity = 1
  Items = 1
  None = None
  Chats = {"pipe", "ipc"}
  Lines1 = 2
  Lines2 = 1
  SocketChats = {"select", "lowat", "epoll", "edge"}
  People = {p1, p2}
  Units = 1
  Watched = 1
  NoConn = NoConn
  Listener = Listener
  CounterProgs = {"add", "semadd", "mutexadd", "buffer5", "buffer10", "tickets"}
  N = 3
INVARIANTS PopAlone NothingLost Exact
PROPERTIES EveryoneIsTold ExitEnds BothEnd CurrentServed Finishes
CHECK_DEADLOCK FALSE
