SPECIFICATION FairSpec
CONSTANTS
  Programs = {"2", "3", "4"}
  ChildNum = 2
  Clients = {c1, c2, c3}
  Items = 2
  Window = 1
  Exit = Exit
INVARIANTS FlagsAgree OneServer ClientsAreTold
PROPERTIES ExitReturns
CHECK_DEADLOCK FALSE
