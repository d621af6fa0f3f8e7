SPECIFICATION FairSpec
CONSTANTS
  Sockets = {w1, w2}
  Projects = {p1, p2}
  MaxMessages = 3
  MaxFailures = 1
  NoProject = NoProject
  NoSocket = NoSocket
INVARIANTS
  InOrder
  NoneLeftBehind
  UndisturbedRoundIsComplete
PROPERTIES
  EveryMessageIsHeard
CHECK_DEADLOCK FALSE
