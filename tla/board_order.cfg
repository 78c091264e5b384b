SPECIFICATION Spec
CONSTANTS
  Clients = {a, b}
  Fruits = {f1, f2}
  None = None
  EarlierGens = {0}
  Leavers = {}
  Overtaking = TRUE
  MaxGen = 1
  MaxRev = 3
  MaxFlight = 2
  MaxResync = 0
CHECK_DEADLOCK FALSE
PROPERTIES BoardsFollowLog
