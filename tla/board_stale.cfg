SPECIFICATION Spec
CONSTANTS
  Clients = {a, b}
  Fruits = {f1, f2}
  None = None
  EarlierGens = {0}
  Leavers = {}
  Overtaking = FALSE
  MaxGen = 1
  MaxRev = 3
  MaxFlight = 0
  MaxResync = 0
CHECK_DEADLOCK FALSE
INVARIANTS BoardsAgreeAtRest
