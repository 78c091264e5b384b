SPECIFICATION FairSpec
CONSTANTS
  Clients = {a, b}
  Fruits = {f}
  None = None
  EarlierGens = {0}
  Leavers = {b}
  Overtaking = FALSE
  MaxGen = 2
  MaxRev = 1
  MaxFlight = 0
  MaxResync = 1
CHECK_DEADLOCK FALSE
INVARIANTS TypeOK NegotiatedGen NeverAhead
PROPERTIES EverySeatGetsBoard BoardsFollowLog
