SPECIFICATION FairSpec
CONSTANTS
  Sockets = {a, b}
  Codes = {k}
  Ticker = Ticker
  None = None
  Limits = {1, 2}
  RepeatHello = FALSE
  MaxInputs = 3
CHECK_DEADLOCK FALSE
INVARIANTS TypeOK EndedLeavesNothing RoomWithinLimit
PROPERTIES KickedSocketEnds RosterReaches
