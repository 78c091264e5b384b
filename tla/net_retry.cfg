SPECIFICATION FairSpec
CONSTANTS
  Sockets = {s1, s2}
  None = None
  MaxOutages = 1
CHECK_DEADLOCK FALSE
PROPERTIES RetriesUntilJoined
