SPECIFICATION FairSpec
CONSTANTS
  Sockets = {s1, s2, s3}
  None = None
  MaxOutages = 2
CHECK_DEADLOCK FALSE
INVARIANTS TypeOK OneLiveSocket ViewAgrees QuietAfterDisconnect
PROPERTIES NoUnwantedSocket LossIsRetried AttemptSettles
