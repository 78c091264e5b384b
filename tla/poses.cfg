SPECIFICATION Spec
CONSTANTS
  Player = p
  Watchers = {w}
  None = None
  Window = 2
  MaxSeq = 4
  MaxTurns = 3
  MaxFlight = 2
  MaxResync = 1
CHECK_DEADLOCK FALSE
INVARIANTS TypeOK JournalsConnect InTimeTurnsFit BodyMatchesTurns AnnouncedDeathShown
