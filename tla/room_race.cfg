SPECIFICATION Spec
CONSTANTS
  Clients = {a, b, c}
  NoClient = NoClient
  NoColor = NoColor
  Colors = {}
  Sources = {}
  Modes = {"race", "coop"}
  FinishFlags = {TRUE, FALSE}
  FocusTargets = {}
  RelayGates = {TRUE}
  RepeatHello = FALSE
  MaxConnections = 3
  MaxRacePlayers = 3
  MaxCoopPlayers = 2
  MaxJoins = 3
  MaxPromotions = 3
  MaxGenerations = 1
  MaxRevision = 1
CHECK_DEADLOCK FALSE
SYMMETRY Symmetry
INVARIANTS
  GraceStaysOpenForRuns
  EmptyRoomIsIdle
PROPERTIES
  OngoingRunsFinish
