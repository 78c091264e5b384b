SPECIFICATION Spec
CONSTANTS
  Clients = {a, b, c}
  NoClient = NoClient
  NoColor = NoColor
  Colors = {0, 1, 2}
  Sources = {}
  Modes = {"race", "coop"}
  FinishFlags = {}
  FocusTargets = {}
  RelayGates = {TRUE}
  RepeatHello = TRUE
  MaxConnections = 4
  MaxRacePlayers = 3
  MaxCoopPlayers = 2
  MaxJoins = 4
  MaxPromotions = 4
  MaxGenerations = 0
  MaxRevision = 1
CHECK_DEADLOCK FALSE
SYMMETRY Symmetry
INVARIANTS
  TypeOK
  AdminIsMember
  CapRespected
  ReadyColorsDistinct
