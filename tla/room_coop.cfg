SPECIFICATION Spec
CONSTANTS
  Clients = {a, b, c}
  NoClient = NoClient
  NoColor = NoColor
  Colors = {}
  Sources = {s1}
  Modes = {"coop"}
  FinishFlags = {}
  FocusTargets = {}
  RelayGates = {TRUE, FALSE}
  RepeatHello = FALSE
  MaxConnections = 3
  MaxRacePlayers = 3
  MaxCoopPlayers = 3
  MaxJoins = 3
  MaxPromotions = 3
  MaxGenerations = 2
  MaxRevision = 2
CHECK_DEADLOCK FALSE
SYMMETRY Symmetry
INVARIANTS
  InitializerCanAct
  LiveSeatsArePlayers
  NativeRunHasLiveSeat
  BoardComesFirst
  RunMatchesSession
  LiveSnakesArePlayers
  SimLifeAgrees
PROPERTIES
  RunIsMonotone
