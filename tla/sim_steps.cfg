SPECIFICATION Spec
CONSTANTS
  Players = 2
  Width = 4
  Height = 5
  Count = 0
  MaxTick = 3
CHECK_DEADLOCK FALSE
INVARIANTS GameSound
PROPERTIES KeepsPromise
