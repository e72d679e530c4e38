SPECIFICATION FairSpec
CONSTANTS
  i1 = i1  i2 = i2  i3 = i3  n1 = n1
  Items = {i1, i2, i3, n1}
  HistoryLimit = 2
  Kind <- EngineKind
  RingUnits = 2
  MaxRendered = 4
  Users <- AllUsers
INVARIANTS ShowsWhatPlays EndIsHandled PauseIsSilent
PROPERTIES ComesToRest
CHECK_DEADLOCK FALSE
