SPECIFICATION FairSpec
CONSTANTS
  primary = primary  alternate = alternate  v1 = v1  v2 = v2
  Plan <- MCPlan
  Critical = {primary}
  Versions = {v1, v2}
  Installs = {1, 2}
  MaxEvictions = 1
  MaxReloads = 1
  Disturbances = {}
INVARIANTS PlayableIsWhole
PROPERTIES ImplementsShelf DownloadsSettle
CHECK_DEADLOCK FALSE
