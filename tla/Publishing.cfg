SPECIFICATION Spec
CONSTANTS
  Procs = {1, 2}
  Commands = {"create", "import", "build", "save", "update", "pack", "unpack"}
  Sources = {"audio", "sonic"}
  MaxChanges = 1
  MaxKills = 1
INVARIANTS PackagesAreWhole ReportsAreTrue LeavesNothing
PROPERTIES PackageSurvives
CHECK_DEADLOCK FALSE
