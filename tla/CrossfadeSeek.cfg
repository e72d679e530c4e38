SPECIFICATION Spec
CONSTANTS
  Lengths <- MCLengths
  RingUnits = 10
  Cap = 2
  Plans <- MCFades
  Lead = 1
  MaxReports = 1
  Incidents = 1
  Places = {4}
  Disturbances = {"seek"}
INVARIANTS CursorFollowsSound
