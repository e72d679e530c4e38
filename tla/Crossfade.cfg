SPECIFICATION Spec
CONSTANTS
  Lengths <- MCLengths
  RingUnits = 10
  Cap = 2
  Plans <- MCPlans
  Lead = 1
  MaxReports = 1
  Incidents = 1
  Places = {4}
  Disturbances = {}
INVARIANTS CursorFollowsSound EndsWithTheLast
PROPERTIES HeardInOrder
