SPECIFICATION Spec
CONSTANTS
  Lengths <- MCShortLast
  RingUnits = 10
  Cap = 2
  Plans <- MCGaplessFirst
  Lead = 1
  MaxReports = 1
  Incidents = 0
  Places = {4}
  Disturbances = {}
PROPERTIES HeardInOrder
