SPECIFICATION Spec
CONSTANTS
  Places = {1, 2}
  Nowhere = 0
  Tokens = {"t1", "t2"}
  SessionDays = 1
  MaxSessions = 1
  Visits <- AllVisits
INVARIANTS AnswersAreWhole ListedIsServed
PROPERTIES IngestsStayApart RefusalsHaveReasons
CHECK_DEADLOCK FALSE
