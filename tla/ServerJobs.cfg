SPECIFICATION FairSpec
CONSTANTS
  Callers = {"http", "http2"}
  Threads = {t1, t2}
  t1 = t1  t2 = t2
  None = None
  MaxPackages = 2
CHECK_DEADLOCK FALSE
INVARIANTS OneJob StopsAfterTheJob
PROPERTIES SignalStops
