SPECIFICATION MCSpec
CONSTANTS
  Configs = {c1, c2}
  Threads = {t1, t2}
  MaxId = 2
  MaxPackets = 2
  MaxSends = 2
  MaxTime = 2
  None = None
CHECK_DEADLOCK FALSE
INVARIANTS
  ActiveCounted
  TotalsAgree
  BaselineMatches
  ReportedOnce
  TimeCoveredOnce
PROPERTIES
  IdsNeverReused
  SendAllReports
