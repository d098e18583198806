SPECIFICATION MctxSpec
CONSTANTS
  Processes = {p, q}
  Headers = {"h1", "h2"}
  MaxRows = 4
  MaxFaults = 2
  Nobody = Nobody
  Sender = p
  Count = 2
  Intervals = {1, 9}
  MaxInstant = 8
  MaxTime = 2
  None = None
CHECK_DEADLOCK FALSE
INVARIANTS
  OneHeader
  DamageBounded
  DamageFrozen
  RowsKept
  RowsAccount
  ReportedInFull
