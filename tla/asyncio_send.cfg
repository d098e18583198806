SPECIFICATION Spec
CONSTANTS
  None = None
  Tasks = {t1, t2}
  Pubs = {p1, p2}
  MaxFd = 4
  MaxLeaks = 1
CHECK_DEADLOCK FALSE
INVARIANTS
  OwnRegistration
  NothingLeft
PROPERTIES
  SettledOnce
  RemovalNoticed
