SPECIFICATION Spec
CONSTANTS
  a = a
  b = b
  shared = shared
  ll = ll
  g = g
  V4 = {a, b}
  LinkLocals = {shared, ll}
  Globals = {g}
  Interfaces = {1, 2}
  InitialAddrs <- TwoInterfaces
  Ports = {5, 6}
  Ephemeral = 7
  MaxMoves = 2
  None = None
CHECK_DEADLOCK FALSE
INVARIANTS
  ConfigHonoured
  SourceOnEgress
  LocalAddrCurrent
