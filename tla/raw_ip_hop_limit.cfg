SPECIFICATION Spec
CONSTANTS
  None = None
  Interfaces = {1, 2}
  Ethernet = {1, 2}
  CAPACITY = 2
  Threads = {t1}
  RawConfigs = {}
  RawIpConfigs <- HopLimitConfigs
  Datagrams <- HopLimitDatagrams
  Addressings <- MCAddressings
  MaxMoves = 0
CHECK_DEADLOCK FALSE
INVARIANTS
  HopLimitApplied
