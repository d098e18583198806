SPECIFICATION Spec
CONSTANTS
  None = None
  Interfaces = {1, 2}
  Ethernet = {1}
  CAPACITY = 2
  Threads = {t1, t2}
  RawConfigs <- MCRawConfigs
  RawIpConfigs <- MCRawIpConfigs
  Datagrams <- MCDatagrams
  Addressings <- MCAddressings
  MaxMoves = 1
SYMMETRY Symmetry
CHECK_DEADLOCK FALSE
INVARIANTS
  CacheSound
  HeaderKept
  EgressHonoured
  CapabilitiesHold
PROPERTIES
  EvictsForNew
