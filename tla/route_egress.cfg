SPECIFICATION FairSpec
CONSTANTS
  d1 = d1
  d2 = d2
  i1 = i1
  Threads = {t1, t2}
  Interfaces = {i1, i2}
  Destinations = {d1, d2}
  Routes <- TwoRoutes
  InitialTables <- OneRoute
  SequenceLimit = 6
  MaxChanges = 1
  MaxFaults = 1
  Nobody = Nobody
  NoRoute = NoRoute
INVARIANTS
  CacheCurrent
PROPERTIES
  FollowsRoute
  Recovers
