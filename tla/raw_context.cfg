SPECIFICATION Spec
CONSTANTS
  Configs = {c1, c2, c3}
  MaxId = 4
  MaxSockets = 4
  NoPublication = none
INVARIANTS
  IndexInv
  ConfigsUnique
PROPERTY
  ImplementsMap
