SPECIFICATION FairSpec
CONSTANTS
  Counters <- PublicationCounters
  Updates <- PublicationUpdates
  Payloads = {7}
  Writers = {w1, w2}
  Readers = {r1}
  OddStoreOrdered = TRUE
  MaxSequence = 3
CHECK_DEADLOCK FALSE
INVARIANTS
  TypeOK
  NoLostUpdate
  CopiesCurrent
PROPERTIES
  ImplementsAtomic
  OperationsFinish
