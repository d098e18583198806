SPECIFICATION Spec
CONSTANTS
  Counters <- PublicationCounters
  Updates <- PublicationUpdates
  Payloads = {7}
  Writers = {w1, w2}
  Readers = {r1}
  OddStoreOrdered = FALSE
  MaxSequence = 3
INVARIANT
  EachSendWhole
