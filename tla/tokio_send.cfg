SPECIFICATION TokioSpec
CONSTANTS
  Calls = {t1, t2, t3, t4}
  Capacity = 3
  MaxFaults = 1
INVARIANTS
  SentOnce
  CountersAgree
  NoLostWakeup
PROPERTIES
  SendsFinish
