CONSTANTS
  Threads = {t1, t2, t3, t4, t5}
  n = 2
  p = 2
SPECIFICATION BeltsSpec
INVARIANTS BeltsInv SlotIsAPlace
PROPERTY LeastLoaded
