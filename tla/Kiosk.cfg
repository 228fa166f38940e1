CONSTANTS
  Threads = {t1, t2, t3, t4}
  totalKiosk = 3
SPECIFICATION Spec
INVARIANTS Inv PopFindsKiosk
