CONSTANTS
  Threads = {t1, t2}
  totalKiosk = 2
  n = 1
  p = 1
SPECIFICATION FairSpec
INVARIANT InOrder
PROPERTIES EveryoneBoards ComponentsAsSpecified
