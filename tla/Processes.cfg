CONSTANTS
  NPROC = 3
  Cpus = {c1, c2}
  Boot = c1
  MaxPid = 3
  MaxSleep = 1
  KillTargets = {2}
  None = None
SPECIFICATION FairSpec
INVARIANTS Inv ParentLives NoLostWakeup
 
CHECK_DEADLOCK FALSE
