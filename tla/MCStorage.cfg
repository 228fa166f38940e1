CONSTANTS
  p1 = p1
  p2 = p2
  Blocks = {b1, b2}
  Procs = {p1, p2}
  MAXOPBLOCKS = 2
  LOGSIZE = 4
  LogBlocks = 4
  MaxOps <- MCMaxOps
  MaxCrashes = 2
  DiskBlocks = {"k1", "k2", "k3", "k4"}
  Threads = {p1, p2}
  Asked <- MCAsked
  Written = {"k1"}
  Changed = {"v1"}
  NBUF = 3
  MaxPinned = 1
  None = None
SPECIFICATION StorageSpec
INVARIANTS Inv  
PROPERTIES ImplementsAtomicDisk ImplementsBlockStore StorageAnswers
CHECK_DEADLOCK FALSE
