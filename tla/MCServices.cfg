CONSTANTS
  Writers = {w1, w2}
  Readers = {r1, r2}
  PIPESIZE = 2
  M = 4
  Length = 2
  ReadSize = 2
  None = None
  Slots = {1, 2}
  Init0 = 1
  NPages = 11
  MaxSz = 4
  Programs = {1}
  PerTable = 2
  ShrinkToZero = FALSE
SPECIFICATION ServicesSpec
INVARIANTS Inv MemoryInv ServicesRight
PROPERTIES ImplementsChannel 
CHECK_DEADLOCK FALSE
