SPECIFICATION FairSpec
CONSTANTS
  c3 = c3
  ann = ann
  bob = bob
  Conns = {c1, c2, c3}
  Students = {ann, bob}
  StudentOf <- MCStudentOf
  Broadcasts = {b1}
  None = None
CHECK_DEADLOCK FALSE
INVARIANTS Inv NoGhosts BroadcastReachesAll
 
