CONSTANTS
  B = 8
  Nodes <- MCNodes
  Dest = 1
  Topologies <- MCTopologies
  Packets <- MCPackets
  MaxQueueLen = 1
  MaxQueueTime = 0
  MaxFaults <- MCMaxFaults
  MaxNow = 2
SPECIFICATION FairSpec
INVARIANTS  NoLoop
PROPERTY RouteFound
CHECK_DEADLOCK FALSE
