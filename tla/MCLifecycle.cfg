SPECIFICATION FairSpec
CONSTANTS
  c1 = c1
  Client = {c1}
INVARIANTS TypeOK SomebodyCloses 
PROPERTIES  UdpListenEnds
CHECK_DEADLOCK FALSE
