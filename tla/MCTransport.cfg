SPECIFICATION Spec
CONSTANTS
  Incarnations = {51966}
  Datagrams <- AllDatagrams
  Syncs <- AllSyncs
  UDPMaxLength = 100
  ReadBuffer = 120
INVARIANTS  BufferExact 
