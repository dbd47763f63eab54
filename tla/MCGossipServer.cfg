SPECIFICATION Spec
CONSTANTS
  a = a
  b = b
  c = c
  Addr = {a, b, c}
  MaxUint16 = 2
  Inputs <- LifeEvents
  MaxTx = 1
  MaxTxs = {}
  MaxLengths = {0, 11, 22, 33}
  AddrSize = 4
  MaxSends = 2
INVARIANTS UniqueSubjects FreshFirst
PROPERTIES DroppedOnlyWhenSpent 
