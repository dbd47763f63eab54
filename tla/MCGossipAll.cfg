SPECIFICATION Spec
CONSTANTS
  a = a
  b = b
  c = c
  Addr = {a, b}
  MaxUint16 = 2
  Inputs <- AllEvents
  MaxTx = 2
  MaxTxs = {1, 2, 3}
  MaxLengths = {10, 18, 22}
  AddrSize = 4
  MaxSends = 3
INVARIANTS TypeOK 
PROPERTIES RumoursAdvance
