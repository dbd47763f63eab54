SPECIFICATION Spec
CONSTANTS
  a = a
  b = b
  c = c
  k1 = k1
  k2 = k2
  k3 = k3
  Addr = {a, b, c}
  NoAddr = NoAddr
  Probers = {a}
  Cookies = {k1, k2}
  MaxUint16 = 2
  MaxFaults = 1
  ChanCap = 1
  IndirectPings = 1
INVARIANTS TypeOK AckedByTarget VouchedFor
SYMMETRY Symmetry
