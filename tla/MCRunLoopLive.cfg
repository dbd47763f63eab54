SPECIFICATION FairSpec
CONSTANTS
  a = a
  b = b
  c = c
  k1 = k1
  k2 = k2
  k3 = k3
  Addr = {a, b}
  NoAddr = NoAddr
  Probers = {a, b}
  Cookies = {k1, k2}
  MaxUint16 = 2
  MaxFaults = 0
  ChanCap = 1
  IndirectPings = 1
PROPERTY HandlerGoesOn
