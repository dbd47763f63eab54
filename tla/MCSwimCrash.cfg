SPECIFICATION FairSpec
CONSTANTS
  a = a
  b = b
  c = c
  Addr = {a, b, c}
  NoAddr = NoAddr
  MaxUint16 = 5
  SuspectPeriods = 1
  MaxFaults = 1
  Reliable = TRUE
  Mortal = {c}
PROPERTIES Completeness
