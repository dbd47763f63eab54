SPECIFICATION FairSpec
CONSTANTS
  a = a
  b = b
  c = c
  Addr = {a, b}
  NoAddr = NoAddr
  MaxUint16 = 5
  SuspectPeriods = 1
  MaxFaults = 2
  Reliable = FALSE
  Mortal = {b}
INVARIANTS TypeOK IncarnationAuthority  Accuracy  RefutedOnce
PROPERTIES Reconciliation
