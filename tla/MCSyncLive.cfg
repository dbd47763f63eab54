SPECIFICATION FairSpec
CONSTANTS
  a = a
  b = b
  c = c
  Addr = {a, b, c}
  NoAddr = NoAddr
  Newcomers = {a}
  FullSyncs = {a, b}
  CompletedCap = 2
  MaxSessions = 1
  MaxFaults = 0
PROPERTIES BecomesMutual
