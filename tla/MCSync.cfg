SPECIFICATION FairSpec
CONSTANTS
  a = a
  b = b
  c = c
  Addr = {a, b, c}
  NoAddr = NoAddr
  Newcomers = {a}
  FullSyncs = {}
  CompletedCap = 2
  MaxSessions = 3
  MaxFaults = 2
INVARIANTS TypeOK DoneKnowsPeer JoinedKnowsSponsor 
PROPERTIES Bootstraps
CHECK_DEADLOCK FALSE
