SPECIFICATION Spec
CONSTANTS
  self = self
  b = b
  c = c
  Addr = {self, b, c}
  Self = self
  MaxUint16 = 6
  SuspectPeriods = 2
  Incarnations = {0, 1}
  Horizon = 6
INVARIANTS TypeOK  SelfIsNoMember PingListDistinct NeverOverdue 
PROPERTIES SuspicionKeepsItsDate ImplementsMembership
