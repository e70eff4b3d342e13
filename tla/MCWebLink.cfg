CONSTANTS
  Clients = {c1, c2}
  Settings = {s1, s2}
  NoData = none
  MaxSends = 4
  MaxDrops = 1
  MaxQueued = 1
SPECIFICATION Spec
INVARIANTS TypeOK NeverThreeTimes 
SYMMETRY Symmetry
VIEW LinkView
CHECK_DEADLOCK FALSE
