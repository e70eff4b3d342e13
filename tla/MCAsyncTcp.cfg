SPECIFICATION Spec
CONSTANTS
  Clients = {c1, c2, c3}
  Pcbs = {p1, p2}
  Null = Null
  NSlots = 3
  QueueLen = 3
  MaxRaised = 2
SYMMETRY Symmetry
INVARIANTS TypeOK   OrderIsKept HandledIsLive NullOnlyWhileClosing
CHECK_DEADLOCK FALSE
