CONSTANTS
  Bundles = {b1, b2}
  Requests = {r1, r2, r3}
  Contents = {c1, c2, c3, c4}
  Absent = absent
  Empty = empty
  None = none
  MaxOpen = 2
  EntryNameIsPath = TRUE
  MaxLosses = 2
SPECIFICATION Spec
INVARIANTS TypeOK  
SYMMETRY Symmetry
CHECK_DEADLOCK FALSE
