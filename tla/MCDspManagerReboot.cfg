SPECIFICATION Spec
CONSTANTS
  b1 = b1
  b2 = b2
  p1 = p1
  image = image
  big = big
  None = None
  Torn = Torn
  Unknown = Unknown
  Bundles = {b1}
  PresetNames = {}
  Ids = {1, 2}
  Interfaces <- MCDisjoint
  Programs = {}
  Oversize = {}
  UiOnly = {}
  MaxValue = 1
  ResetPin = TRUE
  EntryNameIsPath = TRUE
  FlashFull = FALSE
INVARIANTS
  RebootKeepsValues
