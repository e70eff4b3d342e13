SPECIFICATION Spec
CONSTANTS
  b1 = b1
  b2 = b2
  p1 = p1
  image = image
  big = big
  None = None
  Torn = Torn
  Unknown = Unknown
  Bundles = {b1}
  PresetNames = {p1}
  Ids = {1, 2}
  Interfaces <- MCShared
  Programs = {image, big}
  Oversize = {big}
  UiOnly = {2}
  MaxValue = 2
  ResetPin = TRUE
  EntryNameIsPath = FALSE
  FlashFull = TRUE
VIEW MCView
INVARIANTS
  TypeOK
  SchemaIsCoherent
  

  
