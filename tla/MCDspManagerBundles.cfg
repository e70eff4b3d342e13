SPECIFICATION Spec
CONSTANTS
  b1 = b1
  b2 = b2
  p1 = p1
  image = image
  big = big
  None = None
  Torn = Torn
  Unknown = Unknown
  Bundles = {b1, b2}
  PresetNames = {p1}
  Ids = {1}
  Interfaces <- MCPlain
  Programs = {image, Torn}
  Oversize = {}
  UiOnly = {}
  MaxValue = 1
  ResetPin = FALSE
  EntryNameIsPath = TRUE
  FlashFull = TRUE
SYMMETRY MCSymmetry
VIEW MCBundlesView
INVARIANTS
  SchemaIsCoherent
  BootFindsActive
