SPECIFICATION FairSpec
CONSTANTS
  v1 = v1
  v2 = v2
  Unset = Unset
  NIds = 2
  Values <- MCValues
  Default <- MCDefault
  ClockRange = 4
  SaveDelay = 2
  MaxLag = 1
INVARIANTS
  LostOnlyByOverlap
PROPERTIES
  SavesOnlyRam
  EventuallySaved
