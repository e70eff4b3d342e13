CONSTANTS
  NChannels = 2
  Temps = {t1, t2}
  Fits = {1}
SPECIFICATION CalSpec
INVARIANTS CapturesOfChannel CurveFollowsSettings MixedOnlyByOverlap
PROPERTY ReadingsFollow
