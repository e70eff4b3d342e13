SPECIFICATION FairSpec
CONSTANTS
  v1 = v1
  v2 = v2
  Unset = Unset
  NKeys = 3
  OperatorKeys <- MCOperatorKeys
  CalibrationKeys <- MCCalibrationKeys
  Values <- MCValues
  Factory <- MCFactory
  ClockRange = 4
  SaveDelay = 1
  MaxLag = 1
INVARIANTS
  NoLostUpdate
PROPERTIES
  ImplementsWriteBehind
  EventuallyDurable
