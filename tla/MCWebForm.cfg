CONSTANTS
  Clients = {c1}
  none = none
  Percents <- MCPercents
  Numerals <- MCNumerals
  NoNumber = none
  Settings <- MCSettings
  NoData = noData
  MaxSends = 2
  MaxDrops = 0
  MaxEdits = 2
  MaxQueued = 1
SPECIFICATION FormSpec
INVARIANTS FormTypeOK MarksTellTheTruth
 
CHECK_DEADLOCK FALSE
