SPECIFICATION FairSpec
CONSTANTS
  NaN = NaN
  Readings = {40, 70}
  Setpoints1 = {45}
  Setpoints2 = {55}
  Percents = {10, 150}
  Kps = {40}
  Kis = {50}
  Kds = {0, 10}
  Carried = {"pid_enabled", "fan_manual_pct"}
  BootOutcomes <- MCBoots
  StoredSettings <- MCFanSettings
  IMax = 3
  MinStart = 25
  CriticalMargin = 12
  ClockRange = 4
  SamplePeriod = 1
  MaxLag = 1
PROPERTIES
  PastWeighsLittle
  FanSettles
  LedShowsWorst
