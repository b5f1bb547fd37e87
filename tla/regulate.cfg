SPECIFICATION Spec
CONSTANTS
  MIN_SLOPE = 1
  MAX_SLOPE = 4
  R_SQUARED = 20
  POINT_CV = 4
  FULL = 4
  Configs <- MCConfigs
  Gains <- MCGains
  Targets = {1}
  Speeds = {0, 2, 4}
  CAL_POINTS <- MCDuties
  Means = {0, 2, 4, 7}
  Devs = {0, 1}
  DT = 2
  RampTicks = 2
  MaxElapsed = 10
  MaxIntegral = 6
INVARIANTS RegulatorTypeOK NoWindup
PROPERTIES ProfileFollowed LeastSquares
CHECK_DEADLOCK FALSE
