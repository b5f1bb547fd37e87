SPECIFICATION FairSpec
CONSTANTS
  None = None
  FullDemand = 2
  CalPoints <- TwoPoints
  SettleMs = 20
  WindowMs = 10
  StreakLimit = 2
  Commands <- HoldCommands
  QueueCap = 1
  BootRetries = 1
  DtMs = 10
  ExciteMs = 10
  PllMs = 20
  MaxElapsed = 30
  Rpms <- GoodRpms
  BusReadings <- NoAdc
  SlowStates <- NoStates
  SupervisorPreempts = FALSE
PROPERTY HoldEnds
