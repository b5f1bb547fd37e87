SPECIFICATION HSpec
CONSTANTS
  None = None
  FullDemand = 2
  CalPoints <- TwoPoints
  SettleMs = 20
  WindowMs = 10
  StreakLimit = 2
  Commands <- SlowCommands
  QueueCap = 1
  BootRetries = 1
  DtMs = 10
  ExciteMs = 10
  PllMs = 20
  MaxElapsed = 30
  Rpms <- GoodRpms
  BusReadings <- NoAdc
  SlowStates <- SlowManual
  SupervisorPreempts = FALSE
PROPERTY MissesConsecutive
