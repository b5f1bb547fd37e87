SPECIFICATION FairSpec
CONSTANTS
  None = None
  FullDemand = 1
  CalPoints <- OnePoint
  SettleMs = 0
  WindowMs = 10
  StreakLimit = 2
  Commands <- LiveCommands
  QueueCap = 2
  BootRetries = 1
  DtMs = 10
  ExciteMs = 0
  PllMs = 0
  MaxElapsed = 10
  Rpms <- FastRpms
  BusReadings <- NoAdc
  SlowStates <- NoStates
  SupervisorPreempts = FALSE
PROPERTIES EstopObeyed StopEndsRun BootEnds FaultSheds
