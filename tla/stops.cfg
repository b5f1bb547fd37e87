SPECIFICATION FairSpec
CONSTANTS
  None = None
  FullDemand = 1
  CalPoints <- OnePoint
  SettleMs = 0
  WindowMs = 10
  StreakLimit = 2
  Commands <- StopCommands
  QueueCap = 2
  BootRetries = 1
  DtMs = 10
  ExciteMs = 0
  PllMs = 0
  MaxElapsed = 10
  Rpms <- AtRest
  BusReadings <- NoAdc
  SlowStates <- NoStates
  SupervisorPreempts = FALSE
INVARIANTS RelayIffRunning DriveOnlyWhileRunning
PROPERTIES EstopObeyed StopEndsRun
