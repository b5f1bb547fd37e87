SPECIFICATION Spec
CONSTANTS
  None = None
  FullDemand = 2
  CalPoints <- TwoPoints
  SettleMs = 20
  WindowMs = 10
  StreakLimit = 2
  Commands <- BenchCommands
  QueueCap = 1
  BootRetries = 1
  DtMs = 10
  ExciteMs = 10
  PllMs = 10
  MaxElapsed = 20
  Rpms <- AtRest
  BusReadings <- NoAdc
  SlowStates <- NoStates
  SupervisorPreempts = TRUE
INVARIANTS RunContext RelayOnlyWhileRunning
