SPECIFICATION Spec
CONSTANTS
  None = None
  FullDemand = 2
  CalPoints <- TwoPoints
  SettleMs = 20
  WindowMs = 10
  StreakLimit = 2
  Commands <- GenerateCommands
  QueueCap = 1
  BootRetries = 1
  DtMs = 10
  ExciteMs = 30
  PllMs = 40
  MaxElapsed = 50
  Rpms <- GoodRpms
  BusReadings <- OverCurrent
  SlowStates <- SlowRuns
  SupervisorPreempts = FALSE
INVARIANTS ElapsedInPllNatural LoadOrdered RunContext RelayIffRunning
PROPERTIES ClearedUnloaded ImplementsInterlock
