SPECIFICATION LiveSpec
CONSTANTS
  Lengths <- MCLengths
  Stops = {3}
  CmdBufCap = 2
  FifoCap = 1
  TcpChunk = 1
  WireCap = 2
  TcpCap = 5
  QueueCap = 1
  BootRetries = 1
  MaxFaults = 1
INVARIANTS LinkTypeOK DamageConfined
PROPERTIES ImplementsChannel CommandsMeetFate ClientReplaced
CHECK_DEADLOCK FALSE
