SPECIFICATION BusySpec
CONSTANTS
  opus = opus
  sonnet = sonnet
  haiku = haiku
  c1 = c1
  c2 = c2
  None = None
  Model <- TwoModels
  Complexity <- TwoTasks
  Chain <- TwoChains
  Caller <- Callers
  Reliable = {}
  MaxRetries = 1
  FailureThreshold = 2
  RecoverySeconds = 2
  RequestTimeout = 1
PROPERTIES
  Terminates
  Recovers
