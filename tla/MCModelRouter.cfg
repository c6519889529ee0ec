SPECIFICATION Spec
CONSTANTS
  opus = opus
  sonnet = sonnet
  haiku = haiku
  c1 = c1
  c2 = c2
  None = None
  Model <- MCModel
  Complexity <- MCComplexity
  Chain <- MODEL_CHAINS
  Caller <- Callers
  Reliable = {haiku}
  MaxRetries = 2
  FailureThreshold = 4
  RecoverySeconds = 3
  RequestTimeout = 2
SYMMETRY Symmetry
INVARIANTS
  TypeOK
  OvershootBound
  ReliableChainNeverFails
PROPERTIES
  ImplementsBreakers
  WithinBudget
