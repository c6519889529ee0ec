SPECIFICATION Spec
CONSTANTS
  User = {u1}
  r1 = r1
  r2 = r2
  Request <- Requests
  AccessLife = 2
  RefreshLife = 2
  MaxTokens = 3
  Horizon = 6
SYMMETRY Symmetry
INVARIANTS
  TypeOK
  InactiveGetsNothing
PROPERTIES
  RevokedUntilLastSecond
  SessionBounded
