SPECIFICATION Spec
CONSTANTS
  Worker = {w1, w2, w3}
  None = None
  Ttl = 2
  MaxHold = 3
INVARIANT MutualExclusion
