SPECIFICATION FairSpec
CONSTANTS
  Worker = {w1, w2, w3}
  None = None
  Ttl = 3
  MaxHold = 2
INVARIANTS
  TypeOK
  MutualExclusion
  DeletesOwnKey
PROPERTIES
  KeyFreed
  ImplementsExclusiveJob
