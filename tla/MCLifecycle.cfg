SPECIFICATION FairSpec
CONSTANTS
  Task = {t1, t2}
  None = None
  PingTimeout = 2
  PoolLimit = 1
  MaxHandles = 2
INVARIANTS
  TypeOK
  GlobalsAreWhatIsOpen
PROPERTIES
  StopReleases
  ReadyIsFresh
  UnreadyForAReason
  ProbeAnswers
