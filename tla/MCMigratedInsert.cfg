SPECIFICATION Spec
CONSTANTS
  Migrator = {m1, m2}
  None = None
INVARIANT InsertsAccepted
