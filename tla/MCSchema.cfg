SPECIFICATION FairSpec
CONSTANTS
  Migrator = {m1, m2, m3}
  None = None
INVARIANTS
  TypeOK
  ModelsFitTables
  DeadlockOnlyOvertaken
  FailsOnlyOvertaken
PROPERTIES
  MigrationsEnd
  ImplementsWholeMigration
