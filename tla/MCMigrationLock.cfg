SPECIFICATION Spec
CONSTANTS
  Engines = {e1, e2}
  Projects = {p1}
  Target = 2
  KeepN = 1
  Commands <- OnlyMigrate
  LockAges = FALSE
  MaxCommands <- OneCall
  MaxCrashes <- NoDeath
  MaxSaves = 0
INVARIANT OneMigrationAtATime
CHECK_DEADLOCK TRUE
