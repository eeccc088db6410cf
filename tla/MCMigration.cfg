SPECIFICATION Spec
CONSTANTS
  Engines = {e1}
  Projects = {p1, p2}
  Target = 3
  KeepN = 1
  Commands <- Everything
  LockAges = TRUE
  MaxCommands <- TwoCalls
  MaxCrashes <- OneDeath
  MaxSaves = 1
SYMMETRY Symmetric
INVARIANTS
  TypeOK
  FailureRestores
  CompletedIsMigrated
  RollbackRebuilds
  OnlyDeathsLeaveHalfDone
CHECK_DEADLOCK TRUE
