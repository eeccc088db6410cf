SPECIFICATION Spec
CONSTANTS
  Agents = {a1, a2}
  LockedAgents = {a1, a2}
  x = x
  y = y
  z = z
  Contents <- MCContents
  Compared <- MCCompared
  MaxVersions = 3
  MaxLosses = 2
INVARIANTS
  TypeOK
  HistoryTellsVersions
  ReturnedIsKept
PROPERTIES
  UnforcedBringsNews
  GrowsAtTheEnd
SYMMETRY Creators
CHECK_DEADLOCK TRUE
