SPECIFICATION Spec
CONSTANTS
  a1 = a1
  a2 = a2
  b = b
  d = d
  project = project
  k = k
  c = c
  e = e
  x = x
  Agents <- MCAgents
  Deployments <- MCDeployments
  Processes <- MCProcesses
  Project = project
  Knowledge = {k}
  Campaigns = {c}
  Decisions = {e}
  Contents = {x}
  Links <- MCLinks
  ProjectCount = 2
SYMMETRY Symmetric
INVARIANTS
  TypeOK
  FilesAgree
  RowsAgree
  DoctorIsRight
  NothingDangles
  CacheIsHonest
PROPERTIES
  AnswersAreWhole
  OthersAreKept
CHECK_DEADLOCK TRUE
