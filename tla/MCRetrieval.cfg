SPECIFICATION Spec
CONSTANTS
  home = home
  away = away
  k1 = k1
  k2 = k2
  k3 = k3
  far = far
  camp = camp
  dec = dec
  art = art
  w = w
  Projects <- MCProjects
  Entities <- MCEntities
  TypeOf <- MCTypeOf
  ProjectOf <- MCProjectOf
  IdOrder <- MCIdOrder
  Words = {w}
  DocsOf <- MCDocsOf
  InitialDocs <- MCInitialDocs
  Queries <- MCQueries
  MaxCandidates = 3
  RefineLimit = 2
  MaxDepth = 2
  MaxRelated = 2
  TopN = 2
  MaxChanges = 2
INVARIANTS
  TypeOK
  AnswersAreVouchedFor
  QuietIsReference
CHECK_DEADLOCK TRUE
