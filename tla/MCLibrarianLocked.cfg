SPECIFICATION Spec
CONSTANTS
  k1 = k1
  k2 = k2
  k3 = k3
  c1 = c1
  t1 = t1
  a1 = a1
  a2 = a2
  Ids = {k1, k2, k3}
  Others = {c1}
  Deletions <- MCDeletions
  Titles = {t1}
  Agents = {a1, a2}
  LockedAgents = {a1, a2}
  Drafts <- MCDrafts
  StatusEdits = {}
  InitialStores <- MCInitialStores
  MaxHistory <- MCMaxHistory
SYMMETRY Symmetry
INVARIANTS
  CopiesAreCurrent
  HistoryExplainsStatus
  RevisionCountsHistory
  LinksResolve
PROPERTIES
  LegalTransitions
  AppendOnlyHistory
  IdentityIsKept
  Contract
CHECK_DEADLOCK TRUE
