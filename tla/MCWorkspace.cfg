SPECIFICATION Spec
CONSTANTS
  p1 = p1
  p2 = p2
  c1 = c1
  c2 = c2
  n1 = n1
  n2 = n2
  a1 = a1
  a2 = a2
  Agents <- MCAgents
  Deployments <- MCDeployments
  Projects <- MCProjects
  Campaigns <- MCCampaigns
  Names <- MCNames
  Steps = {s1}
  InitialDocs <- MCInitialDocs
  MaxCalls = 3
INVARIANTS
  JournalExplainsStatus
  NamesAreUnique
PROPERTIES
  WritesBuildOnEachOther
CHECK_DEADLOCK TRUE
