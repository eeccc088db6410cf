SPECIFICATION Spec
CONSTANTS
  a1 = a1
  a2 = a2
  i1 = i1
  i2 = i2
  bad = bad
  Agents = {a1, a2}
  Deployments <- HooksAndServer
  Items = {i1, i2, bad}
  Refused = {bad}
  Batches <- MCBatches
  Campaigns = {c1, c2, c3}
  Goals = {g1, standard}
  BlankGoals = {}
  NoGoal = none
  DefaultGoal = standard
  MaxFaults = 1
  MaxCrashes = 1
  MaxMoves = 2
INVARIANTS
  TypeOK
  ReturnedIsRetrievable
  IndexFollowsRepository
  OneCampaignPerGoal
PROPERTIES
  ItemsStayInHand
  HooksEnd
CHECK_DEADLOCK TRUE
