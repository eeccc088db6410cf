SPECIFICATION Spec
CONSTANTS
  a1 = a1
  a2 = a2
  i1 = i1
  i2 = i2
  bad = bad
  Agents = {a1, a2}
  Deployments <- HooksOnly
  Items = {i1, i2, bad}
  Refused = {bad}
  Batches <- MCBatches
  Campaigns = {c1, c2, c3}
  Goals = {g1}
  BlankGoals = {}
  NoGoal = none
  DefaultGoal = g1
  MaxFaults = 0
  MaxCrashes = 0
  MaxMoves = 2
INVARIANTS
  NoItemLost
CHECK_DEADLOCK TRUE
