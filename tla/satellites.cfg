CONSTANTS
  PlanSize = 2
  Limits = {1, 2}
  MaxCampaigns = 2
  MaxCommits = 3
  c1 = c1
  c2 = c2
  r1 = r1
  Torn = Torn
  Comments = {c1, c2, r1}
  Kinds = {"comments", "reviews"}
  KindOf <- MCKindOf
  MaxPasses = 4
  i1 = i1
  i2 = i2
  loop = loop
  pool = pool
  a1 = a1
  a2 = a2
  Nobody = Nobody
  Ids = {i1, i2}
  Threads = {loop, pool}
  Actors = {a1, a2}
  Aims = {"ready", "review"}
  MaxCalls = 4
SPECIFICATION Spec
INVARIANTS
  ResultIsTrue
  OneClaimant
  IndexFollowsFiles
  FeedbackOnce
  SeenIsHandled
CHECK_DEADLOCK FALSE
