CONSTANTS
  s1 = s1
  s2 = s2
  Stories = {s1, s2}
  Criteria = {s1}
  Points <- MCPoints
  Hours = {2}
  SprintHours = 3
  Delivery = 3
  DefaultVelocity = 2
  MinVelocity = 1
  MaxVelocity = 5
  DefaultRetries = 3
  MinRetries = 1
  MaxRetries = 3
  DefaultDuration = 1200
  MinDuration = 1000
  MaxDuration = 1400
  MaxRejects = 3
  Missing = Missing
  MaxSprints = 3
  MaxReopens = 1
  MaxFaults = 1
SPECIFICATION Spec
CHECK_DEADLOCK FALSE
INVARIANTS
  KnobsInBounds
  HistoryMatchesFiles
  EfficiencyFollowsDelivery
PROPERTIES
  KnobsOnlyFall
  ClosedSprintsAreFinal
