CONSTANTS
  s1 = s1
  s2 = s2
  Stories = {s1, s2}
  Criteria = {s1}
  Points <- MCPoints
  Hours = {2}
  SprintHours = 3
  Delivery = 2
  DefaultVelocity = 2
  MinVelocity = 1
  MaxVelocity = 5
  DefaultRetries = 3
  MinRetries = 2
  MaxRetries = 3
  DefaultDuration = 1200
  MinDuration = 900
  MaxDuration = 1400
  MaxRejects = 4
  Missing = Missing
  MaxSprints = 3
  MaxReopens = 1
  MaxFaults = 0
SPECIFICATION Spec
CHECK_DEADLOCK FALSE
PROPERTIES
  GoodRetriesAreKept
