CONSTANTS
  architect = architect
  test = test
  None = None
  Agents = {architect, test}
  DeliveryAgents = {architect, test}
  Customer = {}
  Schedule <- MCSchedule
  PullCadence = 1
  Costs = {2}
  MaxUsd = 3
  Timeouts = {0, 1}
  Grace = 1
  DrainGrace = 1
  Backoffs <- MCBackoffs
  MaxCrashes = 2
SPECIFICATION Spec
INVARIANTS
  NoOrphanAgent
  OverspendIsBounded
  ExitIsClean
PROPERTIES
  
  CrashesAreMended
  OverdueTasksFire
CHECK_DEADLOCK FALSE
