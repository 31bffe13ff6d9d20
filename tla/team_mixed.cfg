CONSTANTS
  s1 = s1
  s2 = s2
  s3 = s3
  a1 = a1
  a2 = a2
  None = None
  Stories = {s1, s2, s3}
  Actors = {a1, a2}
  AttemptCap = 2
  CollectionGate = FALSE
  GitTimeouts = FALSE
  MaxQueue = 2
  MaxAttempts = 2
  Criteria = {s1, s3}
  MaxAcRetries = 1
  Batches = {b1}
  CustomerMaxRejects = 1
  VelocityTarget = 1
  MaxSprints = 0
  Active = {"poker", "acceptance"}
  MaxRestarts = 0
  TypeOf <- MCMixedTypes
  RoleOf <- MCMixedRoles
  ComponentOf <- MCMixedComponents
  FilesOf <- MCMixedFiles
  DependsOn <- MCMixedDependencies
SPECIFICATION FairSpec
INVARIANTS
  DependenciesComeFirst
PROPERTIES
  ExecutionsEnd
  ReviewDrains
CHECK_DEADLOCK FALSE
