CONSTANTS
  s1 = s1
  s2 = s2
  s3 = s3
  a1 = a1
  a2 = a2
  None = None
  Stories = {s1, s2}
  Actors = {a1, a2}
  AttemptCap = 2
  CollectionGate = FALSE
  GitTimeouts = FALSE
  MaxQueue = 1
  MaxAttempts = 1
  Criteria = {}
  MaxAcRetries = 1
  Batches = {b1}
  CustomerMaxRejects = 1
  VelocityTarget = 1
  MaxSprints = 0
  Active = {"poker", "elevation", "acceptance", "replan"}
  MaxRestarts = 0
  TypeOf <- MCTypeOf
  RoleOf <- MCRoleOf
  ComponentOf <- MCOneComponent
  FilesOf <- MCFiles
  DependsOn <- MCNoDependencies
SPECIFICATION Spec
SYMMETRY TeamSymmetry
INVARIANTS
  SingleExecutor
  ReviewIsQueued
  RequestsNameTheAuthor
  OneInProgressPerComponent
PROPERTIES
  RefinesFlow
CHECK_DEADLOCK FALSE
