CONSTANTS
  s1 = s1
  s2 = s2
  s3 = s3
  a1 = a1
  a2 = a2
  None = None
  Stories = {s1}
  Actors = {a1}
  AttemptCap = 2
  CollectionGate = FALSE
  GitTimeouts = FALSE
  MaxQueue = 1
  MaxAttempts = 1
  Criteria = {}
  MaxAcRetries = 1
  Batches = {b1, b2}
  CustomerMaxRejects = 1
  VelocityTarget = 1
  MaxSprints = 4
  Active = {"poker", "sprints", "acceptance", "customer", "replan"}
  MaxRestarts = 1
  TypeOf <- MCTypeOf
  RoleOf <- MCRoleOf
  ComponentOf <- MCOneComponent
  FilesOf <- MCFiles
  DependsOn <- MCNoDependencies
SPECIFICATION Spec
INVARIANTS
  BacklogAgrees
  CreditedOnce
CHECK_DEADLOCK FALSE
