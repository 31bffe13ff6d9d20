CONSTANTS
  s1 = s1
  s2 = s2
  s3 = s3
  a1 = a1
  a2 = a2
  None = None
  Stories = {s1, s2}
  Actors = {a1, a2}
  AttemptCap = 2
  CollectionGate = TRUE
  GitTimeouts = TRUE
  MaxQueue = 2
  MaxAttempts = 2
  Criteria = {s1, s2}
  MaxAcRetries = 1
  Batches = {b1}
  CustomerMaxRejects = 1
  VelocityTarget = 1
  MaxSprints = 0
  Active = {"poker", "elevation", "acceptance"}
  MaxRestarts = 1
  TypeOf <- MCTypeOf
  RoleOf <- MCRoleOf
  ComponentOf <- MCOneComponent
  FilesOf <- MCFiles
  DependsOn <- MCNoDependencies
SPECIFICATION Spec
SYMMETRY TeamSymmetry
INVARIANTS
  InProgressIsWorked
PROPERTIES
  RefinesOwnership
CHECK_DEADLOCK FALSE
