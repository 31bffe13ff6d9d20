CONSTANTS
  a1 = a1
  a2 = a2
  None = None
  Stories = {s1, s2, s3}
  Actors = {a1, a2}
  AttemptCap = 2
  CollectionGate = TRUE
  GitTimeouts = FALSE
  MaxQueue = 2
  MaxAttempts = 2
  MaxRuns = 4
  TypeOf <- MCTypeOf
  RoleOf <- MCRoleOf
  ComponentOf <- MCOwnComponents
  FilesOf <- MCFiles
  DependsOn <- MCNoDependencies
SPECIFICATION Spec
SYMMETRY WorktreesSymmetry
INVARIANTS
  FastForwardGuaranteed
  CommitsAccounted
  HandedOverIsMerged
CHECK_DEADLOCK FALSE
