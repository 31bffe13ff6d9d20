CONSTANTS
  None = None
  arch = arch
  feature = feature
  Stories = {arch, feature}
  Architecture = {arch}
  Graded = {arch, feature}
  Graders <- MCGraders
  MaxRuns = 3
  MaxPerRun = 1
SPECIFICATION Spec

  
  
PROPERTIES
  JudgedOnEvidence
CHECK_DEADLOCK FALSE
