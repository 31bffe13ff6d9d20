CONSTANTS
  architect = architect
  api = api
  apiTests = apiTests
  Agents = {architect}
  Titles = {api, apiTests}
  MaxDrafts = 2
  MaxPlans = 2
  MaxStories = 3
  Within <- MCWithin
  Earlier <- MCEarlier
  MaxIgnored = 2
  MinDelivered = 80
  MinPassRate = 90
  Suites <- MCSuites
  Specs <- MCSpecs
  Answers <- MCAnswers
  MaxTurns = 1
SPECIFICATION Spec
INVARIANTS
  FolderIsWhole
  OneBacklogAtATime
PROPERTIES
  SpecOrderIsKept
  StoriesAreKept
  ShippedIsDelivered
CHECK_DEADLOCK FALSE
