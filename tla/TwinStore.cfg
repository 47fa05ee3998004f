\* Two handles, four writes of any kind.
SPECIFICATION Spec
CONSTANTS
  h1 = h1
  h2 = h2
  f1 = f1
  clean1 = clean1
  clean2 = clean2
  degraded1 = degraded1
  n1 = n1
  env1 = env1
  env2 = env2
  s1 = s1
  step1 = step1
  None = None
  Handles <- MCHandles
  Flows <- MCFlows
  CleanRuns <- MCCleanRuns
  DegradedRuns <- MCDegradedRuns
  Nodes <- MCNodes
  Profiles <- MCProfiles
  Sessions <- MCSessions
  Steps <- MCSteps
  MaxWrites = 4
SYMMETRY Symmetry
INVARIANTS
  KnownGoodSurvives
  SessionsSurvive
