\* Two deploys of any kind at any time, a probe, and a restart.
SPECIFICATION Spec
CONSTANTS
    u1 = u1
    u2 = u2
    Uris = {u1, u2}
    Manage = {}
    Deploys = {d1, d2}
    Bodies <- AllBodies
    Start = Start
    MaxRestarts = 1
SYMMETRY DeploySymmetry
INVARIANTS
  StableIsHonest
  ChurnMeansDeploy
  SettledSurface
  PersistedSurvives
CHECK_DEADLOCK FALSE
