\* The same, for the theme.
SPECIFICATION Spec
CONSTANTS
  r1 = r1
  r2 = r2
  Replicas <- MCReplicas
  NoReplica = NoReplica
  Scenarios <- MCScenarios
  MaxFaults = 2
PROPERTY ThemeIsSynced
