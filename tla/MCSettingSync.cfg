\* Two replicas, five settings, up to two failures.
SPECIFICATION FairSpec
CONSTANTS
  r1 = r1
  r2 = r2
  Replicas <- MCReplicas
  NoReplica = NoReplica
  Scenarios <- MCScenarios
  MaxFaults = 2
INVARIANT TypeOK
PROPERTY BringsIntoLine
PROPERTY KeepsOwn
PROPERTY SettlesUnlessNeverEqual
PROPERTY Converges
