\* All kinds of lists, two replicas.
SPECIFICATION FairSpec
CONSTANTS
  r1 = r1
  r2 = r2
  Replicas = {r1, r2}
  NoReplica = none
  Entries <- MCEntries
  Scenarios <- AllScenarios
  MaxFaults = 2
INVARIANT TypeOK
INVARIANT CleanActionReaches
PROPERTY AgreementIsStable
PROPERTY KeepsPromise
PROPERTY Converges
