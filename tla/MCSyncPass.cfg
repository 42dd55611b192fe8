\* Lists, filters, single settings, setup and versions, two replicas.
SPECIFICATION FairSpec
CONSTANTS
  r1 = r1
  r2 = r2
  Replicas = {r1, r2}
  Origin = origin
  Values <- MCValues
  Configs <- MCConfigs
  Origins <- MCOrigins
  Contents <- MCContents
  Editable <- MCEditable
  ReplicaEditable <- MCReplicaEditable
  MaxFaults = 2
  MaxEdits = 1
INVARIANT TypeOK
INVARIANT ErrorsAreReported
INVARIANT CleanPassSyncs
PROPERTY WritesAreGated
PROPERTY StopsAtFirstError
PROPERTY Converges
