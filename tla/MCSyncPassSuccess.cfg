\* Success is reported before the filtering switch is synced.
SPECIFICATION Spec
CONSTANTS
  r1 = r1
  r2 = r2
  Replicas = {r1, r2}
  Origin = origin
  Values <- MCValues
  Configs <- FiltersOnly
  Origins <- MCOrigins
  Contents <- MCContents
  Editable <- MCEditable
  ReplicaEditable <- MCReplicaEditable
  MaxFaults = 0
  MaxEdits = 0
INVARIANT SuccessMeansSynced
