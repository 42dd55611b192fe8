\* A request at a time, two replicas.
SPECIFICATION FairSpec
CONSTANTS
  Origin = o
  Replicas = {r1, r2}
  Requests = {d1}
  MaxChanges = 3
INVARIANT TypeOK
INVARIANT CodeIsJustified
INVARIANT StatusAgrees
PROPERTY HealthzCatchesUp
