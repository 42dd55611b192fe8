\* Clients with a schedule at two replicas that equal the origin.
SPECIFICATION Spec
CONSTANTS
  r1 = r1
  r2 = r2
  Replicas = {r1, r2}
  NoReplica = none
  Entries <- MCEntries
  Scenarios <- EqualClients
  MaxFaults = 0
PROPERTY EqualListsStay
