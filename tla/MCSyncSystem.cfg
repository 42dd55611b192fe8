\* Two goroutines, two replicas, one part of the settings, two edits, a failure.
SPECIFICATION SysFairSpec
CONSTANTS
  Startup = startup
  CronJobs = {}
  Handlers = {h1}
  MaxTime = 0
  NextExecution <- MCNextExecution
  Replicas = {r1, r2}
  Parts = {p1}
  MaxEdits = 2
  MaxFaults = 1
INVARIANT SysTypeOK
PROPERTY KeepsPromise
PROPERTY FreshWhenDone
PROPERTY SystemConverges
CHECK_DEADLOCK FALSE
