\* A cron job and an API request: the guard of w.sync() is not atomic.
SPECIFICATION Spec
CONSTANTS
  Startup = startup
  CronJobs = {j1}
  Handlers = {h1}
  MaxTime = 2
  NextExecution <- MCNextExecution
INVARIANT AtMostOneSync
