\* A cron job, an API request and run-on-start in every configuration.
SPECIFICATION FairSpec
CONSTANTS
  Startup = startup
  CronJobs = {j1}
  Handlers = {h1}
  MaxTime = 3
  NextExecution <- MCNextExecution
INVARIANT TypeOK
INVARIANT RunningHasOwner
INVARIANT ScheduleNotAhead
PROPERTY SkipOnlyWhenBusy
PROPERTY FlagIsReleased
PROPERTY ShutdownTerminates
