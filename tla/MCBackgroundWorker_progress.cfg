\* At most one crash: one execution at a time, every job settles, every waiting
\* job is served.
SPECIFICATION FairSpec
CONSTANTS
  Jobs = {j1, j2}
  Stores = {server}
  Server = server
  NoHolder = NoHolder
  NoJob = NoJob
  Polls = {p1, p2}
  AttemptLimits = {2}
  LeaseDuration = 1
  MaxRequeues = 1
  MaxCrashes = 1
  DiskMayFail = FALSE
  MayThrowUnstorable = FALSE
  MayStop = FALSE
INVARIANTS
  SingleExecution
  ResultsMatchAttempt
  RetryDecisionExact
PROPERTIES
  JobSettles
  WaitingIsServed
\* With every job id used and every job final, the server has nothing to do.
CHECK_DEADLOCK FALSE
