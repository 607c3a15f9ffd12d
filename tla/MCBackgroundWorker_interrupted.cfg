\* A job that was running when the server went down.
SPECIFICATION FairSpec
CONSTANTS
  Jobs = {j1}
  Stores = {server}
  Server = server
  NoHolder = NoHolder
  NoJob = NoJob
  Polls = {p1, p2}
  AttemptLimits = {2}
  LeaseDuration = 1
  MaxRequeues = 0
  MaxCrashes = 1
  DiskMayFail = FALSE
  MayThrowUnstorable = FALSE
  MayStop = FALSE
INVARIANTS
  InterruptedIsFlagged
\* With every job id used and every job final, the server has nothing to do.
CHECK_DEADLOCK FALSE
