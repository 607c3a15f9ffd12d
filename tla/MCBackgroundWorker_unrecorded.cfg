\* An execution that throws the runtime's timeout.
SPECIFICATION FairSpec
CONSTANTS
  Jobs = {j1}
  Stores = {server}
  Server = server
  NoHolder = NoHolder
  NoJob = NoJob
  Polls = {p1, p2}
  AttemptLimits = {2}
  LeaseDuration = 1
  MaxRequeues = 0
  MaxCrashes = 0
  DiskMayFail = FALSE
  MayThrowUnstorable = TRUE
  MayStop = FALSE
PROPERTIES
  FailureIsRecorded
\* With every job id used and every job final, the server has nothing to do.
CHECK_DEADLOCK FALSE
