\* Crashes, failing writes, stop() and errors the schema refuses together.
SPECIFICATION Spec
CONSTANTS
  Jobs = {j1}
  Stores = {server}
  Server = server
  NoHolder = NoHolder
  NoJob = NoJob
  Polls = {p1, p2}
  AttemptLimits = {1, 3}
  LeaseDuration = 1
  MaxRequeues = 1
  MaxCrashes = 2
  DiskMayFail = TRUE
  MayThrowUnstorable = TRUE
  MayStop = TRUE
SYMMETRY PollSymmetry
INVARIANTS
  ExecutionsPaidFor
\* When the id and the invocations are used up there is nothing left to do.
CHECK_DEADLOCK FALSE
