\* The command line is used only while the server is down; crashes, failing
\* writes, stop() and errors the schema refuses together.
SPECIFICATION SharedSpec
CONSTANTS
  Jobs = {j1, j2}
  Stores = {server, cli}
  Server = server
  Cli = cli
  NoHolder = NoHolder
  NoJob = NoJob
  Polls = {p1, p2}
  AttemptLimits = {2}
  LeaseDuration = 1
  MaxRequeues = 1
  MaxCrashes = 1
  MaxCliRuns = 1
  DiskMayFail = TRUE
  MayThrowUnstorable = TRUE
  MayStop = TRUE
  MayOverlap = FALSE
SYMMETRY WorkerSymmetry
INVARIANTS
  
  RecordsConsistent
PROPERTIES
  ImplementsLifecycle
\* When the ids and the invocations are used up there is nothing left to do.
CHECK_DEADLOCK FALSE
