\* A client that asks for a run while the start of another is in progress.
SPECIFICATION Spec
CONSTANTS
  Runs = {r1, r2}
  Keys = {k1, k2}
  NoRun = NoRun
  MaxLines = 1
  MaxRestarts = 0
  MaxFailures = 0
  Overlap = TRUE
INVARIANTS OneRunAtATime
CHECK_DEADLOCK FALSE
