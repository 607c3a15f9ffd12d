\* Clients that wait for a start to be answered.
SPECIFICATION Spec
CONSTANTS
  Runs = {r1, r2}
  Keys = {k1}
  NoRun = NoRun
  MaxLines = 1
  MaxRestarts = 1
  MaxFailures = 1
  Overlap = FALSE
SYMMETRY RunSymmetry
INVARIANTS
  BenchTypeOK
  WorkingIsActive
  QuietRunHasEnded
  QuietIsReleased
  OneOpenRunPerKey

  
\* With every run id used there is nothing left to do.
CHECK_DEADLOCK FALSE
