----------------------- MODULE MCBenchmarkController -----------------------
(* Instances of the benchmark controller for TLC.                          *)
EXTENDS BenchmarkController, TLC

RunSymmetry == Permutations(Runs)

===========================================================================
