---------------------- MODULE MCSharedJobDirectory ------------------------
(* Instances of the server and the development loop for TLC.               *)
EXTENDS SharedJobDirectory, TLC

\* Jobs and names of poll invocations are interchangeable.
WorkerSymmetry == Permutations(Jobs) \cup Permutations(Polls)

===========================================================================
