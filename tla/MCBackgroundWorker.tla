----------------------- MODULE MCBackgroundWorker -------------------------
(* Instances of the server's job worker for TLC.                           *)
EXTENDS BackgroundWorker, TLC

\* Jobs and names of poll invocations are interchangeable.
PollSymmetry == Permutations(Polls)
WorkerSymmetry == Permutations(Jobs) \cup Permutations(Polls)

===========================================================================
