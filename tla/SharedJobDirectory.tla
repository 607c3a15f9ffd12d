------------------------ MODULE SharedJobDirectory ------------------------
(***************************************************************************)
(* The server and the development loop's command line (scripts/dev-loop.js *)
(* over companion/capability-kernel/dev-queue-adapter.js) on one data/jobs *)
(* directory.  Every invocation of the command line is a process: it loads *)
(* the directory, does one thing synchronously and exits.  The two         *)
(* processes share files and nothing else: no lock file, no reload.        *)
(***************************************************************************)
EXTENDS BackgroundWorker

CONSTANTS
  Cli,          \* the command line's process, a member of Stores
  MaxCliRuns,   \* bound on its invocations
  MayOverlap    \* whether it may be invoked while the server is up

ASSUME SharedAssumption ==
  /\ Cli \in Stores \ {Server}
  /\ MaxCliRuns \in Nat
  /\ MayOverlap \in BOOLEAN

VARIABLES
  cli,        \* where the invocation is: at, and the job it works on
  cliRuns     \* how many invocations there have been

cliVars == <<cli, cliRuns>>
sharedVars == <<vars, cliVars>>

CliDown == [at |-> "down", job |-> NoJob]

OthersClosed(s) == open \subseteq {s}

CliAt(from, to, j) ==
  /\ cli.at = from
  /\ cli' = [at |-> to, job |-> j]
  /\ UNCHANGED <<cliRuns, workerVars, historyVars, crashes>>

\* loadDevJobStore.
CliLoad ==
  /\ MayOverlap \/ OthersClosed(Cli)
  /\ cliRuns < MaxCliRuns
  /\ cli.at = "down"
  /\ OpenStore(Cli)
  /\ cli' = [CliDown EXCEPT !.at = "loaded"]
  /\ cliRuns' = cliRuns + 1
  /\ UNCHANGED <<workerVars, historyVars, crashes>>

\* --enqueue
CliEnqueue(j) == CreateJob(Cli, j) /\ CliAt("loaded", "enqueued", j)

\* --run-next: runNextDevJob takes the first claimable job of its own Map.
CliClaim(j) == IsFirstClaimable(Cli, j) /\ ClaimJob(Cli, j) /\ CliAt("loaded", "claimed", j)
CliStart(j) == cli.job = j /\ StartJob(Cli, j) /\ CliAt("claimed", "running", j)
CliComplete(j) == cli.job = j /\ CompleteJob(Cli, j) /\ CliAt("running", "settled", j)

\* A dirty tree or a missing dependency is final, an exception retryable.
CliFail(j) ==
  /\ cli.job = j
  /\ \E error \in {"retryable", "final"} : FailJob(Cli, j, error)
  /\ CliAt("running", "settled", j)

\* The process exits when it is done, or is killed, or dies of a failing write.
CliExit ==
  /\ CloseStore(Cli)
  /\ cli' = CliDown
  /\ UNCHANGED <<cliRuns, workerVars, historyVars, crashes>>

\* Without overlap the server is not booted while the command line runs.
ServerStep ==
  /\ Next
  /\ MayOverlap \/ OthersClosed(Server) \/ open' = open
  /\ UNCHANGED cliVars

CliStep ==
  \/ CliLoad
  \/ \E j \in Jobs : CliEnqueue(j) \/ CliClaim(j) \/ CliStart(j) \/ CliComplete(j) \/ CliFail(j)
  \/ CliExit

SharedInit == Init /\ cli = CliDown /\ cliRuns = 0
SharedNext == ServerStep \/ CliStep
SharedSpec == SharedInit /\ [][SharedNext]_sharedVars

---------------------------------------------------------------------------
(* Properties.                                                             *)

\* Whoever is up answers from a Map that agrees with the files.
MapsAgreeWithFiles == \A s \in open : mem[s] = disk

===========================================================================
