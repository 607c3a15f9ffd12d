------------------------- MODULE BackgroundWorker -------------------------
(***************************************************************************)
(* The server process as far as durable jobs go: the polling worker of     *)
(* companion/jobs/worker.js, the /jobs endpoints of companion/server.js,   *)
(* and the process's crashes and restarts, over one DurableJobStore.       *)
(*                                                                         *)
(* JavaScript runs one handler at a time and gives way only at an await.   *)
(* poll() has one: the call of the execution callback.  What it does on    *)
(* either side of it is a run of store operations no handler of the same   *)
(* process can come between, though a crash, the clock and another process *)
(* can.  Such a run is a sequence of steps here, and `LoopHeld' keeps the  *)
(* other handlers out while one is under way.                              *)
(***************************************************************************)
EXTENDS DurableJobStore

CONSTANTS
  Server,        \* the server's process, a member of Stores
  Polls,         \* names for the invocations of poll() that may be in flight
  NoJob,         \* currentJobId when it is null
  MaxRequeues,   \* bound on the approvals and corrections of one job
  MaxCrashes,    \* bound on the times the server's process ends
  DiskMayFail,   \* whether atomicWriteJob may throw
  MayThrowUnstorable, \* whether a callback may throw what the job schema refuses
  MayStop        \* whether the embedding program calls stop(): the server does not

ASSUME WorkerAssumption ==
  /\ Server \in Stores
  /\ IsFiniteSet(Polls)
  /\ NoJob \notin Jobs
  /\ MaxRequeues \in Nat
  /\ MaxCrashes \in Nat
  /\ DiskMayFail \in BOOLEAN
  /\ MayThrowUnstorable \in BOOLEAN
  /\ MayStop \in BOOLEAN

VARIABLES
  started,       \* worker.js: started, true together with an armed interval
  isProcessing,  \* worker.js: isProcessing
  currentJobId,  \* worker.js: currentJobId
  poll,          \* poll[p]: where invocation p of poll() is, and its `job'
  begun,         \* history: executions of job j the worker has begun
  requeues,      \* history: approvals and corrections of job j
  crashes        \* how often the process has ended

workerVars == <<started, isProcessing, currentJobId, poll>>
historyVars == <<begun, requeues>>
vars == <<storeVars, workerVars, historyVars, crashes>>

\* An invocation of poll(): at `start' it has claimed its job, at `await' the
\* callback is running, at `catch' the inner catch block has the error in
\* `error', at `retry' the job is failed and retryJob is next.  attempt and
\* limit are what the snapshot in `job' said before the claim.
PollPoints == {"idle", "start", "await", "catch", "retry"}
PollRecords ==
  [ at : PollPoints, job : Jobs \cup {NoJob}, attempt : Nat, limit : Nat,
    error : {"none", "retryable", "final", "unstorable"} ]
NoPoll == [at |-> "idle", job |-> NoJob, attempt |-> 0, limit |-> 0, error |-> "none"]

InFlight == {p \in Polls : poll[p].at # "idle"}

\* Some invocation is between two store operations with no await in between.
LoopHeld == \E p \in Polls : poll[p].at \in {"start", "catch", "retry"}

Job(j) == mem[Server][j]
ServerFree == Server \in open /\ ~LoopHeld

---------------------------------------------------------------------------
(* poll().                                                                 *)

\* Mutant of Finish: the flag stays up.
FinishHeld(p) ==
  /\ poll' = [poll EXCEPT ![p] = NoPoll]
  /\ currentJobId' = NoJob
  /\ UNCHANGED <<isProcessing, started>>

\* The last lines of poll(), or an early return after a claim.
Finish(p) ==
  /\ poll' = [poll EXCEPT ![p] = NoPoll]
  /\ currentJobId' = NoJob
  /\ isProcessing' = FALSE
  /\ started' = started

\* A store write threw out of the inner try: the outer catch releases the
\* flag and leaves currentJobId.
Abandon(p) ==
  /\ poll' = [poll EXCEPT ![p] = NoPoll]
  /\ isProcessing' = FALSE
  /\ UNCHANGED <<started, currentJobId>>

\* Mutant of Advance: the flag is lowered while the callback is awaited.
AdvanceReleasing(p, point, error) ==
  /\ poll' = [poll EXCEPT ![p].at = point, ![p].error = error]
  /\ isProcessing' = FALSE
  /\ UNCHANGED <<started, currentJobId>>

Advance(p, point, error) ==
  /\ poll' = [poll EXCEPT ![p].at = point, ![p].error = error]
  /\ UNCHANGED <<started, isProcessing, currentJobId>>

\* The interval fires, the flag is down and there is a claimable job: the
\* first one is claimed.  A poll that finds none, or whose claim throws,
\* leaves everything as it was.
PollClaim(p, j) ==
  /\ ServerFree
  /\ started
  /\ ~isProcessing
  /\ poll[p].at = "idle"
  /\ IsFirstClaimable(Server, j)
  /\ ClaimJob(Server, j)
  /\ isProcessing' = TRUE
  /\ currentJobId' = j
  /\ poll' = [poll EXCEPT ![p] = [at |-> "start", job |-> j, attempt |-> Job(j).attempt,
                                  limit |-> Job(j).maxAttempts, error |-> "none"]]
  /\ UNCHANGED <<started, historyVars, crashes>>

\* startJob, and the call of the execution callback.
PollStart(p) ==
  LET j == poll[p].job IN
  /\ poll[p].at = "start"
  /\ StartJob(Server, j)
  /\ Advance(p, "await", "none")
  /\ begun' = [begun EXCEPT ![j] = @ + 1]
  /\ UNCHANGED <<requeues, crashes>>

\* startJob's write throws: the job stays claimed under its lease.
PollStartThrows(p) ==
  /\ DiskMayFail
  /\ poll[p].at = "start"
  /\ Abandon(p)
  /\ UNCHANGED <<storeVars, historyVars, crashes>>

\* The store refuses to settle a job that is no longer running.
SettleRefused(p) == ~CanSettle(Job(poll[p].job)) /\ Finish(p) /\ UNCHANGED storeVars

\* The callback has resolved and evaluateExecutionOutcome accepts the result.
\* A completion that cannot be written is handled like a failed execution:
\* the file system's error has no retryable field, so it counts as retryable.
PollSucceeds(p) ==
  /\ ServerFree
  /\ poll[p].at = "await"
  /\ \/ CompleteJob(Server, poll[p].job) /\ Finish(p)
     \/ SettleRefused(p)
     \/ /\ DiskMayFail
        /\ CanSettle(Job(poll[p].job))
        /\ Advance(p, "catch", "retryable")
        /\ UNCHANGED storeVars
  /\ UNCHANGED <<historyVars, crashes>>

\* evaluateExecutionOutcome rejects the result; all its verdicts are final.
PollRejects(p) ==
  /\ ServerFree
  /\ poll[p].at = "await"
  /\ \/ FailJob(Server, poll[p].job, "final") /\ Finish(p)
     \/ SettleRefused(p)
     \/ /\ DiskMayFail
        /\ CanSettle(Job(poll[p].job))
        /\ Advance(p, "catch", "retryable")
        /\ UNCHANGED storeVars
  /\ UNCHANGED <<historyVars, crashes>>

\* What a callback throws.  The request ollama.js aborts after its timeout rejects
\* with a DOMException, which fetchJson rethrows because it has a code; that code
\* is a number and the job schema wants a string.
ThrownErrors ==
  {"retryable", "final"} \cup (IF MayThrowUnstorable THEN {"unstorable"} ELSE {})

PollThrows(p) ==
  /\ ServerFree
  /\ poll[p].at = "await"
  /\ \E error \in ThrownErrors : Advance(p, "catch", error)
  /\ UNCHANGED <<storeVars, historyVars, crashes>>

\* Mutant of ShouldRetry: the 0-based attempt is compared with the limit itself.
ShouldRetryOnceMore(p) == poll[p].error = "retryable" /\ poll[p].attempt < poll[p].limit

\* The inner catch block.  Whether to retry is decided on the snapshot taken
\* before the claim, not on the job as it is now.
ShouldRetry(p) == poll[p].error = "retryable" /\ poll[p].attempt < poll[p].limit - 1

PollCatch(p) ==
  /\ poll[p].at = "catch"
  /\ \/ /\ poll[p].error # "unstorable"
        /\ FailJob(Server, poll[p].job, poll[p].error)
        /\ IF ShouldRetry(p) THEN Advance(p, "retry", poll[p].error) ELSE Finish(p)
     \/ SettleRefused(p)
     \/ /\ poll[p].error = "unstorable"   \* validateJob throws, failJob says so
        /\ Finish(p)
        /\ UNCHANGED storeVars
     \/ /\ DiskMayFail
        /\ poll[p].error # "unstorable"
        /\ CanSettle(Job(poll[p].job))
        /\ Abandon(p)
        /\ UNCHANGED storeVars
  /\ UNCHANGED <<historyVars, crashes>>

PollRetry(p) ==
  /\ poll[p].at = "retry"
  /\ \/ RetryJob(Server, poll[p].job) /\ Finish(p)
     \/ ~CanRetry(Job(poll[p].job)) /\ Finish(p) /\ UNCHANGED storeVars
     \/ /\ DiskMayFail
        /\ CanRetry(Job(poll[p].job))
        /\ Abandon(p)
        /\ UNCHANGED storeVars
  /\ UNCHANGED <<historyVars, crashes>>

---------------------------------------------------------------------------
(* The /jobs endpoints.  A request whose write throws changes nothing.     *)

PostJob(j) ==
  ServerFree /\ CreateJob(Server, j) /\ UNCHANGED <<workerVars, historyVars, crashes>>

PostCancel(j) ==
  ServerFree /\ CancelJob(Server, j) /\ UNCHANGED <<workerVars, historyVars, crashes>>

PostRetry(j) ==
  ServerFree /\ RetryJob(Server, j) /\ UNCHANGED <<workerVars, historyVars, crashes>>

PostReview(j, action) ==
  /\ ServerFree
  /\ ReviewJob(Server, j, action)
  /\ IF action \in RequeueActions
     THEN /\ requeues[j] < MaxRequeues
          /\ requeues' = [requeues EXCEPT ![j] = @ + 1]
     ELSE requeues' = requeues
  /\ UNCHANGED <<workerVars, begun, crashes>>

---------------------------------------------------------------------------
(* The worker's switch and the server's life.                              *)

\* createDurableJobStore runs when server.js is loaded; the worker is started
\* later, once the port listens and other components are initialized.
Boot ==
  /\ OpenStore(Server)
  /\ UNCHANGED <<workerVars, historyVars, crashes>>

StartWorker ==
  /\ ServerFree
  /\ ~started
  /\ started' = TRUE
  /\ UNCHANGED <<storeVars, isProcessing, currentJobId, poll, historyVars, crashes>>

\* stop() resets the flags; an invocation that awaits its callback goes on.
StopWorker ==
  /\ MayStop
  /\ ServerFree
  /\ started
  /\ started' = FALSE
  /\ currentJobId' = NoJob
  /\ isProcessing' = FALSE
  /\ UNCHANGED <<storeVars, poll, historyVars, crashes>>

\* The process ends, at any point: executions die with it.
Crash ==
  /\ crashes < MaxCrashes
  /\ CloseStore(Server)
  /\ crashes' = crashes + 1
  /\ started' = FALSE
  /\ isProcessing' = FALSE
  /\ currentJobId' = NoJob
  /\ poll' = [p \in Polls |-> NoPoll]
  /\ UNCHANGED historyVars

Clock == Tick /\ UNCHANGED <<workerVars, historyVars, crashes>>

Init ==
  /\ StoreInit
  /\ started = FALSE
  /\ isProcessing = FALSE
  /\ currentJobId = NoJob
  /\ poll = [p \in Polls |-> NoPoll]
  /\ begun = [j \in Jobs |-> 0]
  /\ requeues = [j \in Jobs |-> 0]
  /\ crashes = 0

PollStep(p) ==
  \/ \E j \in Jobs : PollClaim(p, j)
  \/ PollStart(p)
  \/ PollStartThrows(p)
  \/ PollSucceeds(p)
  \/ PollRejects(p)
  \/ PollThrows(p)
  \/ PollCatch(p)
  \/ PollRetry(p)

RequestStep(j) ==
  \/ PostJob(j)
  \/ PostCancel(j)
  \/ PostRetry(j)
  \/ \E action \in ReviewActions : PostReview(j, action)

Next ==
  \/ \E p \in Polls : PollStep(p)
  \/ \E j \in Jobs : RequestStep(j)
  \/ Boot
  \/ StartWorker
  \/ StopWorker
  \/ Crash
  \/ Clock

Spec == Init /\ [][Next]_vars

\* The interval keeps firing, a callback that was called settles (the runtime
\* client aborts a model call that takes too long), the handlers of the event
\* loop run to their end, and a server that went down is started again.
\* Nothing is assumed of the operator.
Fairness ==
  /\ WF_vars(Boot)
  /\ WF_vars(StartWorker)
  /\ WF_vars(Clock)
  /\ WF_vars(\E p \in Polls, j \in Jobs : PollClaim(p, j))
  /\ \A p \in Polls :
       /\ WF_vars(PollStart(p))
       /\ WF_vars(PollSucceeds(p) \/ PollRejects(p) \/ PollThrows(p))
       /\ WF_vars(PollCatch(p))
       /\ WF_vars(PollRetry(p))

FairSpec == Spec /\ Fairness

---------------------------------------------------------------------------
(* Properties.                                                             *)

\* Types of the worker's variables and of the history.
WorkerTypeOK ==
  /\ StoreTypeOK
  /\ started \in BOOLEAN
  /\ isProcessing \in BOOLEAN
  /\ currentJobId \in Jobs \cup {NoJob}
  /\ poll \in [Polls -> PollRecords]
  /\ begun \in [Jobs -> Nat]
  /\ requeues \in [Jobs -> Nat]
  /\ crashes \in Nat

\* isProcessing is exactly "an invocation of poll() is in flight", so the
\* worker never executes two jobs at once, whatever requests, thrown writes and
\* restarts come in between (stop() is not called).
SingleExecution ==
  /\ \A p, q \in InFlight : p = q
  /\ isProcessing <=> InFlight # {}

\* An execution's result is recorded on the attempt that was executed: when a
\* callback settles after its job was paused, rejected, retried or approved in
\* the meantime, the store refuses the late result or it belongs to the run
\* that is now `running'.
ResultsMatchAttempt ==
  \A p \in Polls :
    poll[p].at \in {"await", "catch"} /\ Job(poll[p].job).status = "running"
      => poll[p].attempt = Job(poll[p].job).attempt

\* docs/07-progress/next-agent-brief.md:339: "retryable errors with remaining
\* attempts re-queue via `retryJob`; non-retryable or exhausted attempts leave in
\* `failed`".  Either way, the catch block of an execution that threw fails the job.
FailureIsRecorded ==
  [][\A p \in Polls :
       poll[p].at = "catch" /\ CanSettle(Job(poll[p].job)) /\ poll'[p].at # "catch"
         => disk'[poll[p].job].status = "failed"]_vars

\* The retry decision taken on the old snapshot is the one the store would
\* take: no retry is tried in vain, and a retryable failure with attempts left
\* is never left in `failed', unless the server went down in between.
RetryDecisionExact ==
  /\ \A p \in Polls : poll[p].at = "retry" => CanRetry(Job(poll[p].job))
  /\ \A j \in Jobs :
       crashes = 0 /\ CanRetry(Job(j)) /\ Job(j).error = "retryable"
         => \E p \in Polls : poll[p].at = "retry" /\ poll[p].job = j

\* Every execution of a job is paid for by an attempt or by a human decision
\* to run it again, and a job about to run has one left: crashes, thrown writes,
\* expired leases, overlapping polls and late results never buy an execution.
Owed(status) == IF status \in {"absent", "queued", "claimed"} THEN 1 ELSE 0
ExecutionsPaidFor ==
  \A j \in Jobs : begun[j] + Owed(disk[j].status) <= disk[j].attempt + 1 + requeues[j]

\* The consequence an operator relies on: maxAttempts bounds the executions
\* nobody asked for.
ExecutionsBounded == \A j \in Jobs : begun[j] <= disk[j].maxAttempts + requeues[j]

\* A job that waits is served: it does not stay queued behind other jobs, and
\* a claim whose owner died or could not start is taken over once its lease has
\* expired.
WaitingIsServed ==
  \A j \in Jobs : disk[j].status \in {"queued", "claimed"}
                    ~> disk[j].status \notin {"queued", "claimed"}

\* A job that enters the queue reaches a terminal status or a human, unless the
\* server goes down.
JobSettles ==
  \A j \in Jobs :
    disk[j].status = "queued"
      ~> disk[j].status \in TerminalStatuses \cup {"paused_review"} \/ crashes > 0

\* docs/05-integrations/operator-guide.md:318: background jobs that were running
\* when the server shut down "will be flagged as interrupted the next time the
\* server starts", so none is shown as running when nothing executes it.
InterruptedIsFlagged ==
  started => \A j \in Jobs : Job(j).status = "running" =>
               \E p \in InFlight : poll[p].job = j

===========================================================================
