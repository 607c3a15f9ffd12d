--------------------- MODULE BackgroundWorker_proofs ----------------------
(***************************************************************************)
(* The worker's promises, for any number of jobs and of poll invocations   *)
(* in flight, any attempt limits, and with crashes, failing writes and     *)
(* stop() allowed unless a theorem says otherwise.                         *)
(***************************************************************************)
EXTENDS BackgroundWorker, DurableJobStore_proofs

\* The server is the only process on the directory.
ServerAlone == Stores = {Server}

\* An invocation in flight has a job, and at the catch block an error.
PollsWellFormed ==
  \A p \in Polls : /\ poll[p].at # "idle" => poll[p].job \in Jobs
                   /\ poll[p].at = "catch" => poll[p].error # "none"

\* What a step needs to know of the state it starts in.
WorkerInv == StoreInv /\ WorkerTypeOK /\ PollsWellFormed

\* poll() touches the store only through its operations.
LEMMA PollStepIsStoreStep ==
  ASSUME WorkerInv, NEW p \in Polls, PollStep(p)
  PROVE  [StoreNext]_storeVars
<1>. USE WorkerAssumption
<1>1. poll[p].at # "idle" => poll[p].job \in Jobs
  BY DEF WorkerInv, PollsWellFormed
<1>2. ASSUME NEW j \in Jobs, PollClaim(p, j)
      PROVE  StoreNext
  BY <1>2 DEF PollClaim, StoreNext, JobOperation
<1>3. CASE PollStart(p)
  BY <1>1, <1>3 DEF PollStart, StoreNext, JobOperation
<1>4. CASE PollStartThrows(p)
  BY <1>4 DEF PollStartThrows
<1>5. CASE PollSucceeds(p)
  BY <1>1, <1>5 DEF PollSucceeds, SettleRefused, StoreNext, JobOperation
<1>6. CASE PollRejects(p)
  <2>1. CASE FailJob(Server, poll[p].job, "final")
    BY <1>1, <1>6, <2>1 DEF PollRejects, StoreNext, JobOperation
  <2>2. CASE UNCHANGED storeVars
    BY <2>2
  <2>3. QED
    BY <1>6, <2>1, <2>2 DEF PollRejects, SettleRefused
<1>7. CASE PollThrows(p)
  BY <1>7 DEF PollThrows
<1>8. CASE PollCatch(p)
  <2>1. CASE poll[p].error # "unstorable" /\ FailJob(Server, poll[p].job, poll[p].error)
    <3>1. poll[p].error \in {"retryable", "final"}
      BY <1>8, <2>1 DEF PollCatch, WorkerInv, WorkerTypeOK, PollRecords, PollsWellFormed
    <3>2. QED
      BY <1>1, <1>8, <2>1, <3>1 DEF PollCatch, StoreNext, JobOperation
  <2>2. CASE UNCHANGED storeVars
    BY <2>2
  <2>3. QED
    BY <1>8, <2>1, <2>2 DEF PollCatch, SettleRefused
<1>9. CASE PollRetry(p)
  BY <1>1, <1>9 DEF PollRetry, StoreNext, JobOperation
<1>10. QED
  BY <1>2, <1>3, <1>4, <1>5, <1>6, <1>7, <1>8, <1>9 DEF PollStep

\* Every step of the server is a step of the store or leaves it alone.
LEMMA StepIsStoreStep == WorkerInv /\ [Next]_vars => [StoreNext]_storeVars
<1>. SUFFICES ASSUME WorkerInv, [Next]_vars
              PROVE  [StoreNext]_storeVars
  OBVIOUS
<1>. USE WorkerAssumption
<1>1. ASSUME NEW p \in Polls, PollStep(p)
      PROVE  [StoreNext]_storeVars
  BY <1>1, PollStepIsStoreStep
<1>2. ASSUME NEW j \in Jobs, RequestStep(j)
      PROVE  StoreNext
  BY <1>2 DEF RequestStep, PostJob, PostCancel, PostRetry, PostReview, StoreNext, JobOperation
<1>3. ASSUME Boot \/ Crash \/ Clock
      PROVE  StoreNext
  BY <1>3 DEF Boot, Crash, Clock, StoreNext
<1>4. ASSUME StartWorker \/ StopWorker \/ UNCHANGED vars
      PROVE  UNCHANGED storeVars
  BY <1>4 DEF StartWorker, StopWorker, vars
<1>5. QED
  BY <1>1, <1>2, <1>3, <1>4 DEF Next

\* The three ways a step of poll() leaves the record of its invocation.
LEMMA PollTypes ==
  ASSUME WorkerInv, NEW p \in Polls,
         \/ Finish(p)
         \/ Abandon(p)
         \/ /\ poll[p].at # "idle"
            /\ \/ Advance(p, "await", "none")
               \/ \E e \in {"retryable", "final", "unstorable"} : Advance(p, "catch", e)
               \/ Advance(p, "retry", poll[p].error)
  PROVE  /\ poll' \in [Polls -> PollRecords]
         /\ PollsWellFormed'
         /\ started' \in BOOLEAN /\ isProcessing' \in BOOLEAN
         /\ currentJobId' \in Jobs \cup {NoJob}
<1>. USE DEF WorkerInv, WorkerTypeOK, PollsWellFormed, PollRecords, PollPoints
<1>1. NoPoll \in PollRecords
  BY DEF NoPoll
<1>2. CASE Finish(p)
  BY <1>1, <1>2 DEF Finish, NoPoll
<1>3. CASE Abandon(p)
  BY <1>1, <1>3 DEF Abandon, NoPoll
<1>4. ASSUME NEW at \in {"await", "catch", "retry"},
             NEW error \in {"none", "retryable", "final", "unstorable"},
             at = "catch" => error # "none", poll[p].at # "idle", Advance(p, at, error)
      PROVE  /\ poll' \in [Polls -> PollRecords]
             /\ PollsWellFormed'
             /\ started' \in BOOLEAN /\ isProcessing' \in BOOLEAN
             /\ currentJobId' \in Jobs \cup {NoJob}
  BY <1>4 DEF Advance
<1>5. QED
  BY <1>2, <1>3, <1>4

\* Every step of poll() keeps the invariant.
LEMMA PollStepKeepsInv ==
  ASSUME WorkerInv, NEW p \in Polls, PollStep(p)
  PROVE  WorkerInv'
<1>. USE WorkerAssumption
<1>1. StoreInv'
  BY PollStepIsStoreStep, StoreInvStep DEF WorkerInv
<1>2. ASSUME NEW j \in Jobs, PollClaim(p, j)
      PROVE  WorkerInv'
  <2>1. mem[Server][j].attempt \in Nat /\ mem[Server][j].maxAttempts \in Nat
    BY DEF WorkerInv, StoreInv, StoreTypeOK, JobRecords
  <2>2. poll' \in [Polls -> PollRecords] /\ PollsWellFormed'
    BY <1>2, <2>1 DEF PollClaim, Job, WorkerInv, WorkerTypeOK, PollsWellFormed, PollRecords, PollPoints
  <2>3. QED
    BY <1>1, <1>2, <2>2 DEF PollClaim, historyVars, WorkerInv, WorkerTypeOK, StoreInv
<1>3. CASE PollStart(p)
  <2>1. poll[p].at # "idle" /\ Advance(p, "await", "none")
    BY <1>3 DEF PollStart
  <2>2. begun' \in [Jobs -> Nat]
    BY <1>3 DEF PollStart, WorkerInv, WorkerTypeOK, PollsWellFormed
  <2>3. QED
    BY <1>1, <1>3, <2>1, <2>2, PollTypes DEF PollStart, WorkerInv, WorkerTypeOK, StoreInv
<1>4. CASE PollStartThrows(p) \/ PollSucceeds(p) \/ PollRejects(p) \/ PollThrows(p)
           \/ PollCatch(p) \/ PollRetry(p)
  <2>1. \/ Finish(p)
        \/ Abandon(p)
        \/ /\ poll[p].at # "idle"
           /\ \/ \E e \in {"retryable", "final", "unstorable"} : Advance(p, "catch", e)
              \/ Advance(p, "retry", poll[p].error)
    BY <1>4 DEF PollStartThrows, PollSucceeds, PollRejects, PollThrows, ThrownErrors, PollCatch,
                PollRetry, SettleRefused
  <2>2. UNCHANGED <<historyVars, crashes>>
    BY <1>4 DEF PollStartThrows, PollSucceeds, PollRejects, PollThrows, PollCatch, PollRetry
  <2>3. QED
    BY <1>1, <2>1, <2>2, PollTypes DEF historyVars, WorkerInv, WorkerTypeOK, StoreInv
<1>5. QED
  BY <1>2, <1>3, <1>4 DEF PollStep

\* The array of idle invocations a boot and a crash leave.
LEMMA IdlePolls ==
  ASSUME NEW polls, polls = [p \in Polls |-> NoPoll]
  PROVE  polls \in [Polls -> PollRecords] /\ \A p \in Polls : polls[p].at = "idle"
BY DEF PollRecords, PollPoints, NoPoll

\* The invariant holds initially.
LEMMA WorkerInvInit == Init => WorkerInv
<1>. SUFFICES ASSUME Init
              PROVE  WorkerInv
  OBVIOUS
<1>1. StoreInv
  BY StoreInvInit DEF Init
<1>2. poll \in [Polls -> PollRecords] /\ PollsWellFormed
  BY IdlePolls DEF Init, PollsWellFormed
<1>3. QED
  BY <1>1, <1>2 DEF Init, WorkerInv, WorkerTypeOK, StoreInv

\* The invariant is inductive.
LEMMA WorkerInvStep == WorkerInv /\ [Next]_vars => WorkerInv'
<1>. SUFFICES ASSUME WorkerInv, [Next]_vars
              PROVE  WorkerInv'
  OBVIOUS
<1>. USE WorkerAssumption DEF WorkerInv, WorkerTypeOK, workerVars, historyVars
<1>1. StoreInv'
  BY StepIsStoreStep, StoreInvStep
<1>2. ASSUME NEW p \in Polls, PollStep(p)
      PROVE  WorkerInv'
  BY <1>2, PollStepKeepsInv
<1>3. ASSUME NEW j \in Jobs, RequestStep(j)
      PROVE  WorkerInv'
  <2>1. UNCHANGED <<workerVars, begun, crashes>> /\ requeues' \in [Jobs -> Nat]
    BY <1>3 DEF RequestStep, PostJob, PostCancel, PostRetry, PostReview
  <2>2. QED
    BY <1>1, <2>1 DEF StoreInv, PollsWellFormed
<1>4. CASE Boot \/ Clock \/ StartWorker \/ StopWorker \/ UNCHANGED vars
  <2>1. poll' = poll /\ UNCHANGED <<historyVars, crashes>>
    BY <1>4 DEF Boot, Clock, StartWorker, StopWorker, vars
  <2>2. started' \in BOOLEAN /\ isProcessing' \in BOOLEAN /\ currentJobId' \in Jobs \cup {NoJob}
    BY <1>4 DEF Boot, Clock, StartWorker, StopWorker, vars
  <2>3. QED
    BY <1>1, <2>1, <2>2 DEF StoreInv, PollsWellFormed
<1>5. CASE Crash
  <2>1. poll' \in [Polls -> PollRecords] /\ PollsWellFormed'
    BY <1>5, IdlePolls DEF Crash, PollsWellFormed
  <2>2. crashes' \in Nat /\ UNCHANGED historyVars
    BY <1>5 DEF Crash
  <2>3. /\ started' = FALSE /\ isProcessing' = FALSE /\ currentJobId' = NoJob
    BY <1>5 DEF Crash
  <2>4. QED
    BY <1>1, <2>1, <2>2, <2>3 DEF StoreInv
<1>6. QED
  BY <1>2, <1>3, <1>4, <1>5 DEF Next

\* The worker's variables keep their types.
THEOREM WorkerTypeCorrect == Spec => []WorkerTypeOK
<1>1. WorkerInv => WorkerTypeOK
  BY DEF WorkerInv
<1>2. QED
  BY <1>1, WorkerInvInit, WorkerInvStep, PTL DEF Spec

---------------------------------------------------------------------------
(* Executions are paid for.                                                *)

\* An id without a record has spent no attempt.
UnbornUnspent == \A j \in Jobs : disk[j].status = "absent" => disk[j].attempt = 0

Paid == ExecutionsPaidFor /\ UnbornUnspent
PaidInv == WorkerInv /\ MemoryIsDurable /\ Paid

\* The server keeps its Map and the files equal.
LEMMA DurableWorkerStep == WorkerInv /\ MemoryIsDurable /\ [Next]_vars => MemoryIsDurable'
BY StepIsStoreStep, DurableStep DEF WorkerInv

\* A step that publishes one record of the server has only that record's
\* account to balance.
LEMMA PaidPublish ==
  ASSUME PaidInv, NEW j \in Jobs, NEW job, Publish(Server, j, job), job.status # "absent",
         begun'[j] + Owed(job.status) <= job.attempt + 1 + requeues'[j],
         \A k \in Jobs \ {j} : begun'[k] = begun[k] /\ requeues'[k] = requeues[k]
  PROVE  Paid'
<1>1. ASSUME NEW k \in Jobs
      PROVE  /\ (begun[k] + Owed(disk[k].status) <= disk[k].attempt + 1 + requeues[k])'
             /\ (disk[k].status = "absent" => disk[k].attempt = 0)'
  <2>1. disk'[k] = IF k = j THEN job ELSE disk[k]
    BY DEF Publish, PaidInv, WorkerInv, StoreInv, StoreTypeOK
  <2>2. QED
    BY <2>1 DEF PaidInv, Paid, ExecutionsPaidFor, UnbornUnspent
<1>2. QED
  BY <1>1 DEF Paid, ExecutionsPaidFor, UnbornUnspent

\* The record an operation of the server starts from is the one in the file.
LEMMA ServerReadsDisk ==
  ASSUME PaidInv, ServerAlone, NEW j \in Jobs
  PROVE  /\ Server \in open => mem[Server][j] = disk[j]
         /\ disk[j] \in JobRecords /\ disk[j].attempt \in Nat
         /\ begun[j] \in Nat /\ requeues[j] \in Nat
         /\ begun[j] + Owed(disk[j].status) <= disk[j].attempt + 1 + requeues[j]
         /\ disk[j].status = "absent" => disk[j].attempt = 0
BY WorkerAssumption
   DEF PaidInv, WorkerInv, WorkerTypeOK, StoreInv, StoreTypeOK, MemoryIsDurable, ServerAlone,
       Paid, ExecutionsPaidFor, UnbornUnspent, JobRecords

\* Every operation but startJob, an approval and a correction keeps the account
\* of the job without touching the history.
LEMMA FreeOperations ==
  ASSUME PaidInv, ServerAlone, NEW j \in Jobs, UNCHANGED historyVars,
         \/ CreateJob(Server, j)
         \/ ClaimJob(Server, j)
         \/ CompleteJob(Server, j)
         \/ \E error \in {"retryable", "final"} : FailJob(Server, j, error)
         \/ CancelJob(Server, j)
         \/ RetryJob(Server, j)
         \/ \E action \in ReviewActions \ RequeueActions : ReviewJob(Server, j, action)
  PROVE  Paid'
<1>. USE ServerReadsDisk DEF historyVars, Owed
<1>1. CASE CreateJob(Server, j)
  <2>1. PICK limit \in AttemptLimits : Publish(Server, j, Created(limit))
    BY <1>1 DEF CreateJob
  <2>2. /\ Created(limit).status = "queued" /\ Created(limit).attempt = 0
        /\ disk[j].status = "absent"
    BY <1>1 DEF CreateJob, Created, Absent
  <2>3. QED
    BY <2>1, <2>2, PaidPublish
\* The other operations publish f(disk[j]); its status and attempt are enough.
<1>2. ASSUME NEW job, Update(Server, j, job), job.status # "absent",
             job.attempt \in Nat,
             Owed(job.status) - job.attempt <= Owed(disk[j].status) - disk[j].attempt
      PROVE  Paid'
  BY <1>2, PaidPublish DEF Update
<1>3. CASE ClaimJob(Server, j)
  <2>1. Update(Server, j, Claimed(disk[j], Server)) /\ CanClaim(disk[j])
    BY <1>3 DEF ClaimJob, Update
  <2>2. Claimed(disk[j], Server).status = "claimed"
        /\ Claimed(disk[j], Server).attempt = disk[j].attempt
    BY DEF Claimed, JobRecords
  <2>3. QED
    BY <1>2, <2>1, <2>2 DEF CanClaim
<1>4. CASE CompleteJob(Server, j)
  <2>1. Update(Server, j, Completed(disk[j]))
    BY <1>4 DEF CompleteJob, Update
  <2>2. Completed(disk[j]).status = "completed" /\ Completed(disk[j]).attempt = disk[j].attempt
    BY DEF Completed, JobRecords
  <2>3. QED
    BY <1>2, <2>1, <2>2
<1>5. ASSUME NEW error \in {"retryable", "final"}, FailJob(Server, j, error)
      PROVE  Paid'
  <2>1. Update(Server, j, Failed(disk[j], error))
    BY <1>5 DEF FailJob, Update
  <2>2. Failed(disk[j], error).status = "failed" /\ Failed(disk[j], error).attempt = disk[j].attempt
    BY DEF Failed, JobRecords
  <2>3. QED
    BY <1>2, <2>1, <2>2
<1>6. CASE CancelJob(Server, j)
  <2>1. Update(Server, j, Cancelled(disk[j]))
    BY <1>6 DEF CancelJob, Update
  <2>2. Cancelled(disk[j]).status = "cancelled" /\ Cancelled(disk[j]).attempt = disk[j].attempt
    BY DEF Cancelled, JobRecords
  <2>3. QED
    BY <1>2, <2>1, <2>2
<1>7. CASE RetryJob(Server, j)
  <2>1. Update(Server, j, Retried(disk[j])) /\ CanRetry(disk[j])
    BY <1>7 DEF RetryJob, Update
  <2>2. Retried(disk[j]).status = "queued" /\ Retried(disk[j]).attempt = disk[j].attempt + 1
    BY DEF Retried, JobRecords
  <2>3. QED
    BY <1>2, <2>1, <2>2 DEF CanRetry
<1>8. ASSUME NEW action \in ReviewActions \ RequeueActions, ReviewJob(Server, j, action)
      PROVE  Paid'
  <2>1. Update(Server, j, Reviewed(disk[j], action))
    BY <1>8 DEF ReviewJob, Update
  <2>2. /\ Reviewed(disk[j], action).status \in {"paused_review", "failed", "cancelled"}
        /\ Reviewed(disk[j], action).attempt = disk[j].attempt
    BY DEF Reviewed, ReviewActions, RequeueActions, JobRecords
  <2>. HIDE DEF Reviewed
  <2>3. QED
    BY <1>2, <2>1, <2>2
<1>9. QED
  BY <1>1, <1>3, <1>4, <1>5, <1>6, <1>7, <1>8

\* startJob spends what the waiting job had left.
LEMMA StartIsPaid ==
  ASSUME PaidInv, ServerAlone, NEW j \in Jobs, StartJob(Server, j),
         begun' = [begun EXCEPT ![j] = @ + 1], requeues' = requeues
  PROVE  Paid'
<1>. USE ServerReadsDisk
<1>1. Publish(Server, j, Started(disk[j])) /\ CanStart(disk[j])
  BY DEF StartJob, Update
<1>2. Started(disk[j]).status = "running" /\ Started(disk[j]).attempt = disk[j].attempt
  BY DEF Started, JobRecords
<1>3. begun'[j] = begun[j] + 1 /\ \A k \in Jobs \ {j} : begun'[k] = begun[k]
  BY DEF PaidInv, WorkerInv, WorkerTypeOK
<1>4. QED
  BY <1>1, <1>2, <1>3, PaidPublish DEF CanStart, Owed

\* An approval or a correction is itself what the next execution is paid with.
LEMMA RequeueIsPaid ==
  ASSUME PaidInv, ServerAlone, NEW j \in Jobs, NEW action \in RequeueActions,
         ReviewJob(Server, j, action),
         requeues' = [requeues EXCEPT ![j] = @ + 1], begun' = begun
  PROVE  Paid'
<1>. USE ServerReadsDisk
<1>1. Publish(Server, j, Reviewed(disk[j], action)) /\ CanReview(disk[j], action)
  BY DEF ReviewJob, Update
<1>2. /\ Reviewed(disk[j], action).status = "queued"
      /\ Reviewed(disk[j], action).attempt = disk[j].attempt
  BY DEF Reviewed, RequeueActions, JobRecords
<1>3. requeues'[j] = requeues[j] + 1 /\ \A k \in Jobs \ {j} : requeues'[k] = requeues[k]
  BY DEF PaidInv, WorkerInv, WorkerTypeOK
<1>4. QED
  BY <1>1, <1>2, <1>3, PaidPublish DEF Owed

\* Every step of poll() keeps every account balanced.
LEMMA PollStepIsPaid ==
  ASSUME PaidInv, ServerAlone, NEW p \in Polls, PollStep(p)
  PROVE  Paid'
<1>. USE WorkerAssumption
<1>1. poll[p].at # "idle" => poll[p].job \in Jobs
  BY DEF PaidInv, WorkerInv, PollsWellFormed
<1>2. poll[p].at = "catch" /\ poll[p].error # "unstorable"
        => poll[p].error \in {"retryable", "final"}
  BY DEF PaidInv, WorkerInv, WorkerTypeOK, PollRecords, PollsWellFormed
<1>3. ASSUME UNCHANGED <<storeVars, historyVars>>
      PROVE  Paid'
  BY <1>3 DEF storeVars, historyVars, PaidInv, Paid, ExecutionsPaidFor, UnbornUnspent
<1>4. ASSUME NEW j \in Jobs, PollClaim(p, j)
      PROVE  Paid'
  BY <1>4, FreeOperations DEF PollClaim
<1>5. CASE PollStart(p)
  BY <1>1, <1>5, StartIsPaid DEF PollStart
<1>6. CASE PollSucceeds(p)
  BY <1>1, <1>3, <1>6, FreeOperations DEF PollSucceeds, SettleRefused
<1>7. CASE PollRejects(p)
  BY <1>1, <1>3, <1>7, FreeOperations DEF PollRejects, SettleRefused
<1>8. CASE PollCatch(p)
  BY <1>1, <1>2, <1>3, <1>8, FreeOperations DEF PollCatch, SettleRefused
<1>9. CASE PollRetry(p)
  BY <1>1, <1>3, <1>9, FreeOperations DEF PollRetry
<1>10. CASE PollStartThrows(p) \/ PollThrows(p)
  BY <1>3, <1>10 DEF PollStartThrows, PollThrows
<1>11. QED
  BY <1>4, <1>5, <1>6, <1>7, <1>8, <1>9, <1>10 DEF PollStep

\* Every step of the server does.
LEMMA PaidStep == PaidInv /\ ServerAlone /\ [Next]_vars => Paid'
<1>. SUFFICES ASSUME PaidInv, ServerAlone, [Next]_vars
              PROVE  Paid'
  OBVIOUS
<1>1. ASSUME NEW p \in Polls, PollStep(p)
      PROVE  Paid'
  BY <1>1, PollStepIsPaid
<1>2. ASSUME NEW j \in Jobs, RequestStep(j)
      PROVE  Paid'
  <2>1. CASE PostJob(j) \/ PostCancel(j) \/ PostRetry(j)
    BY <2>1, FreeOperations DEF PostJob, PostCancel, PostRetry
  <2>2. ASSUME NEW action \in ReviewActions, PostReview(j, action)
        PROVE  Paid'
    <3>1. CASE action \in RequeueActions
      BY <2>2, <3>1, RequeueIsPaid DEF PostReview
    <3>2. CASE action \notin RequeueActions
      BY <2>2, <3>2, FreeOperations DEF PostReview, historyVars
    <3>3. QED
      BY <3>1, <3>2
  <2>3. QED
    BY <1>2, <2>1, <2>2 DEF RequestStep
<1>3. CASE Clock
  <2>1. \A j \in Jobs : disk'[j].status = disk[j].status /\ disk'[j].attempt = disk[j].attempt
    BY <1>3 DEF Clock, Tick, Aged, PaidInv, WorkerInv, StoreInv, StoreTypeOK, JobRecords
  <2>2. UNCHANGED historyVars
    BY <1>3 DEF Clock
  <2>3. QED
    BY <2>1, <2>2 DEF historyVars, PaidInv, Paid, ExecutionsPaidFor, UnbornUnspent
<1>4. CASE Boot \/ Crash \/ StartWorker \/ StopWorker \/ UNCHANGED vars
  <2>1. disk' = disk /\ UNCHANGED historyVars
    BY <1>4 DEF Boot, Crash, StartWorker, StopWorker, vars, storeVars, OpenStore, CloseStore
  <2>2. QED
    BY <2>1 DEF historyVars, PaidInv, Paid, ExecutionsPaidFor, UnbornUnspent
<1>5. QED
  BY <1>1, <1>2, <1>3, <1>4 DEF Next

\* Nothing a crash, a failing disk, an expired lease, stop() and start() or a
\* late result does makes the worker execute a job more often than attempts and
\* human decisions allow.
THEOREM ExecutionsStayPaidFor ==
  ASSUME ServerAlone
  PROVE  Spec => []ExecutionsPaidFor
<1>1. Init => PaidInv
  <2>. SUFFICES ASSUME Init
                PROVE  PaidInv
    OBVIOUS
  <2>1. MemoryIsDurable
    BY DEF Init, StoreInit, MemoryIsDurable
  <2>2. Paid
    BY DEF Init, StoreInit, Paid, ExecutionsPaidFor, UnbornUnspent, Absent, Owed
  <2>3. QED
    BY <2>1, <2>2, WorkerInvInit DEF PaidInv
<1>2. PaidInv /\ [Next]_vars => PaidInv'
  BY PaidStep, WorkerInvStep, DurableWorkerStep DEF PaidInv
<1>3. PaidInv => ExecutionsPaidFor
  BY DEF PaidInv, Paid
<1>4. QED
  BY <1>1, <1>2, <1>3, PTL DEF Spec

\* The consequence for one job: maxAttempts and the operator bound its executions.
THEOREM ExecutionsStayBounded ==
  ASSUME ServerAlone
  PROVE  Spec => []ExecutionsBounded
<1>1. WorkerInv /\ ExecutionsPaidFor => ExecutionsBounded
  <2>. SUFFICES ASSUME WorkerInv, ExecutionsPaidFor, NEW j \in Jobs
                PROVE  begun[j] <= disk[j].maxAttempts + requeues[j]
    BY DEF ExecutionsBounded
  <2>1. /\ begun[j] \in Nat /\ requeues[j] \in Nat
        /\ disk[j].attempt \in Nat /\ disk[j].maxAttempts \in Nat
    BY DEF WorkerInv, WorkerTypeOK, StoreTypeOK, JobRecords
  <2>2. disk[j].attempt < disk[j].maxAttempts
    BY DEF WorkerInv, StoreInv, RecordsConsistent, AttemptsBounded
  <2>3. begun[j] + Owed(disk[j].status) <= disk[j].attempt + 1 + requeues[j]
    BY DEF ExecutionsPaidFor
  <2>4. Owed(disk[j].status) \in {0, 1}
    BY DEF Owed
  <2>5. QED
    BY <2>1, <2>2, <2>3, <2>4
<1>2. QED
  BY <1>1, WorkerInvInit, WorkerInvStep, ExecutionsStayPaidFor, PTL DEF Spec

---------------------------------------------------------------------------
(* One execution at a time, and its result on its own attempt.             *)

\* Between the claim and startJob nothing touches the claimed record; from then
\* on the record may leave `running', but only this invocation can bring the job
\* back there.
PollAgrees(p) ==
  /\ poll[p].at = "start" => /\ Job(poll[p].job).status = "claimed"
                             /\ Job(poll[p].job).attempt = poll[p].attempt
  /\ poll[p].at \in {"await", "catch"} /\ Job(poll[p].job).status = "running"
       => poll[p].attempt = Job(poll[p].job).attempt

FlowInv ==
  /\ SingleExecution
  /\ InFlight # {} => Server \in open
  /\ \A p \in Polls : PollAgrees(p)

\* A step of poll() starts the only invocation, ends it or moves it on.
LEMMA PollStepFlow ==
  ASSUME WorkerInv, FlowInv, NEW p \in Polls, PollStep(p)
  PROVE  SingleExecution' /\ (InFlight # {} => Server \in open)'
<1>. USE DEF FlowInv, SingleExecution, InFlight, WorkerInv, WorkerTypeOK
<1>1. ASSUME NEW j \in Jobs, PollClaim(p, j)
      PROVE  InFlight' = {p} /\ isProcessing' = TRUE /\ Server \in open'
  BY <1>1 DEF PollClaim, ClaimJob, Update, Publish, ServerFree
<1>2. ASSUME poll[p].at # "idle"
      PROVE  InFlight = {p} /\ isProcessing = TRUE /\ Server \in open
  BY <1>2
<1>3. ASSUME poll[p].at # "idle", Finish(p) \/ Abandon(p)
      PROVE  InFlight' = {} /\ isProcessing' = FALSE
  BY <1>2, <1>3 DEF Finish, Abandon, NoPoll
<1>4. ASSUME poll[p].at # "idle", NEW at \in {"await", "catch", "retry"}, NEW e, Advance(p, at, e)
      PROVE  InFlight' = {p} /\ isProcessing' = TRUE
  BY <1>2, <1>4 DEF Advance, PollRecords
<1>5. CASE \A j \in Jobs : ~PollClaim(p, j)
  <2>1. poll[p].at # "idle" /\ open' = open
    BY <1>5, PollStepIsStoreStep
    DEF PollStep, PollStart, PollStartThrows, PollSucceeds, PollRejects, PollThrows, PollCatch,
        PollRetry, SettleRefused, StartJob, CompleteJob, FailJob, RetryJob, Update, Publish,
        storeVars
  <2>2. \/ Finish(p) \/ Abandon(p)
        \/ \E at \in {"await", "catch", "retry"}, e \in {"none", "retryable", "final", "unstorable"} :
             Advance(p, at, e)
    BY <1>5 DEF PollStep, PollStart, PollStartThrows, PollSucceeds, PollRejects, PollThrows,
        ThrownErrors, PollCatch, PollRetry, SettleRefused, PollRecords
  <2>3. QED
    BY <1>2, <1>3, <1>4, <2>1, <2>2
<1>6. QED
  BY <1>1, <1>5

\* What an operation of the server does to the records in its Map.
LEMMA ServerPublish ==
  ASSUME WorkerInv, NEW j \in Jobs, NEW job, Update(Server, j, job), NEW k \in Jobs
  PROVE  Job(k)' = IF k = j THEN job ELSE Job(k)
BY WorkerAssumption DEF Update, Publish, Job, WorkerInv, StoreInv, StoreTypeOK

\* A step of poll() keeps invocation and record in agreement.
LEMMA PollStepAgrees ==
  ASSUME WorkerInv, FlowInv, NEW p \in Polls, PollStep(p), NEW q \in Polls
  PROVE  PollAgrees(q)'
<1>. USE DEF FlowInv, SingleExecution, InFlight, WorkerInv, WorkerTypeOK
<1>1. poll[p].at # "idle" => poll[p].job \in Jobs
  BY DEF PollsWellFormed
<1>2. p # q => poll'[q] = poll[q] /\ poll'[q].at = "idle"
  <2>1. p # q => poll'[q] = poll[q]
    BY DEF PollStep, PollClaim, PollStart, PollStartThrows, PollSucceeds, PollRejects, PollThrows,
           PollCatch, PollRetry, SettleRefused, Finish, Abandon, Advance
  <2>2. p # q /\ poll[q].at # "idle" => poll[p].at = "idle" /\ isProcessing
    OBVIOUS
  <2>3. poll[p].at = "idle" => ~isProcessing
    BY DEF PollStep, PollClaim, PollStart, PollStartThrows, PollSucceeds, PollRejects, PollThrows,
           PollCatch, PollRetry
  <2>4. QED
    BY <2>1, <2>2, <2>3
<1>3. CASE p # q
  BY <1>2, <1>3 DEF PollAgrees
<1>. SUFFICES ASSUME p = q
              PROVE  PollAgrees(p)'
  BY <1>3
<1>4. ASSUME NEW j \in Jobs, PollClaim(p, j)
      PROVE  PollAgrees(p)'
  <2>1. /\ poll'[p].at = "start" /\ poll'[p].job = j
        /\ poll'[p].attempt = Job(j).attempt
    BY <1>4 DEF PollClaim
  <2>2. Job(j)' = Claimed(Job(j), Server)
    BY <1>4, ServerPublish DEF PollClaim, ClaimJob, Job
  <2>3. Claimed(Job(j), Server).status = "claimed" /\ Claimed(Job(j), Server).attempt = Job(j).attempt
    BY WorkerAssumption DEF Claimed, Job, StoreInv, StoreTypeOK, JobRecords
  <2>4. QED
    BY <2>1, <2>2, <2>3 DEF PollAgrees, Job
<1>5. CASE PollStart(p)
  <2>. DEFINE j == poll[p].job
  <2>1. /\ poll'[p].at = "await" /\ poll'[p].job = j /\ poll'[p].attempt = poll[p].attempt
        /\ poll[p].at = "start" /\ j \in Jobs
    BY <1>1, <1>5 DEF PollStart, Advance, PollRecords
  <2>2. Job(j)' = Started(Job(j))
    BY <1>5, <2>1, ServerPublish DEF PollStart, StartJob, Job
  <2>3. Started(Job(j)).attempt = Job(j).attempt
    BY <2>1, WorkerAssumption DEF Started, Job, StoreInv, StoreTypeOK, JobRecords
  <2>4. poll[p].attempt = Job(j).attempt
    BY <2>1 DEF PollAgrees
  <2>5. QED
    BY <2>1, <2>2, <2>3, <2>4 DEF PollAgrees, Job
<1>6. ASSUME UNCHANGED storeVars, poll[p].at = "await", NEW e, Advance(p, "catch", e)
      PROVE  PollAgrees(p)'
  <2>1. /\ poll'[p].at = "catch" /\ poll'[p].job = poll[p].job /\ poll'[p].attempt = poll[p].attempt
    BY <1>6 DEF Advance, PollRecords
  <2>2. mem' = mem
    BY <1>6 DEF storeVars
  <2>3. QED
    BY <1>6, <2>1, <2>2 DEF PollAgrees, Job
<1>7. ASSUME Finish(p) \/ Abandon(p) \/ \E e \in {"none", "retryable", "final", "unstorable"} :
                                           Advance(p, "retry", e)
      PROVE  PollAgrees(p)'
  <2>1. poll'[p].at \in {"idle", "retry"}
    BY <1>7 DEF Finish, Abandon, Advance, NoPoll, PollRecords
  <2>2. QED
    BY <2>1 DEF PollAgrees
<1>8. CASE PollSucceeds(p) \/ PollRejects(p) \/ PollThrows(p)
  BY <1>6, <1>7, <1>8 DEF PollSucceeds, PollRejects, PollThrows, SettleRefused
<1>9. CASE PollStartThrows(p) \/ PollCatch(p) \/ PollRetry(p)
  BY <1>7, <1>9 DEF PollStartThrows, PollCatch, PollRetry, SettleRefused, PollRecords
<1>10. QED
  BY <1>4, <1>5, <1>8, <1>9 DEF PollStep

\* No request puts a job into `running', and none comes between the claim and
\* startJob.
LEMMA RequestAgrees ==
  ASSUME WorkerInv, FlowInv, NEW j \in Jobs, RequestStep(j), NEW p \in Polls
  PROVE  PollAgrees(p)'
<1>. USE WorkerAssumption DEF WorkerInv, WorkerTypeOK
<1>1. poll' = poll /\ poll[p].at # "start"
  BY DEF RequestStep, PostJob, PostCancel, PostRetry, PostReview, workerVars, ServerFree, LoopHeld
<1>2. \E job : /\ job.status # "running"
               /\ \A k \in Jobs : Job(k)' = IF k = j THEN job ELSE Job(k)
  <2>. USE DEF StoreInv, StoreTypeOK, JobRecords, Job
  <2>1. CASE PostJob(j)
    <3>1. PICK limit \in AttemptLimits : Publish(Server, j, Created(limit))
      BY <2>1 DEF PostJob, CreateJob
    <3>2. Created(limit).status = "queued"
      BY DEF Created, Absent
    <3>. HIDE DEF JobRecords
    <3>3. \A k \in Jobs : mem'[Server][k] = IF k = j THEN Created(limit) ELSE mem[Server][k]
      BY <3>1 DEF Publish
    <3>4. QED
      BY <3>2, <3>3
  <2>2. ASSUME NEW job, Update(Server, j, job), job.status # "running"
        PROVE  \E r : /\ r.status # "running"
                      /\ \A k \in Jobs : Job(k)' = IF k = j THEN r ELSE Job(k)
    BY <2>2, ServerPublish
  <2>3. CASE PostCancel(j)
    <3>1. Cancelled(Job(j)).status = "cancelled"
      BY DEF Cancelled
    <3>2. QED
      BY <2>2, <2>3, <3>1 DEF PostCancel, CancelJob
  <2>4. CASE PostRetry(j)
    <3>1. Retried(Job(j)).status = "queued"
      BY DEF Retried
    <3>2. QED
      BY <2>2, <2>4, <3>1 DEF PostRetry, RetryJob
  <2>5. ASSUME NEW action \in ReviewActions, PostReview(j, action)
        PROVE  \E r : /\ r.status # "running"
                      /\ \A k \in Jobs : Job(k)' = IF k = j THEN r ELSE Job(k)
    <3>1. Reviewed(Job(j), action).status # "running"
      BY DEF Reviewed, ReviewActions, RequeueActions
    <3>2. QED
      BY <2>2, <2>5, <3>1 DEF PostReview, ReviewJob
  <2>6. QED
    BY <2>1, <2>3, <2>4, <2>5 DEF RequestStep
<1>3. poll[p].at # "idle" => poll[p].job \in Jobs
  BY DEF PollsWellFormed
<1>4. QED
  BY <1>1, <1>2, <1>3 DEF PollAgrees, FlowInv, Job

\* Without stop(), the flow of invocations is an invariant of every step.
LEMMA FlowStep ==
  ASSUME MayStop = FALSE, WorkerInv, FlowInv, [Next]_vars
  PROVE  FlowInv'
<1>1. ASSUME NEW p \in Polls, PollStep(p)
      PROVE  FlowInv'
  BY <1>1, PollStepFlow, PollStepAgrees DEF FlowInv
<1>2. ASSUME NEW j \in Jobs, RequestStep(j)
      PROVE  FlowInv'
  <2>1. UNCHANGED workerVars /\ open' = open
    BY <1>2 DEF RequestStep, PostJob, PostCancel, PostRetry, PostReview, CreateJob, CancelJob,
                RetryJob, ReviewJob, Update, Publish
  <2>2. QED
    BY <1>2, <2>1, RequestAgrees DEF workerVars, FlowInv, SingleExecution, InFlight
<1>3. CASE Clock
  <2>1. UNCHANGED workerVars /\ open' = open
    BY <1>3 DEF Clock, Tick
  <2>2. \A j \in Jobs : Job(j)'.status = Job(j).status /\ Job(j)'.attempt = Job(j).attempt
    <3>1. \A j \in Jobs : Job(j)' = Aged(Job(j))
      BY <1>3, WorkerAssumption DEF Clock, Tick, Job
    <3>2. \A j \in Jobs : Job(j) \in JobRecords
      BY WorkerAssumption DEF Job, WorkerInv, WorkerTypeOK, StoreTypeOK
    <3>3. \A r \in JobRecords : Aged(r).status = r.status /\ Aged(r).attempt = r.attempt
      BY DEF Aged, JobRecords
    <3>4. QED
      BY <3>1, <3>2, <3>3
  <2>3. \A p \in Polls : poll[p].at # "idle" => poll[p].job \in Jobs
    BY DEF WorkerInv, PollsWellFormed
  <2>4. \A p \in Polls : PollAgrees(p)'
    BY <2>1, <2>2, <2>3 DEF FlowInv, PollAgrees, workerVars
  <2>5. QED
    BY <2>1, <2>4 DEF workerVars, FlowInv, SingleExecution, InFlight
<1>4. CASE Boot \/ Crash
  <2>1. InFlight' = {} /\ isProcessing' = FALSE
    BY <1>4 DEF Boot, Crash, OpenStore, workerVars, NoPoll, FlowInv, SingleExecution, InFlight,
                WorkerInv, WorkerTypeOK
  <2>2. QED
    BY <2>1 DEF FlowInv, SingleExecution, InFlight, PollAgrees
<1>5. CASE StartWorker \/ StopWorker \/ UNCHANGED vars
  <2>1. UNCHANGED <<storeVars, isProcessing, poll>>
    BY <1>5 DEF StartWorker, StopWorker, vars, workerVars
  <2>2. QED
    BY <2>1 DEF storeVars, FlowInv, SingleExecution, InFlight, PollAgrees, Job
<1>6. QED
  BY <1>1, <1>2, <1>3, <1>4, <1>5 DEF Next

\* It holds initially: there is no invocation.
LEMMA FlowInit == Init => FlowInv
BY DEF Init, NoPoll, FlowInv, SingleExecution, InFlight, PollAgrees

\* In a program that does not call stop(), as the server does not, the worker
\* never has two executions in flight, over any crashes and failing writes.
THEOREM ExecutionsAreSequential ==
  ASSUME MayStop = FALSE
  PROVE  Spec => []SingleExecution
<1>1. FlowInv => SingleExecution
  BY DEF FlowInv
<1>2. WorkerInv /\ FlowInv /\ [Next]_vars => WorkerInv' /\ FlowInv'
  BY WorkerInvStep, FlowStep
<1>3. QED
  BY <1>1, <1>2, WorkerInvInit, FlowInit, PTL DEF Spec

\* In the same program, an execution that settles while its job is running
\* settles the attempt it was started for.
THEOREM ResultsStayMatched ==
  ASSUME MayStop = FALSE
  PROVE  Spec => []ResultsMatchAttempt
<1>1. FlowInv => ResultsMatchAttempt
  BY DEF FlowInv, ResultsMatchAttempt, PollAgrees
<1>2. WorkerInv /\ FlowInv /\ [Next]_vars => WorkerInv' /\ FlowInv'
  BY WorkerInvStep, FlowStep
<1>3. QED
  BY <1>1, <1>2, WorkerInvInit, FlowInit, PTL DEF Spec

---------------------------------------------------------------------------
(* The retry decision.                                                     *)

\* A record in a Map keeps its limit while the process lives.
LEMMA LimitsFixed ==
  ASSUME StoreInv, [StoreNext]_storeVars, NEW s \in Stores, s \in open, s \in open',
         NEW j \in Jobs, mem[s][j].status # "absent"
  PROVE  mem'[s][j].status # "absent" /\ mem'[s][j].maxAttempts = mem[s][j].maxAttempts
<1>. DEFINE Same(job) == job.status # "absent" /\ job.maxAttempts = mem[s][j].maxAttempts
<1>. USE DEF StoreInv, StoreTypeOK
<1>1. mem[s][j] \in JobRecords
  OBVIOUS
<1>2. ASSUME NEW t \in Stores, NEW k \in Jobs, NEW job, Update(t, k, job),
             t = s /\ k = j => Same(job)
      PROVE  Same(mem'[s][j])
  <2>1. mem'[s][j] = IF t = s /\ k = j THEN job ELSE mem[s][j]
    BY <1>2 DEF Update, Publish
  <2>2. QED
    BY <1>2, <2>1
<1>3. ASSUME NEW t \in Stores, NEW k \in Jobs, JobOperation(t, k)
      PROVE  Same(mem'[s][j])
  <2>. USE DEF JobRecords
  <2>1. CASE CreateJob(t, k)
    <3>1. k # j
      BY <2>1 DEF CreateJob
    <3>2. mem'[s][j] = mem[s][j]
      BY <2>1, <3>1 DEF CreateJob, Publish
    <3>3. QED
      BY <3>2
  <2>2. CASE ClaimJob(t, k)
    BY <1>1, <1>2, <2>2 DEF ClaimJob, Claimed
  <2>3. CASE StartJob(t, k)
    BY <1>1, <1>2, <2>3 DEF StartJob, Started
  <2>4. CASE CompleteJob(t, k)
    BY <1>1, <1>2, <2>4 DEF CompleteJob, Completed
  <2>5. ASSUME NEW error \in {"retryable", "final"}, FailJob(t, k, error)
        PROVE  Same(mem'[s][j])
    BY <1>1, <1>2, <2>5 DEF FailJob, Failed
  <2>6. CASE CancelJob(t, k)
    BY <1>1, <1>2, <2>6 DEF CancelJob, Cancelled
  <2>7. CASE RetryJob(t, k)
    BY <1>1, <1>2, <2>7 DEF RetryJob, Retried
  <2>8. ASSUME NEW action \in ReviewActions, ReviewJob(t, k, action)
        PROVE  Same(mem'[s][j])
    BY <1>1, <1>2, <2>8 DEF ReviewJob, Reviewed, ReviewActions, RequeueActions
  <2>9. QED
    BY <1>3, <2>1, <2>2, <2>3, <2>4, <2>5, <2>6, <2>7, <2>8 DEF JobOperation
<1>4. ASSUME NEW t \in Stores, OpenStore(t) \/ CloseStore(t)
      PROVE  Same(mem'[s][j])
  <2>1. t # s
    BY <1>4 DEF OpenStore, CloseStore
  <2>2. mem'[s] = mem[s]
    BY <1>4, <2>1 DEF OpenStore, CloseStore
  <2>3. QED
    BY <2>2
<1>5. CASE Tick
  <2>1. mem'[s][j] = Aged(mem[s][j])
    BY <1>5 DEF Tick
  <2>2. QED
    BY <1>1, <2>1 DEF Aged, JobRecords
<1>6. CASE UNCHANGED storeVars
  BY <1>6 DEF storeVars
<1>7. QED
  BY <1>3, <1>4, <1>5, <1>6 DEF StoreNext

\* The snapshot an invocation decides on has the limit the record has.
LimitsAgree ==
  \A p \in Polls : poll[p].at # "idle" => /\ Job(poll[p].job).status # "absent"
                                          /\ Job(poll[p].job).maxAttempts = poll[p].limit

\* The catch block owes job j a retry.
Retryable(job) == CanRetry(job) /\ job.error = "retryable"
AtRetry(j) == \E p \in Polls : poll[p].at = "retry" /\ poll[p].job = j

\* Before its first crash the server is not up, or was booted on an empty directory.
FirstBootIsEmpty ==
  crashes = 0 /\ Server \notin open => \A j \in Jobs : disk[j].status = "absent"

RetryInv == LimitsAgree /\ FirstBootIsEmpty /\ RetryDecisionExact

\* An invocation in flight was claimed by this step or keeps its snapshot.
LEMMA SnapshotKept ==
  ASSUME WorkerInv, [Next]_vars, NEW p \in Polls, poll'[p].at # "idle"
  PROVE  \/ \E j \in Jobs : PollClaim(p, j)
         \/ /\ poll[p].at # "idle"
            /\ poll'[p].job = poll[p].job /\ poll'[p].limit = poll[p].limit
<1>0. /\ poll \in [Polls -> PollRecords]
      /\ \A q \in Polls : DOMAIN poll[q] = {"at", "job", "attempt", "limit", "error"}
  BY DEF WorkerInv, WorkerTypeOK, PollRecords
<1>1. ASSUME NEW q \in Polls, PollStep(q)
      PROVE  \/ \E j \in Jobs : PollClaim(p, j)
             \/ /\ poll[p].at # "idle"
                /\ poll'[p].job = poll[p].job /\ poll'[p].limit = poll[p].limit
  <2>1. \/ \E j \in Jobs : PollClaim(q, j)
        \/ Finish(q) \/ Abandon(q)
        \/ poll[q].at # "idle" /\ \E at, e : Advance(q, at, e)
    BY <1>1 DEF PollStep, PollStart, PollStartThrows, PollSucceeds, PollRejects, PollThrows,
         PollCatch, PollRetry, SettleRefused
  <2>2. CASE p # q
    <3>1. poll'[p] = poll[p]
      <4>1. \E r : poll' = [poll EXCEPT ![q] = r]
        BY <2>1 DEF PollClaim, Finish, Abandon, Advance
      <4>2. QED
        BY <1>0, <2>2, <4>1
    <3>2. QED
      BY <3>1
  <2>3. CASE p = q
    <3>1. ~Finish(p) /\ ~Abandon(p)
      BY <1>0 DEF Finish, Abandon, NoPoll
    <3>2. CASE poll[p].at # "idle" /\ \E at, e : Advance(p, at, e)
      <4>1. PICK at, e : Advance(p, at, e)
        BY <3>2
      <4>2. poll'[p] = [[poll[p] EXCEPT !.at = at] EXCEPT !.error = e]
        BY <1>0, <4>1 DEF Advance
      <4>3. QED
        BY <1>0, <3>2, <4>2 DEF PollRecords
    <3>3. QED
      BY <2>1, <2>3, <3>1, <3>2
  <2>4. QED
    BY <2>2, <2>3
<1>2. CASE Crash
  BY <1>2, IdlePolls DEF Crash
<1>3. ASSUME \/ \E j \in Jobs : RequestStep(j)
             \/ Boot \/ StartWorker \/ StopWorker \/ Clock \/ UNCHANGED vars
      PROVE  poll' = poll
  BY <1>3 DEF RequestStep, PostJob, PostCancel, PostRetry, PostReview, Boot, StartWorker,
       StopWorker, Clock, workerVars, vars
<1>4. QED
  BY <1>1, <1>2, <1>3 DEF Next

\* So the limits go on agreeing.
LEMMA LimitsStep ==
  ASSUME WorkerInv, FlowInv, FlowInv', LimitsAgree, [Next]_vars
  PROVE  LimitsAgree'
<1>. SUFFICES ASSUME NEW p \in Polls, poll'[p].at # "idle"
              PROVE  /\ mem'[Server][poll'[p].job].status # "absent"
                     /\ mem'[Server][poll'[p].job].maxAttempts = poll'[p].limit
  BY DEF LimitsAgree, Job
<1>. USE WorkerAssumption DEF Job
<1>1. [StoreNext]_storeVars /\ Server \in open'
  BY StepIsStoreStep DEF FlowInv, InFlight
<1>2. ASSUME NEW j \in Jobs, PollClaim(p, j)
      PROVE  /\ mem'[Server][poll'[p].job].status # "absent"
             /\ mem'[Server][poll'[p].job].maxAttempts = poll'[p].limit
  <2>1. /\ mem[Server][j].status # "absent" /\ Server \in open
        /\ poll'[p].job = j /\ poll'[p].limit = mem[Server][j].maxAttempts
    BY <1>2 DEF PollClaim, ServerFree, ClaimJob, CanClaim, WorkerInv, WorkerTypeOK
  <2>2. QED
    BY <1>1, <2>1, LimitsFixed DEF WorkerInv
<1>3. CASE poll[p].at # "idle" /\ poll'[p].job = poll[p].job /\ poll'[p].limit = poll[p].limit
  <2>1. poll[p].job \in Jobs /\ Server \in open
    BY <1>3 DEF WorkerInv, PollsWellFormed, FlowInv, InFlight
  <2>2. QED
    BY <1>1, <1>3, <2>1, LimitsFixed DEF WorkerInv, LimitsAgree
<1>4. QED
  BY <1>2, <1>3, SnapshotKept

\* Before the first crash, a failed job without a pending retry is owed none.
NothingOwed == crashes = 0 => \A j \in Jobs : ~Retryable(Job(j))
NobodyRetries == \A p \in Polls : poll[p].at # "retry"

\* Nothing is owed after an operation that leaves a record no retry is owed to.
LEMMA OwesNothing ==
  ASSUME WorkerInv, NothingOwed, crashes' = crashes, NEW j \in Jobs, NEW job,
         Publish(Server, j, job), ~Retryable(job)
  PROVE  NothingOwed'
<1>1. \A k \in Jobs : Job(k)' = IF k = j THEN job ELSE Job(k)
  BY WorkerAssumption DEF Publish, Job, WorkerInv, StoreInv, StoreTypeOK
<1>2. QED
  BY <1>1 DEF NothingOwed, Retryable

\* An operation of the server other than a failure that can be retried does that.
LEMMA HarmlessOperations ==
  ASSUME WorkerInv, NothingOwed, crashes' = crashes, NEW j \in Jobs,
         \/ CreateJob(Server, j)
         \/ ClaimJob(Server, j)
         \/ StartJob(Server, j)
         \/ CompleteJob(Server, j)
         \/ FailJob(Server, j, "final")
         \/ CancelJob(Server, j)
         \/ RetryJob(Server, j)
         \/ \E action \in ReviewActions : ReviewJob(Server, j, action)
  PROVE  NothingOwed'
<1>0. Job(j) \in JobRecords
  BY WorkerAssumption DEF Job, WorkerInv, StoreInv, StoreTypeOK
<1>. USE <1>0, OwesNothing DEF Update, Retryable, CanRetry, JobRecords
<1>1. CASE CreateJob(Server, j)
  BY <1>1 DEF CreateJob, Created, Absent
<1>2. CASE ClaimJob(Server, j)
  BY <1>2 DEF ClaimJob, Claimed, Job
<1>3. CASE StartJob(Server, j)
  BY <1>3 DEF StartJob, Started, Job
<1>4. CASE CompleteJob(Server, j)
  BY <1>4 DEF CompleteJob, Completed, Job
<1>5. CASE FailJob(Server, j, "final")
  BY <1>5 DEF FailJob, Failed, Job
<1>6. CASE CancelJob(Server, j)
  BY <1>6 DEF CancelJob, Cancelled, Job
<1>7. CASE RetryJob(Server, j)
  BY <1>7 DEF RetryJob, Retried, Job
<1>8. ASSUME NEW action \in ReviewActions, ReviewJob(Server, j, action)
      PROVE  NothingOwed'
  <2>1. ~Retryable(Reviewed(Job(j), action))
    BY DEF Reviewed, ReviewActions, RequeueActions
  <2>2. Publish(Server, j, Reviewed(Job(j), action))
    BY <1>8 DEF ReviewJob, Job
  <2>3. QED
    BY <2>1, <2>2, OwesNothing
<1>9. QED
  BY <1>1, <1>2, <1>3, <1>4, <1>5, <1>6, <1>7, <1>8

\* Where nobody retries, the decision is exact if nothing is owed.
LEMMA QuietIsExact == (NobodyRetries => (RetryDecisionExact <=> NothingOwed))'
BY DEF NobodyRetries, RetryDecisionExact, NothingOwed, Retryable

\* The steps of poll() outside of the catch block and the retry.
LEMMA PollStepOwesNothing ==
  ASSUME DiskMayFail = FALSE, WorkerInv, NobodyRetries, NothingOwed,
         NEW p \in Polls, PollStep(p), ~PollCatch(p)
  PROVE  RetryDecisionExact'
<1>. USE WorkerAssumption DEF WorkerInv, WorkerTypeOK
<1>1. crashes' = crashes
  BY DEF PollStep, PollClaim, PollStart, PollStartThrows, PollSucceeds, PollRejects, PollThrows,
       PollCatch, PollRetry
<1>2. poll[p].at # "idle" => poll[p].job \in Jobs
  BY DEF PollsWellFormed
<1>3. NobodyRetries'
  <2>1. \/ \E r : r.at # "retry" /\ poll' = [poll EXCEPT ![p] = r]
        \/ \E at \in {"await", "catch"} : \E e : Advance(p, at, e)
    BY DEF NobodyRetries, PollStep, PollClaim, PollStart, PollStartThrows, PollSucceeds, PollRejects,
         PollThrows, PollRetry, SettleRefused, Finish, Abandon, NoPoll
  <2>2. QED
    BY <2>1 DEF NobodyRetries, Advance, PollRecords
<1>4. NothingOwed'
  <2>1. ASSUME UNCHANGED storeVars
        PROVE  NothingOwed'
    BY <1>1, <2>1 DEF NothingOwed, Job, storeVars
  <2>2. ASSUME NEW j \in Jobs, PollClaim(p, j)
        PROVE  NothingOwed'
    BY <1>1, <2>2, HarmlessOperations DEF PollClaim
  <2>3. CASE PollStart(p)
    BY <1>1, <1>2, <2>3, HarmlessOperations DEF PollStart
  <2>4. CASE PollSucceeds(p)
    BY <1>1, <1>2, <2>1, <2>4, HarmlessOperations DEF PollSucceeds, SettleRefused
  <2>5. CASE PollRejects(p)
    BY <1>1, <1>2, <2>1, <2>5, HarmlessOperations DEF PollRejects, SettleRefused
  <2>6. CASE PollStartThrows(p) \/ PollThrows(p)
    BY <2>1, <2>6 DEF PollStartThrows, PollThrows
  <2>7. QED
    BY <2>2, <2>3, <2>4, <2>5, <2>6 DEF PollStep, PollRetry, NobodyRetries
<1>5. QED
  BY <1>3, <1>4, QuietIsExact

\* The catch block decides as the store would: the record is the one the
\* snapshot was taken of.
LEMMA CatchIsExact ==
  ASSUME DiskMayFail = FALSE, WorkerInv, FlowInv, LimitsAgree, NothingOwed,
         NEW p \in Polls, PollCatch(p)
  PROVE  RetryDecisionExact'
<1>. DEFINE j == poll[p].job
<1>1. /\ j \in Jobs /\ Job(j) \in JobRecords /\ poll[p].at = "catch" /\ crashes' = crashes
      /\ poll[p] \in PollRecords
  BY WorkerAssumption DEF PollCatch, WorkerInv, WorkerTypeOK, PollsWellFormed, StoreInv, StoreTypeOK, Job
<1>2. \A q \in Polls \ {p} : poll[q].at = "idle" /\ poll'[q] = poll[q]
  <2>1. \A q \in Polls \ {p} : poll[q].at = "idle"
    BY <1>1 DEF FlowInv, SingleExecution, InFlight
  <2>2. \A q \in Polls \ {p} : poll'[q] = poll[q]
    BY DEF PollCatch, SettleRefused, Finish, Abandon, Advance, WorkerInv, WorkerTypeOK
  <2>3. QED
    BY <2>1, <2>2
<1>3. ASSUME Finish(p)
      PROVE  NobodyRetries'
  BY <1>2, <1>3 DEF NobodyRetries, Finish, NoPoll, WorkerInv, WorkerTypeOK
<1>4. CASE UNCHANGED storeVars /\ Finish(p)
  <2>1. NothingOwed'
    BY <1>1, <1>4 DEF NothingOwed, Job, storeVars
  <2>2. QED
    BY <1>3, <1>4, <2>1, QuietIsExact
<1>5. CASE /\ poll[p].error # "unstorable"
           /\ FailJob(Server, j, poll[p].error)
           /\ IF ShouldRetry(p) THEN Advance(p, "retry", poll[p].error) ELSE Finish(p)
  <2>. DEFINE job == Failed(Job(j), poll[p].error)
  <2>1. CanSettle(Job(j)) /\ Publish(Server, j, job)
    BY <1>5 DEF FailJob, Update, Job
  <2>2. Job(j).attempt = poll[p].attempt /\ Job(j).maxAttempts = poll[p].limit
    BY <1>1, <2>1 DEF CanSettle, FlowInv, PollAgrees, LimitsAgree
  <2>3. /\ job.status = "failed" /\ job.error = poll[p].error
        /\ job.attempt = poll[p].attempt /\ job.maxAttempts = poll[p].limit
    BY <1>1, <2>2 DEF Failed, JobRecords
  <2>4. poll[p].attempt \in Nat /\ poll[p].limit \in Nat
    BY <1>1 DEF PollRecords
  <2>5. \A k \in Jobs : Job(k)' = IF k = j THEN job ELSE Job(k)
    BY <2>1, <1>1, WorkerAssumption DEF Publish, Job, WorkerInv, StoreInv, StoreTypeOK
  <2>. HIDE DEF job
  <2>6. CASE ShouldRetry(p)
    <3>1. poll'[p].at = "retry" /\ poll'[p].job = j
      BY <1>5, <2>6 DEF Advance, WorkerInv, WorkerTypeOK, PollRecords
    <3>2. CanRetry(job)
      BY <2>3, <2>4, <2>6 DEF ShouldRetry, CanRetry
    <3>3. ASSUME NEW q \in Polls, poll'[q].at = "retry"
          PROVE  CanRetry(mem'[Server][poll'[q].job])
      <4>1. poll'[q].job = j
        BY <1>2, <3>1, <3>3
      <4>2. mem'[Server][j] = job
        BY <1>1, <2>5 DEF Job
      <4>3. QED
        BY <3>2, <4>1, <4>2
    <3>4. \A k \in Jobs : crashes = 0 /\ k # j => ~Retryable(Job(k)')
      BY <2>5 DEF NothingOwed
    <3>5. QED
      BY <1>1, <3>1, <3>3, <3>4 DEF RetryDecisionExact, Retryable, Job
  <2>7. CASE ~ShouldRetry(p)
    <3>1. ~Retryable(job)
      BY <2>3, <2>4, <2>7 DEF ShouldRetry, CanRetry, Retryable
    <3>2. NothingOwed'
      BY <1>1, <2>1, <3>1, OwesNothing DEF job
    <3>3. QED
      BY <1>3, <1>5, <2>7, <3>2, QuietIsExact
  <2>8. QED
    BY <2>6, <2>7
<1>6. QED
  BY <1>4, <1>5 DEF PollCatch, SettleRefused

\* The retry is accepted, and was the only one owed.
LEMMA RetryIsExact ==
  ASSUME DiskMayFail = FALSE, WorkerInv, FlowInv, RetryDecisionExact,
         NEW p \in Polls, PollRetry(p)
  PROVE  RetryDecisionExact'
<1>. DEFINE j == poll[p].job
<1>1. /\ j \in Jobs /\ Job(j) \in JobRecords /\ poll[p].at = "retry" /\ crashes' = crashes
  BY WorkerAssumption DEF PollRetry, WorkerInv, WorkerTypeOK, PollsWellFormed, StoreInv, StoreTypeOK, Job
<1>2. RetryJob(Server, j) /\ Finish(p)
  BY <1>1 DEF PollRetry, RetryDecisionExact
<1>3. \A q \in Polls \ {p} : poll[q].at = "idle"
  BY <1>1 DEF FlowInv, SingleExecution, InFlight
<1>4. NobodyRetries'
  BY <1>2, <1>3 DEF NobodyRetries, Finish, NoPoll, WorkerInv, WorkerTypeOK
<1>5. \A k \in Jobs : Job(k)' = IF k = j THEN Retried(Job(j)) ELSE Job(k)
  BY <1>1, <1>2, WorkerAssumption DEF RetryJob, Update, Publish, Job, WorkerInv, StoreInv, StoreTypeOK
<1>6. Retried(Job(j)).status = "queued"
  BY <1>1 DEF Retried, JobRecords
<1>7. \A k \in Jobs \ {j} : crashes = 0 => ~Retryable(Job(k))
  BY <1>3 DEF RetryDecisionExact, Retryable
<1>8. NothingOwed'
  BY <1>1, <1>5, <1>6, <1>7 DEF NothingOwed, Retryable, CanRetry
<1>9. QED
  BY <1>4, <1>8, QuietIsExact

\* Every step keeps the decision exact.
LEMMA ExactStep ==
  ASSUME DiskMayFail = FALSE, WorkerInv, FlowInv, RetryInv, [Next]_vars
  PROVE  RetryDecisionExact'
<1>. USE DEF RetryInv
<1>1. NobodyRetries => NothingOwed
  BY DEF NobodyRetries, NothingOwed, RetryDecisionExact, Retryable
<1>2. ASSUME NEW p \in Polls, PollStep(p)
      PROVE  RetryDecisionExact'
  <2>1. CASE NobodyRetries
    BY <1>1, <1>2, <2>1, PollStepOwesNothing, CatchIsExact
  <2>2. CASE ~NobodyRetries
    <3>1. PICK q \in Polls : poll[q].at = "retry"
      BY <2>2 DEF NobodyRetries
    <3>2. LoopHeld /\ isProcessing
      BY <3>1 DEF LoopHeld, FlowInv, SingleExecution, InFlight
    <3>3. poll[p].at # "idle"
      BY <1>2, <3>2 DEF PollStep, PollClaim, PollStart, PollStartThrows, PollSucceeds, PollRejects,
           PollThrows, PollCatch, PollRetry, ServerFree
    <3>4. p = q
      BY <3>1, <3>3 DEF FlowInv, SingleExecution, InFlight
    <3>5. PollRetry(p)
      BY <1>2, <3>1, <3>2, <3>4 DEF PollStep, PollClaim, PollStart, PollStartThrows, PollSucceeds,
           PollRejects, PollThrows, PollCatch, ServerFree
    <3>6. QED
      BY <3>5, RetryIsExact
  <2>3. QED
    BY <2>1, <2>2
<1>3. ASSUME NEW j \in Jobs, RequestStep(j)
      PROVE  RetryDecisionExact'
  <2>1. /\ NobodyRetries /\ NobodyRetries' /\ crashes' = crashes
    BY <1>3 DEF RequestStep, PostJob, PostCancel, PostRetry, PostReview, workerVars, ServerFree,
         LoopHeld, NobodyRetries
  <2>2. NothingOwed'
    BY <1>1, <1>3, <2>1, HarmlessOperations DEF RequestStep, PostJob, PostCancel, PostRetry, PostReview
  <2>3. QED
    BY <2>1, <2>2, QuietIsExact
<1>4. ASSUME poll' = poll, crashes' = crashes,
             \A j \in Jobs : /\ CanRetry(Job(j)') <=> CanRetry(Job(j))
                             /\ Job(j)'.error = Job(j).error
      PROVE  RetryDecisionExact'
  BY <1>4 DEF RetryDecisionExact, WorkerInv, PollsWellFormed, Job
<1>5. CASE Clock
  <2>1. \A j \in Jobs : Job(j)' = Aged(Job(j)) /\ Job(j) \in JobRecords
    BY <1>5, WorkerAssumption DEF Clock, Tick, Job, WorkerInv, StoreInv, StoreTypeOK
  <2>2. \A r \in JobRecords : /\ Aged(r).status = r.status /\ Aged(r).attempt = r.attempt
                              /\ Aged(r).maxAttempts = r.maxAttempts /\ Aged(r).error = r.error
    BY DEF Aged, JobRecords
  <2>3. poll' = poll /\ crashes' = crashes
    BY <1>5 DEF Clock, workerVars
  <2>4. QED
    BY <1>4, <2>1, <2>2, <2>3 DEF CanRetry
<1>6. CASE StartWorker \/ StopWorker \/ UNCHANGED vars
  <2>1. UNCHANGED <<storeVars, poll, crashes>>
    BY <1>6 DEF StartWorker, StopWorker, vars, workerVars
  <2>2. QED
    BY <1>4, <2>1 DEF storeVars, Job
<1>7. CASE Boot
  <2>1. /\ Server \notin open /\ poll' = poll /\ crashes' = crashes
        /\ \A j \in Jobs : mem'[Server][j] = disk[j]
    BY <1>7, WorkerAssumption DEF Boot, OpenStore, workerVars, WorkerInv, StoreInv, StoreTypeOK
  <2>2. NobodyRetries'
    BY <2>1 DEF NobodyRetries, FlowInv, InFlight
  <2>3. NothingOwed'
    BY <2>1 DEF FirstBootIsEmpty, NothingOwed, Retryable, CanRetry, Job
  <2>4. QED
    BY <2>2, <2>3, QuietIsExact
<1>8. CASE Crash
  <2>1. crashes' # 0 /\ NobodyRetries'
    BY <1>8, IdlePolls DEF Crash, NobodyRetries, WorkerInv, WorkerTypeOK
  <2>2. QED
    BY <2>1, QuietIsExact DEF NothingOwed
<1>9. QED
  BY <1>2, <1>3, <1>5, <1>6, <1>7, <1>8 DEF Next

\* A server that is not up writes nothing, and after a crash the rest is void.
LEMMA FirstBootStep ==
  ASSUME WorkerInv, FlowInv, FirstBootIsEmpty, [Next]_vars
  PROVE  FirstBootIsEmpty'
<1>. SUFFICES ASSUME crashes' = 0, Server \notin open', NEW j \in Jobs
              PROVE  disk'[j].status = "absent"
  BY DEF FirstBootIsEmpty
<1>. USE DEF FirstBootIsEmpty
<1>1. ASSUME NEW p \in Polls, PollStep(p)
      PROVE  FALSE
  BY <1>1 DEF PollStep, PollClaim, PollStart, PollStartThrows, PollSucceeds, PollRejects, PollThrows,
       PollCatch, PollRetry, SettleRefused, ServerFree, ClaimJob, StartJob, CompleteJob, FailJob,
       RetryJob, Update, Publish, storeVars, FlowInv, InFlight
<1>2. ASSUME NEW k \in Jobs, RequestStep(k)
      PROVE  FALSE
  BY <1>2 DEF RequestStep, PostJob, PostCancel, PostRetry, PostReview, ServerFree, CreateJob,
       CancelJob, RetryJob, ReviewJob, Update, Publish
<1>3. CASE Boot
  BY <1>3 DEF Boot, OpenStore
<1>4. CASE Crash
  BY <1>4 DEF Crash, WorkerInv, WorkerTypeOK
<1>5. CASE Clock
  <2>1. disk'[j] = Aged(disk[j]) /\ disk[j] \in JobRecords /\ crashes = 0 /\ Server \notin open
    BY <1>5 DEF Clock, Tick, WorkerInv, StoreInv, StoreTypeOK
  <2>2. Aged(disk[j]).status = disk[j].status
    BY <2>1 DEF Aged, JobRecords
  <2>3. QED
    BY <2>1, <2>2
<1>6. CASE StartWorker \/ StopWorker \/ UNCHANGED vars
  BY <1>6 DEF StartWorker, StopWorker, vars, storeVars
<1>7. QED
  BY <1>1, <1>2, <1>3, <1>4, <1>5, <1>6 DEF Next

\* In a program that does not call stop(), on a disk that takes its writes, the
\* decision taken on the snapshot before the claim is the store's: no retry is
\* tried in vain and none is forgotten.
THEOREM RetryStaysExact ==
  ASSUME MayStop = FALSE, DiskMayFail = FALSE
  PROVE  Spec => []RetryDecisionExact
<1>1. Init => RetryInv
  BY WorkerAssumption
     DEF Init, StoreInit, NoPoll, Absent, RetryInv, LimitsAgree, FirstBootIsEmpty,
         RetryDecisionExact, CanRetry, Job
<1>2. WorkerInv /\ FlowInv /\ RetryInv /\ [Next]_vars => WorkerInv' /\ FlowInv' /\ RetryInv'
  BY WorkerInvStep, FlowStep, LimitsStep, ExactStep, FirstBootStep DEF RetryInv
<1>3. RetryInv => RetryDecisionExact
  BY DEF RetryInv
<1>4. QED
  BY <1>1, <1>2, <1>3, WorkerInvInit, FlowInit, PTL DEF Spec

---------------------------------------------------------------------------
(* What the documents promise, and when they are right.                    *)

\* What has been claimed or runs is in the hands of an invocation, until the
\* server goes down.
Attended ==
  crashes = 0 => \A j \in Jobs :
    /\ Job(j).status = "claimed" => \E p \in Polls : poll[p].at = "start" /\ poll[p].job = j
    /\ Job(j).status = "running" =>
         \E p \in Polls : poll[p].at \in {"await", "catch"} /\ poll[p].job = j

Storable == \A p \in Polls : poll[p].error # "unstorable"

\* The only error the store refuses is a callback's.
LEMMA StorableStep ==
  ASSUME MayThrowUnstorable = FALSE, WorkerInv, Storable, [Next]_vars
  PROVE  Storable'
<1>. USE DEF Storable, WorkerInv, WorkerTypeOK
<1>1. ASSUME NEW p \in Polls, PollStep(p), NEW q \in Polls
      PROVE  poll'[q].error # "unstorable"
  <2>. NoPoll.error = "none"
    BY DEF NoPoll
  <2>1. ASSUME NEW at, NEW e, e # "unstorable", Advance(p, at, e)
        PROVE  poll'[q].error # "unstorable"
    BY <2>1 DEF Advance, PollRecords
  <2>2. ASSUME Finish(p) \/ Abandon(p)
        PROVE  poll'[q].error # "unstorable"
    BY <2>2 DEF Finish, Abandon
  <2>3. ASSUME NEW j \in Jobs, PollClaim(p, j)
        PROVE  poll'[q].error # "unstorable"
    BY <2>3 DEF PollClaim
  <2>4. CASE PollThrows(p)
    BY <2>1, <2>4 DEF PollThrows, ThrownErrors
  <2>5. CASE PollStart(p) \/ PollStartThrows(p) \/ PollSucceeds(p) \/ PollRejects(p)
    BY <2>1, <2>2, <2>5 DEF PollStart, PollStartThrows, PollSucceeds, PollRejects, SettleRefused
  <2>6. CASE PollCatch(p) \/ PollRetry(p)
    BY <2>1, <2>2, <2>6 DEF PollCatch, PollRetry, SettleRefused
  <2>7. QED
    BY <1>1, <2>3, <2>4, <2>5, <2>6 DEF PollStep
<1>2. CASE Crash
  BY <1>2 DEF Crash, NoPoll
<1>3. ASSUME ~Crash, \A p \in Polls : ~PollStep(p)
      PROVE  poll' = poll
  BY <1>3 DEF Next, RequestStep, PostJob, PostCancel, PostRetry, PostReview, Boot, StartWorker,
              StopWorker, Clock, workerVars, vars
<1>4. QED
  BY <1>1, <1>2, <1>3

\* One record of the server changes, and at most one invocation: if it leaves
\* that record attended, all are.
LEMMA AttendedPublish ==
  ASSUME WorkerInv, FlowInv, Attended, crashes' = crashes, NEW p \in Polls, PollStep(p),
         \A j \in Jobs : ~PollClaim(p, j), NEW job,
         \A k \in Jobs : Job(k)' = IF k = poll[p].job THEN job ELSE Job(k),
         crashes = 0 =>
           /\ job.status # "claimed"
           /\ job.status = "running" => poll'[p].at \in {"await", "catch"} /\ poll'[p].job = poll[p].job
  PROVE  Attended'
<1>. USE DEF FlowInv, SingleExecution, InFlight
<1>1. poll[p].at # "idle"
  BY DEF PollStep, PollStart, PollStartThrows, PollSucceeds, PollRejects, PollThrows, PollCatch, PollRetry
<1>. SUFFICES ASSUME crashes = 0, NEW k \in Jobs, Job(k)'.status \in {"claimed", "running"}
              PROVE  /\ Job(k)'.status = "running"
                     /\ \E q \in Polls : poll'[q].at \in {"await", "catch"} /\ poll'[q].job = k
  BY DEF Attended
<1>2. k = poll[p].job
  BY <1>1 DEF Attended
<1>3. QED
  BY <1>2

\* A step of poll() on a disk that takes its writes.
LEMMA PollStepAttended ==
  ASSUME DiskMayFail = FALSE, WorkerInv, FlowInv, Storable, Attended, NEW p \in Polls, PollStep(p)
  PROVE  Attended'
<1>. USE DEF WorkerInv, WorkerTypeOK
<1>0. crashes' = crashes /\ (poll[p].at # "idle" => poll[p].job \in Jobs)
  BY DEF PollStep, PollClaim, PollStart, PollStartThrows, PollSucceeds, PollRejects, PollThrows,
         PollCatch, PollRetry, SettleRefused, PollsWellFormed
<1>1. ASSUME NEW j \in Jobs, PollClaim(p, j)
      PROVE  Attended'
  <2>1. poll'[p].at = "start" /\ poll'[p].job = j
    BY <1>1 DEF PollClaim
  <2>2. \A k \in Jobs : Job(k)' = IF k = j THEN Claimed(Job(j), Server) ELSE Job(k)
    BY <1>1, ServerPublish DEF PollClaim, ClaimJob, Job
  <2>3. Claimed(Job(j), Server).status = "claimed"
    BY WorkerAssumption DEF Claimed, Job, StoreInv, StoreTypeOK, JobRecords
  <2>4. InFlight = {}
    BY <1>1 DEF PollClaim, FlowInv, SingleExecution
  <2>5. crashes = 0 => \A k \in Jobs : Job(k).status \notin {"claimed", "running"}
    BY <2>4 DEF Attended, InFlight
  <2>6. QED
    BY <1>0, <2>1, <2>2, <2>3, <2>5 DEF Attended
<1>. SUFFICES ASSUME \A j \in Jobs : ~PollClaim(p, j)
              PROVE  Attended'
  BY <1>1
<1>. DEFINE j == poll[p].job
<1>2. poll[p].at # "idle" /\ j \in Jobs
  BY <1>0 DEF PollStep, PollStart, PollStartThrows, PollSucceeds, PollRejects, PollThrows, PollCatch, PollRetry
<1>3. Job(j) \in JobRecords
  BY <1>2, WorkerAssumption DEF Job, StoreInv, StoreTypeOK
<1>4. ASSUME NEW job, Update(Server, j, job), job.status \notin {"claimed", "running"}
      PROVE  Attended'
  BY <1>0, <1>2, <1>4, AttendedPublish, ServerPublish
<1>5. ASSUME UNCHANGED storeVars, crashes = 0 => Job(j).status # "claimed",
             \/ crashes = 0 => Job(j).status # "running"
             \/ poll'[p].at \in {"await", "catch"} /\ poll'[p].job = j
      PROVE  Attended'
  <2>1. \A k \in Jobs : Job(k)' = IF k = j THEN Job(j) ELSE Job(k)
    BY <1>5 DEF storeVars, Job
  <2>2. QED
    BY <1>0, <1>2, <1>5, <2>1, AttendedPublish
<1>6. crashes = 0 =>
        /\ Job(j).status = "claimed" => poll[p].at = "start"
        /\ Job(j).status = "running" => poll[p].at \in {"await", "catch"}
  BY <1>2 DEF Attended, FlowInv, SingleExecution, InFlight
<1>7. CASE PollStart(p)
  <2>1. poll'[p].at = "await" /\ poll'[p].job = j
    BY <1>7 DEF PollStart, Advance, PollRecords
  <2>2. \A k \in Jobs : Job(k)' = IF k = j THEN Started(Job(j)) ELSE Job(k)
    BY <1>2, <1>7, ServerPublish DEF PollStart, StartJob, Job
  <2>3. Started(Job(j)).status = "running"
    BY <1>3 DEF Started, JobRecords
  <2>4. QED
    BY <1>0, <2>1, <2>2, <2>3, AttendedPublish
<1>8. CASE PollStartThrows(p)
  BY <1>8 DEF PollStartThrows
<1>9. ASSUME poll[p].at \in {"await", "catch"}, SettleRefused(p)
      PROVE  Attended'
  BY <1>5, <1>6, <1>9 DEF SettleRefused, CanSettle
<1>10. CASE PollSucceeds(p)
  <2>1. Completed(Job(j)).status = "completed"
    BY <1>3 DEF Completed, JobRecords
  <2>2. QED
    BY <1>4, <1>9, <1>10, <2>1 DEF PollSucceeds, CompleteJob, Job
<1>11. \A e : Failed(Job(j), e).status = "failed"
  BY <1>3 DEF Failed, JobRecords
<1>12. CASE PollRejects(p)
  BY <1>4, <1>9, <1>11, <1>12 DEF PollRejects, FailJob, Job
<1>13. CASE PollThrows(p)
  <2>1. poll'[p].at = "catch" /\ poll'[p].job = j /\ UNCHANGED storeVars /\ poll[p].at = "await"
    BY <1>13 DEF PollThrows, Advance, PollRecords
  <2>2. QED
    BY <1>5, <1>6, <2>1
<1>14. CASE PollCatch(p)
  BY <1>4, <1>9, <1>11, <1>14 DEF PollCatch, FailJob, Job, Storable
<1>15. CASE PollRetry(p)
  <2>1. Retried(Job(j)).status = "queued"
    BY <1>3 DEF Retried, JobRecords
  <2>2. poll[p].at = "retry"
    BY <1>15 DEF PollRetry
  <2>3. QED
    BY <1>4, <1>5, <1>6, <1>15, <2>1, <2>2 DEF PollRetry, RetryJob, Job
<1>16. QED
  BY <1>7, <1>8, <1>10, <1>12, <1>13, <1>14, <1>15 DEF PollStep

\* What requests, the clock and the server's own start leave attended.
LEMMA AttendedStep ==
  ASSUME DiskMayFail = FALSE, WorkerInv, FlowInv, FirstBootIsEmpty, Storable, Attended, [Next]_vars
  PROVE  Attended'
<1>. USE DEF WorkerInv, WorkerTypeOK
<1>1. ASSUME NEW p \in Polls, PollStep(p)
      PROVE  Attended'
  BY <1>1, PollStepAttended
<1>2. ASSUME UNCHANGED <<poll, crashes>>,
             \A k \in Jobs : \/ Job(k)'.status = Job(k).status
                             \/ Job(k)'.status \notin {"claimed", "running"}
      PROVE  Attended'
  BY <1>2 DEF Attended
<1>3. ASSUME NEW j \in Jobs, RequestStep(j)
      PROVE  Attended'
  <2>. USE WorkerAssumption
  <2>1. UNCHANGED <<poll, crashes>>
    BY <1>3 DEF RequestStep, PostJob, PostCancel, PostRetry, PostReview, workerVars
  <2>2. Job(j) \in JobRecords
    BY DEF Job, StoreInv, StoreTypeOK
  <2>3. CASE PostJob(j)
    <3>1. PICK limit \in AttemptLimits : Publish(Server, j, Created(limit))
      BY <2>3 DEF PostJob, CreateJob
    <3>2. Created(limit).status = "queued"
      BY DEF Created, Absent
    <3>3. \A k \in Jobs : mem'[Server][k] = IF k = j THEN Created(limit) ELSE mem[Server][k]
      BY <3>1 DEF Publish, StoreInv, StoreTypeOK
    <3>4. QED
      BY <1>2, <2>1, <3>2, <3>3 DEF Job
  <2>4. ASSUME NEW job, Update(Server, j, job), job.status \notin {"claimed", "running"}
        PROVE  Attended'
    BY <1>2, <2>1, <2>4, ServerPublish
  <2>5. /\ Cancelled(Job(j)).status = "cancelled" /\ Retried(Job(j)).status = "queued"
        /\ \A action \in ReviewActions : Reviewed(Job(j), action).status \notin {"claimed", "running"}
    BY <2>2 DEF Cancelled, Retried, Reviewed, ReviewActions, RequeueActions, JobRecords
  <2>6. CASE PostCancel(j) \/ PostRetry(j) \/ \E action \in ReviewActions : PostReview(j, action)
    BY <2>4, <2>5, <2>6 DEF PostCancel, PostRetry, PostReview, CancelJob, RetryJob, ReviewJob, Job
  <2>7. QED
    BY <1>3, <2>3, <2>6 DEF RequestStep
<1>4. CASE Clock
  <2>1. UNCHANGED <<poll, crashes>>
    BY <1>4 DEF Clock, workerVars
  <2>2. \A k \in Jobs : Job(k)' = Aged(Job(k)) /\ Job(k) \in JobRecords
    BY <1>4, WorkerAssumption DEF Clock, Tick, Job, StoreInv, StoreTypeOK
  <2>3. \A r \in JobRecords : Aged(r).status = r.status
    BY DEF Aged, JobRecords
  <2>4. QED
    BY <1>2, <2>1, <2>2, <2>3
<1>5. CASE Boot
  <2>1. UNCHANGED <<poll, crashes>> /\ Server \notin open
    BY <1>5 DEF Boot, OpenStore, workerVars
  <2>2. \A k \in Jobs : Job(k)' = disk[k]
    BY <1>5, WorkerAssumption DEF Boot, OpenStore, Job, StoreInv, StoreTypeOK
  <2>3. QED
    BY <2>1, <2>2 DEF Attended, FirstBootIsEmpty
<1>6. CASE Crash
  BY <1>6 DEF Crash, Attended
<1>7. CASE StartWorker \/ StopWorker \/ UNCHANGED vars
  BY <1>2, <1>7 DEF StartWorker, StopWorker, vars, workerVars, storeVars, Job
<1>8. QED
  BY <1>1, <1>3, <1>4, <1>5, <1>6, <1>7 DEF Next

\* Until the server first goes down, every job that is claimed or running is in
\* the hands of the worker, so what the operator guide says of interrupted jobs
\* is void: nothing is left to be flagged.  Only a crash, a write that fails, an
\* error the store refuses, or a stop() the server never calls can break this.
THEOREM NothingInterruptedUntilCrash ==
  ASSUME MayStop = FALSE, DiskMayFail = FALSE, MayThrowUnstorable = FALSE
  PROVE  Spec => [](Attended /\ (crashes = 0 => InterruptedIsFlagged))
<1>1. Init => FirstBootIsEmpty /\ Storable /\ Attended
  BY WorkerAssumption
     DEF Init, StoreInit, NoPoll, Absent, FirstBootIsEmpty, Storable, Attended, Job
<1>2. WorkerInv /\ FlowInv /\ FirstBootIsEmpty /\ Storable /\ Attended /\ [Next]_vars
      => WorkerInv' /\ FlowInv' /\ FirstBootIsEmpty' /\ Storable' /\ Attended'
  BY WorkerInvStep, FlowStep, FirstBootStep, StorableStep, AttendedStep
<1>3. Attended => (crashes = 0 => InterruptedIsFlagged)
  BY DEF Attended, InterruptedIsFlagged, InFlight
<1>4. QED
  BY <1>1, <1>2, <1>3, WorkerInvInit, FlowInit, PTL DEF Spec

\* An execution that threw leaves its job failed, whatever else happens
\* (next-agent-brief.md), if the store takes the error and the disk the write and
\* the server stays up.
THEOREM FailuresRecordedOtherwise ==
  ASSUME DiskMayFail = FALSE, MayThrowUnstorable = FALSE, MaxCrashes = 0
  PROVE  Spec => FailureIsRecorded
<1>. DEFINE Recorded ==
       \A p \in Polls :
         poll[p].at = "catch" /\ CanSettle(Job(poll[p].job)) /\ poll'[p].at # "catch"
           => disk'[poll[p].job].status = "failed"
<1>1. ASSUME WorkerInv, Storable, [Next]_vars PROVE Recorded
  <2>. USE DEF WorkerInv, WorkerTypeOK
  <2>. SUFFICES ASSUME NEW p \in Polls, poll[p].at = "catch", CanSettle(Job(poll[p].job)),
                       poll'[p].at # "catch"
                PROVE  disk'[poll[p].job].status = "failed"
    OBVIOUS
  <2>1. ~Crash
    BY <1>1 DEF Crash
  <2>2. PICK q \in Polls : PollStep(q)
    BY <1>1, <2>1 DEF Next, RequestStep, PostJob, PostCancel, PostRetry, PostReview, Boot, StartWorker,
                StopWorker, Clock, workerVars, vars
  <2>3. q = p
    BY <1>1, <2>2 DEF PollStep, PollClaim, PollStart, PollStartThrows, PollSucceeds, PollRejects,
                PollThrows, PollCatch, PollRetry, SettleRefused, Finish, Abandon, Advance
  <2>4. PollCatch(p)
    BY <2>2, <2>3 DEF PollStep, PollClaim, PollStart, PollStartThrows, PollSucceeds, PollRejects,
                      PollThrows, PollRetry
  <2>5. FailJob(Server, poll[p].job, poll[p].error) /\ poll[p].job \in Jobs
    BY <1>1, <2>4 DEF PollCatch, SettleRefused, Storable, PollsWellFormed
  <2>6. disk'[poll[p].job] = Failed(Job(poll[p].job), poll[p].error) /\ Job(poll[p].job) \in JobRecords
    BY <1>1, <2>5, WorkerAssumption DEF FailJob, Update, Publish, Job, StoreInv, StoreTypeOK
  <2>7. QED
    BY <2>6 DEF Failed, JobRecords
<1>2. Init => Storable
  BY DEF Init, NoPoll, Storable
<1>3. WorkerInv /\ Storable /\ [Next]_vars => WorkerInv' /\ Storable' /\ Recorded
  BY <1>1, WorkerInvStep, StorableStep
<1>4. QED
  BY <1>2, <1>3, WorkerInvInit, PTL DEF Spec, FailureIsRecorded

===========================================================================
