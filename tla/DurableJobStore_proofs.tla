---------------------- MODULE DurableJobStore_proofs ----------------------
(***************************************************************************)
(* What DurableJobStore promises for any number of jobs, of processes on   *)
(* the directory and of attempts, and any lease duration.                  *)
(***************************************************************************)
EXTENDS DurableJobStore, FiniteSetTheorems, SequenceTheorems, TLAPS

\* A record of the right shape whose fields agree with its status and whose
\* attempt number is below its limit.
Sound(job) == job \in JobRecords /\ FieldsAgree(job) /\ AttemptsBounded(job)

USE StoreAssumption

\* The null lease is a lease, and a granted lease is not null.
LEMMA LeaseFacts ==
  /\ NoLease \in Leases
  /\ \A s \in Stores, n \in 0..LeaseDuration :
       [holder |-> s, left |-> n] \in Leases /\ [holder |-> s, left |-> n] # NoLease
BY DEF NoLease, Leases

\* An id without a record is sound.
LEMMA AbsentSound == Sound(Absent)
BY LeaseFacts DEF Sound, Absent, JobRecords, Statuses, TerminalStatuses, FieldsAgree, AttemptsBounded

\* Whatever createJob publishes is sound.
LEMMA CreatedSound ==
  ASSUME NEW limit \in AttemptLimits
  PROVE  Sound(Created(limit))
<1>1. limit \in Nat /\ 0 < limit
  OBVIOUS
<1>2. Absent \in JobRecords
  BY AbsentSound DEF Sound
<1>3. Created(limit) \in JobRecords
  BY <1>1, <1>2 DEF Created, JobRecords, Statuses
<1>4. /\ Created(limit).status = "queued" /\ Created(limit).attempt = 0
      /\ Created(limit).maxAttempts = limit /\ Created(limit).lease = NoLease
      /\ Created(limit).error = "none" /\ Created(limit).completedAt = "null"
  BY DEF Created, Absent
<1>5. QED
  BY <1>1, <1>3, <1>4 DEF Sound, TerminalStatuses, FieldsAgree, AttemptsBounded

\* Every operation turns a sound record that passes its guard into a sound one.
LEMMA OperationsSound ==
  ASSUME NEW job, Sound(job), NEW s \in Stores, NEW error \in {"retryable", "final"},
         NEW action \in ReviewActions
  PROVE  /\ CanClaim(job)  => Sound(Claimed(job, s))
         /\ CanStart(job)  => Sound(Started(job))
         /\ CanSettle(job) => Sound(Completed(job)) /\ Sound(Failed(job, error))
         /\ CanCancel(job) => Sound(Cancelled(job))
         /\ CanRetry(job)  => Sound(Retried(job))
         /\ CanReview(job, action) => Sound(Reviewed(job, action))
<1> USE LeaseFacts DEF Sound, JobRecords, Statuses, TerminalStatuses, FieldsAgree, AttemptsBounded
<1>1. CanClaim(job) => Sound(Claimed(job, s))
  <2>1. /\ [holder |-> s, left |-> LeaseDuration] \in Leases
        /\ [holder |-> s, left |-> LeaseDuration] # NoLease
    BY LeaseFacts
  <2>2. QED
    BY <2>1 DEF CanClaim, Claimed
<1>2. CanStart(job) => Sound(Started(job))
  BY DEF CanStart, Started
<1>3. CanSettle(job) => Sound(Completed(job)) /\ Sound(Failed(job, error))
  BY DEF CanSettle, Completed, Failed
<1>4. CanCancel(job) => Sound(Cancelled(job))
  BY DEF CanCancel, Cancelled
<1>5. CanRetry(job) => Sound(Retried(job))
  <2>1. CASE CanRetry(job)
    <3>1. /\ Retried(job).status = "queued" /\ Retried(job).attempt = job.attempt + 1
          /\ Retried(job).maxAttempts = job.maxAttempts /\ Retried(job).lease = NoLease
          /\ Retried(job).error = "none" /\ Retried(job).completedAt = "null"
      BY DEF Retried
    <3>2. job.attempt \in Nat /\ job.maxAttempts \in Nat
      OBVIOUS
    <3>3. job.attempt + 1 \in Nat /\ job.attempt + 1 < job.maxAttempts
      BY <2>1, <3>2 DEF CanRetry
    <3>4. Retried(job) \in JobRecords
      BY <3>3 DEF Retried
    <3>5. QED
      BY <3>1, <3>2, <3>3, <3>4
  <2>2. QED
    BY <2>1
<1>6. CanReview(job, action) => Sound(Reviewed(job, action))
  BY DEF CanReview, Reviewed, ReviewActions, RequeueActions
<1>7. QED
  BY <1>1, <1>2, <1>3, <1>4, <1>5, <1>6

\* The clock changes neither status nor attempt and cannot make a lease null.
LEMMA AgedSound ==
  ASSUME NEW job, Sound(job)
  PROVE  Sound(Aged(job)) 
<1>1. job \in JobRecords /\ job.lease \in Leases /\ job.lease.left \in 0..LeaseDuration
  BY DEF Sound, JobRecords, Leases, NoLease
<1>2. DEFINE left == IF job.lease.left = 0 THEN 0 ELSE job.lease.left - 1
             lease == [job.lease EXCEPT !.left = left]
<1>3. left \in 0..LeaseDuration
  BY <1>1
<1>4. lease \in Leases /\ (lease = NoLease <=> job.lease = NoLease)
  <2>1. CASE job.lease = NoLease
    BY <1>1, <2>1 DEF NoLease, Leases
  <2>2. CASE job.lease \in [holder : Stores, left : 0..LeaseDuration]
    <3>1. lease \in [holder : Stores, left : 0..LeaseDuration]
      BY <1>3, <2>2
    <3>2. job.lease.holder # NoHolder /\ lease.holder # NoHolder
      BY <2>2, <3>1
    <3>3. QED
      BY <3>1, <3>2 DEF NoLease, Leases
  <2>3. QED
    BY <1>1, <2>1, <2>2 DEF Leases
<1>5. Aged(job) = [job EXCEPT !.lease = lease]
  BY DEF Aged
<1>. HIDE DEF lease
<1>6. QED
  BY <1>1, <1>4, <1>5 DEF Sound, JobRecords, FieldsAgree, AttemptsBounded

---------------------------------------------------------------------------
(* Types and records.                                                      *)

\* The inductive invariant: every record in a Map or a file is sound.
StoreInv == StoreTypeOK /\ RecordsConsistent

\* In a state of the invariant every record of every Map and file is sound.
LEMMA StoreInvSound ==
  ASSUME StoreInv
  PROVE  /\ \A j \in Jobs : Sound(disk[j])
         /\ \A s \in Stores, j \in Jobs : Sound(mem[s][j])
BY DEF StoreInv, StoreTypeOK, RecordsConsistent, Sound

\* Publishing a sound record keeps the invariant.
LEMMA PublishSound ==
  ASSUME StoreInv, NEW s \in Stores, NEW j \in Jobs, NEW job, Sound(job),
         Publish(s, j, job), order' \in [Stores -> Seq(Jobs)]
  PROVE  StoreInv'
<1>1. /\ mem' \in [Stores -> [Jobs -> JobRecords]]
      /\ disk' \in [Jobs -> JobRecords]
      /\ open' \subseteq Stores
  BY DEF StoreInv, StoreTypeOK, Publish, Sound
<1>2. ASSUME NEW k \in Jobs
      PROVE  FieldsAgree(disk'[k]) /\ AttemptsBounded(disk'[k])
  <2>1. disk'[k] = IF k = j THEN job ELSE disk[k]
    BY DEF Publish, StoreInv, StoreTypeOK
  <2>2. QED
    BY <2>1 DEF StoreInv, RecordsConsistent, Sound
<1>3. ASSUME NEW t \in Stores, NEW k \in Jobs
      PROVE  FieldsAgree(mem'[t][k]) /\ AttemptsBounded(mem'[t][k])
  <2>1. mem'[t][k] = IF t = s /\ k = j THEN job ELSE mem[t][k]
    BY DEF Publish, StoreInv, StoreTypeOK
  <2>2. QED
    BY <2>1 DEF StoreInv, RecordsConsistent, Sound
<1>4. QED
  BY <1>1, <1>2, <1>3 DEF StoreInv, StoreTypeOK, RecordsConsistent

\* Writing a sound record under a key the Map has keeps the invariant.
LEMMA UpdateSound ==
  ASSUME StoreInv, NEW s \in Stores, NEW j \in Jobs, NEW job, Sound(job), Update(s, j, job)
  PROVE  StoreInv'
BY PublishSound DEF Update, StoreInv, StoreTypeOK

\* Every operation of the store keeps the invariant.
LEMMA OperationKeepsInv ==
  ASSUME StoreInv, NEW s \in Stores, NEW j \in Jobs, JobOperation(s, j)
  PROVE  StoreInv'
<1>1. Sound(mem[s][j])
  BY StoreInvSound
<1>2. CASE CreateJob(s, j)
  <2>1. PICK limit \in AttemptLimits : Publish(s, j, Created(limit))
    BY <1>2 DEF CreateJob
  <2>2. Sound(Created(limit))
    BY CreatedSound
  <2>3. Append(order[s], j) \in Seq(Jobs)
    BY DEF StoreInv, StoreTypeOK
  <2>4. order' \in [Stores -> Seq(Jobs)]
    BY <1>2, <2>3 DEF CreateJob, StoreInv, StoreTypeOK
  <2>5. QED
    BY <2>1, <2>2, <2>4, PublishSound
<1>3. CASE ClaimJob(s, j)
  BY <1>1, <1>3, OperationsSound, UpdateSound DEF ClaimJob, ReviewActions
<1>4. CASE StartJob(s, j)
  BY <1>1, <1>4, OperationsSound, UpdateSound DEF StartJob, ReviewActions
<1>5. CASE CompleteJob(s, j)
  BY <1>1, <1>5, OperationsSound, UpdateSound DEF CompleteJob, ReviewActions
<1>6. ASSUME NEW error \in {"retryable", "final"}, FailJob(s, j, error)
      PROVE  StoreInv'
  BY <1>1, <1>6, OperationsSound, UpdateSound DEF FailJob, ReviewActions
<1>7. CASE CancelJob(s, j)
  BY <1>1, <1>7, OperationsSound, UpdateSound DEF CancelJob, ReviewActions
<1>8. CASE RetryJob(s, j)
  BY <1>1, <1>8, OperationsSound, UpdateSound DEF RetryJob, ReviewActions
<1>9. ASSUME NEW action \in ReviewActions, ReviewJob(s, j, action)
      PROVE  StoreInv'
  BY <1>1, <1>9, OperationsSound, UpdateSound DEF ReviewJob
<1>10. QED
  BY <1>2, <1>3, <1>4, <1>5, <1>6, <1>7, <1>8, <1>9 DEF JobOperation

\* loadAllJobs copies sound records; the listing it builds is a sequence of jobs.
LEMMA OpenKeepsInv ==
  ASSUME StoreInv, NEW s \in Stores, OpenStore(s)
  PROVE  StoreInv'
<1>1. PICK l \in Listings(OnDisk) : order' = [order EXCEPT ![s] = l]
  BY DEF OpenStore
<1>2. IsFiniteSet(OnDisk)
  BY FS_Subset DEF OnDisk
<1>3. Cardinality(OnDisk) \in Nat
  BY <1>2, FS_CardinalityType
<1>4. l \in Seq(Jobs)
  <2>1. l \in [1..Cardinality(OnDisk) -> Jobs]
    BY DEF Listings, OnDisk
  <2>2. QED
    BY <1>3, <2>1, SeqDef
<1>5. StoreTypeOK'
  BY <1>1, <1>4 DEF OpenStore, StoreInv, StoreTypeOK
<1>6. \A t \in Stores, j \in Jobs : mem'[t][j] = IF t = s THEN disk[j] ELSE mem[t][j]
  BY DEF OpenStore, StoreInv, StoreTypeOK
<1>7. RecordsConsistent'
  BY <1>6 DEF OpenStore, StoreInv, RecordsConsistent
<1>8. QED
  BY <1>5, <1>7 DEF StoreInv

\* A process that ends leaves the invariant in place.
LEMMA CloseKeepsInv ==
  ASSUME StoreInv, NEW s \in Stores, CloseStore(s)
  PROVE  StoreInv'
<1>1. [j \in Jobs |-> Absent] \in [Jobs -> JobRecords]
  BY AbsentSound DEF Sound
<1>2. << >> \in Seq(Jobs)
  OBVIOUS
<1>3. StoreTypeOK'
  BY <1>1, <1>2 DEF CloseStore, StoreInv, StoreTypeOK
<1>4. \A t \in Stores, j \in Jobs : mem'[t][j] = IF t = s THEN Absent ELSE mem[t][j]
  BY DEF CloseStore, StoreInv, StoreTypeOK
<1>5. RecordsConsistent'
  BY <1>4, AbsentSound DEF CloseStore, StoreInv, RecordsConsistent, Sound
<1>6. QED
  BY <1>3, <1>5 DEF StoreInv

\* So does the clock.
LEMMA TickKeepsInv ==
  ASSUME StoreInv, Tick
  PROVE  StoreInv'
<1>1. \A j \in Jobs : disk'[j] = Aged(disk[j]) /\ Sound(disk'[j])
  BY StoreInvSound, AgedSound DEF Tick
<1>2. \A s \in Stores, j \in Jobs : mem'[s][j] = Aged(mem[s][j]) /\ Sound(mem'[s][j])
  BY StoreInvSound, AgedSound DEF Tick
<1>3. StoreTypeOK'
  BY <1>1, <1>2 DEF Tick, StoreInv, StoreTypeOK, Sound
<1>4. QED
  BY <1>1, <1>2, <1>3 DEF StoreInv, RecordsConsistent, Sound

\* The invariant holds of an empty directory.
LEMMA StoreInvInit == StoreInit => StoreInv
<1>1. << >> \in Seq(Jobs)
  OBVIOUS
<1>2. QED
  BY <1>1, AbsentSound DEF StoreInit, StoreInv, StoreTypeOK, RecordsConsistent, Sound

\* The invariant is inductive.
LEMMA StoreInvStep == StoreInv /\ [StoreNext]_storeVars => StoreInv'
<1>. SUFFICES ASSUME StoreInv, [StoreNext]_storeVars
              PROVE  StoreInv'
  OBVIOUS
<1>1. ASSUME NEW s \in Stores, NEW j \in Jobs, JobOperation(s, j)
      PROVE  StoreInv'
  BY <1>1, OperationKeepsInv
<1>2. ASSUME NEW s \in Stores, OpenStore(s) \/ CloseStore(s)
      PROVE  StoreInv'
  BY <1>2, OpenKeepsInv, CloseKeepsInv
<1>3. CASE Tick
  BY <1>3, TickKeepsInv
<1>4. CASE UNCHANGED storeVars
  BY <1>4 DEF storeVars, StoreInv, StoreTypeOK, RecordsConsistent
<1>5. QED
  BY <1>1, <1>2, <1>3, <1>4 DEF StoreNext

\* The Maps, the files and the orders keep their types.
THEOREM StoreTypeCorrect == StoreSpec => []StoreTypeOK
<1>1. StoreInv => StoreTypeOK
  BY DEF StoreInv
<1>2. QED
  BY <1>1, StoreInvInit, StoreInvStep, PTL DEF StoreSpec

\* Every record any process or any file ever holds agrees with its status and
\* stays below its attempt limit, however many processes write stale records
\* over each other's.
THEOREM RecordsStayConsistent == StoreSpec => []RecordsConsistent
<1>1. StoreInv => RecordsConsistent
  BY DEF StoreInv
<1>2. QED
  BY <1>1, StoreInvInit, StoreInvStep, PTL DEF StoreSpec

---------------------------------------------------------------------------
(* One process on the directory at a time.                                 *)

OneProcess == \A s, t \in Stores : s = t
OneOpen == \A s, t \in open : s = t

\* Whoever has a store answers from a Map that agrees with the files.
OpenMapsAgree == \A s \in open : mem[s] = disk

\* A write by the only process that has a store leaves its Map and the files
\* equal, and a store that is opened alone copies them.
LEMMA AgreeStep ==
  StoreInv /\ OpenMapsAgree /\ OneOpen /\ OneOpen' /\ [StoreNext]_storeVars => OpenMapsAgree'
<1>. SUFFICES ASSUME StoreInv, OpenMapsAgree, OneOpen, OneOpen', [StoreNext]_storeVars,
                     NEW r \in open'
              PROVE  mem'[r] = disk'
  BY DEF OpenMapsAgree
<1>. USE DEF StoreInv, StoreTypeOK
<1>0. r \in Stores /\ (r \in open => mem[r] = disk)
  BY StoreInvStep DEF OpenMapsAgree
<1>1. ASSUME NEW s \in Stores, NEW j \in Jobs, NEW job, s \in open, Publish(s, j, job)
      PROVE  mem'[r] = disk'
  <2>1. r = s
    BY <1>1 DEF OneOpen, Publish
  <2>2. QED
    BY <1>0, <1>1, <2>1 DEF Publish
<1>2. ASSUME NEW s \in Stores, NEW j \in Jobs, JobOperation(s, j)
      PROVE  mem'[r] = disk'
  BY <1>1, <1>2
     DEF JobOperation, CreateJob, ClaimJob, StartJob, CompleteJob, FailJob, CancelJob,
         RetryJob, ReviewJob, Update
<1>3. ASSUME NEW s \in Stores, OpenStore(s)
      PROVE  mem'[r] = disk'
  <2>1. r = s
    BY <1>3 DEF OpenStore, OneOpen
  <2>2. QED
    BY <1>0, <1>3, <2>1 DEF OpenStore
<1>4. ASSUME NEW s \in Stores, CloseStore(s)
      PROVE  mem'[r] = disk'
  BY <1>0, <1>4 DEF CloseStore
<1>5. CASE Tick
  <2>1. r \in open
    BY <1>5 DEF Tick
  <2>2. mem'[r] = [j \in Jobs |-> Aged(mem[r][j])]
    BY <1>0, <1>5 DEF Tick
  <2>3. QED
    BY <1>0, <1>5, <2>1, <2>2 DEF Tick
<1>6. CASE UNCHANGED storeVars
  BY <1>0, <1>6 DEF storeVars
<1>7. QED
  BY <1>2, <1>3, <1>4, <1>5, <1>6 DEF StoreNext

\* Where there is only one process, it is of course the only one with a store.
LEMMA DurableStep ==
  StoreInv /\ MemoryIsDurable /\ [StoreNext]_storeVars => MemoryIsDurable'
<1>. SUFFICES ASSUME StoreInv, MemoryIsDurable, [StoreNext]_storeVars, OneProcess
              PROVE  OpenMapsAgree'
  BY DEF MemoryIsDurable, OneProcess, OpenMapsAgree
<1>1. OneOpen /\ OneOpen'
  BY StoreInvStep DEF OneProcess, OneOpen, StoreInv, StoreTypeOK
<1>2. OpenMapsAgree
  BY DEF MemoryIsDurable, OneProcess, OpenMapsAgree
<1>3. QED
  BY <1>1, <1>2, AgreeStep

\* The files and the Map of the only process never differ, whatever it does and
\* whenever it dies.
THEOREM MemoryStaysDurable == StoreSpec => []MemoryIsDurable
<1>1. StoreInit => MemoryIsDurable
  BY DEF StoreInit, MemoryIsDurable
<1>2. QED
  BY <1>1, StoreInvInit, StoreInvStep, DurableStep, PTL DEF StoreSpec

\* Each operation of a process whose Map agrees with the files is a step of the
\* abstract lifecycle; the take-over of an expired claim is a stuttering step of it.
LEMMA OperationIsMove ==
  ASSUME StoreInv, OpenMapsAgree,
         NEW s \in Stores, NEW j \in Jobs, JobOperation(s, j)
  PROVE  Lifecycle!Next \/ UNCHANGED DiskJob
<1>. USE DEF StoreInv, StoreTypeOK
<1>1. s \in open
  BY DEF JobOperation, CreateJob, ClaimJob, StartJob, CompleteJob, FailJob, CancelJob,
         RetryJob, ReviewJob, Update
<1>2. mem[s][j] = disk[j] /\ disk[j] \in JobRecords
  BY <1>1 DEF OpenMapsAgree
<1>3. /\ DiskJob[j].status = disk[j].status
      /\ DiskJob[j].attempt = disk[j].attempt
      /\ DiskJob[j].maxAttempts = disk[j].maxAttempts
  BY DEF DiskJob
<1>4. ASSUME NEW job, Publish(s, j, job)
      PROVE  Lifecycle!Become(j, job.status, job.attempt, job.maxAttempts)
  <2>1. DiskJob' = [k \in Jobs |-> IF k = j
                      THEN [status |-> job.status, attempt |-> job.attempt,
                            maxAttempts |-> job.maxAttempts]
                      ELSE DiskJob[k]]
    BY <1>4 DEF Publish, DiskJob
  <2>2. QED
    BY <2>1 DEF Lifecycle!Become, DiskJob
<1>5. ASSUME NEW job, Publish(s, j, job), disk[j].status \in Statuses \ {"failed"},
             job.status \in Lifecycle!ValidTransitions[disk[j].status],
             job.attempt = disk[j].attempt, job.maxAttempts = disk[j].maxAttempts
      PROVE  Lifecycle!Move(j)
  BY <1>3, <1>4, <1>5 DEF Lifecycle!Move, Lifecycle!Statuses, Statuses
<1>. USE DEF Lifecycle!ValidTransitions, Statuses
<1>6. CASE CreateJob(s, j)
  <2>1. PICK limit \in AttemptLimits : Publish(s, j, Created(limit))
    BY <1>6 DEF CreateJob
  <2>2. /\ Created(limit).status = "queued" /\ Created(limit).attempt = 0
        /\ Created(limit).maxAttempts = limit
    BY DEF Created, Absent
  <2>3. Lifecycle!Create(j)
    BY <1>3, <1>4, <1>6, <2>1, <2>2 DEF CreateJob, Lifecycle!Create
  <2>4. QED
    BY <2>3 DEF Lifecycle!Next
<1>7. CASE ClaimJob(s, j)
  <2>1. Publish(s, j, Claimed(disk[j], s))
    BY <1>2, <1>7 DEF ClaimJob, Update
  <2>2. /\ Claimed(disk[j], s).status = "claimed"
        /\ Claimed(disk[j], s).attempt = disk[j].attempt
        /\ Claimed(disk[j], s).maxAttempts = disk[j].maxAttempts
    BY <1>2 DEF Claimed, JobRecords
  <2>3. CASE disk[j].status = "queued"
    <3>1. Lifecycle!Move(j)
      BY <1>5, <2>1, <2>2, <2>3
    <3>2. QED
      BY <3>1 DEF Lifecycle!Next
  <2>4. CASE disk[j].status = "claimed"
    BY <2>1, <2>2, <2>4 DEF Publish, DiskJob
  <2>5. QED
    BY <1>2, <1>7, <2>3, <2>4 DEF ClaimJob, CanClaim
<1>8. CASE StartJob(s, j)
  <2>1. Publish(s, j, Started(disk[j]))
    BY <1>2, <1>8 DEF StartJob, Update
  <2>2. /\ Started(disk[j]).status = "running"
        /\ Started(disk[j]).attempt = disk[j].attempt
        /\ Started(disk[j]).maxAttempts = disk[j].maxAttempts
    BY <1>2 DEF Started, JobRecords
  <2>3. Lifecycle!Move(j)
    BY <1>2, <1>5, <1>8, <2>1, <2>2 DEF StartJob, CanStart
  <2>4. QED
    BY <2>3 DEF Lifecycle!Next
<1>9. CASE CompleteJob(s, j)
  <2>1. Publish(s, j, Completed(disk[j]))
    BY <1>2, <1>9 DEF CompleteJob, Update
  <2>2. /\ Completed(disk[j]).status = "completed"
        /\ Completed(disk[j]).attempt = disk[j].attempt
        /\ Completed(disk[j]).maxAttempts = disk[j].maxAttempts
    BY <1>2 DEF Completed, JobRecords
  <2>3. Lifecycle!Move(j)
    BY <1>2, <1>5, <1>9, <2>1, <2>2 DEF CompleteJob, CanSettle
  <2>4. QED
    BY <2>3 DEF Lifecycle!Next
<1>10. CASE CancelJob(s, j)
  <2>1. Publish(s, j, Cancelled(disk[j]))
    BY <1>2, <1>10 DEF CancelJob, Update
  <2>2. /\ Cancelled(disk[j]).status = "cancelled"
        /\ Cancelled(disk[j]).attempt = disk[j].attempt
        /\ Cancelled(disk[j]).maxAttempts = disk[j].maxAttempts
    BY <1>2 DEF Cancelled, JobRecords
  <2>3. Lifecycle!Move(j)
    BY <1>2, <1>5, <1>10, <2>1, <2>2 DEF CancelJob, CanCancel
  <2>4. QED
    BY <2>3 DEF Lifecycle!Next
<1>11. ASSUME NEW error \in {"retryable", "final"}, FailJob(s, j, error)
       PROVE  Lifecycle!Next
  <2>1. Publish(s, j, Failed(disk[j], error))
    BY <1>2, <1>11 DEF FailJob, Update
  <2>2. /\ Failed(disk[j], error).status = "failed"
        /\ Failed(disk[j], error).attempt = disk[j].attempt
        /\ Failed(disk[j], error).maxAttempts = disk[j].maxAttempts
    BY <1>2 DEF Failed, JobRecords
  <2>3. Lifecycle!Move(j)
    BY <1>2, <1>5, <1>11, <2>1, <2>2 DEF FailJob, CanSettle
  <2>4. QED
    BY <2>3 DEF Lifecycle!Next
<1>12. CASE RetryJob(s, j)
  <2>1. Publish(s, j, Retried(disk[j])) /\ CanRetry(disk[j])
    BY <1>2, <1>12 DEF RetryJob, Update
  <2>2. /\ Retried(disk[j]).status = "queued"
        /\ Retried(disk[j]).attempt = disk[j].attempt + 1
        /\ Retried(disk[j]).maxAttempts = disk[j].maxAttempts
    BY <1>2 DEF Retried, JobRecords
  <2>3. Lifecycle!Retry(j)
    BY <1>3, <1>4, <2>1, <2>2 DEF CanRetry, Lifecycle!Retry
  <2>4. QED
    BY <2>3 DEF Lifecycle!Next
<1>13. ASSUME NEW action \in ReviewActions, ReviewJob(s, j, action)
       PROVE  Lifecycle!Next
  <2>. DEFINE job == Reviewed(disk[j], action)
  <2>1. Publish(s, j, job) /\ CanReview(disk[j], action)
    BY <1>2, <1>13 DEF ReviewJob, Update
  <2>2. job.attempt = disk[j].attempt /\ job.maxAttempts = disk[j].maxAttempts
    BY <1>2 DEF Reviewed, ReviewActions, RequeueActions, JobRecords
  <2>3. job.status \in Lifecycle!ValidTransitions[disk[j].status]
    BY <1>2, <2>1 DEF Reviewed, CanReview, ReviewActions, RequeueActions, JobRecords
  <2>4. disk[j].status \in Statuses \ {"failed"}
    BY <2>1 DEF CanReview
  <2>5. Lifecycle!Move(j)
    <3>. HIDE DEF job
    <3>1. QED
      BY <1>5, <2>1, <2>2, <2>3, <2>4
  <2>6. QED
    BY <2>5 DEF Lifecycle!Next
<1>14. QED
  BY <1>6, <1>7, <1>8, <1>9, <1>10, <1>11, <1>12, <1>13 DEF JobOperation

\* Every step of the store is a step of the lifecycle, or a stutter, on the files.
LEMMA StepIsMove ==
  StoreInv /\ OpenMapsAgree /\ [StoreNext]_storeVars => [Lifecycle!Next]_DiskJob
<1>. SUFFICES ASSUME StoreInv, OpenMapsAgree, [StoreNext]_storeVars
              PROVE  [Lifecycle!Next]_DiskJob
  OBVIOUS
<1>1. ASSUME NEW s \in Stores, NEW j \in Jobs, JobOperation(s, j)
      PROVE  Lifecycle!Next \/ UNCHANGED DiskJob
  BY <1>1, OperationIsMove
<1>2. ASSUME NEW s \in Stores, OpenStore(s) \/ CloseStore(s)
      PROVE  UNCHANGED DiskJob
  BY <1>2 DEF OpenStore, CloseStore, DiskJob
<1>3. CASE Tick
  <2>1. \A j \in Jobs : /\ Aged(disk[j]).status = disk[j].status
                        /\ Aged(disk[j]).attempt = disk[j].attempt
                        /\ Aged(disk[j]).maxAttempts = disk[j].maxAttempts
    BY DEF Aged, StoreInv, StoreTypeOK, JobRecords
  <2>2. QED
    BY <1>3, <2>1 DEF Tick, DiskJob
<1>4. CASE UNCHANGED storeVars
  BY <1>4 DEF storeVars, DiskJob
<1>5. QED
  BY <1>1, <1>2, <1>3, <1>4 DEF StoreNext

\* While one process uses the directory, the files of the jobs go through the
\* abstract lifecycle, across crashes and restarts of that process.
THEOREM StoreImplementsLifecycle ==
  ASSUME OneProcess
  PROVE  StoreSpec => ImplementsLifecycle
<1>1. StoreInit => Lifecycle!Init
  BY DEF StoreInit, Lifecycle!Init, Lifecycle!Unborn, DiskJob, Absent
<1>2. StoreInit => MemoryIsDurable
  BY DEF StoreInit, MemoryIsDurable
<1>3. StoreInv /\ MemoryIsDurable /\ [StoreNext]_storeVars => [Lifecycle!Next]_DiskJob
  BY StepIsMove DEF MemoryIsDurable, OneProcess, OpenMapsAgree
<1>4. QED
  BY <1>1, <1>2, <1>3, StoreInvInit, StoreInvStep, DurableStep, PTL
     DEF StoreSpec, ImplementsLifecycle, Lifecycle!Spec

\* A completed or cancelled job's file keeps its status and attempt for ever.
THEOREM FinalStaysFinal ==
  ASSUME OneProcess
  PROVE  StoreSpec => FinalIsForever
<1>1. [Lifecycle!Next]_DiskJob
        => [\A j \in Jobs : DiskJob[j].status \in Lifecycle!FinalStatuses
                              => DiskJob'[j] = DiskJob[j]]_DiskJob
  <2>. SUFFICES ASSUME Lifecycle!Next, NEW j \in Jobs,
                       DiskJob[j].status \in Lifecycle!FinalStatuses
                PROVE  DiskJob'[j] = DiskJob[j]
    OBVIOUS
  <2>1. PICK k \in Jobs : Lifecycle!Create(k) \/ Lifecycle!Move(k) \/ Lifecycle!Retry(k)
    BY DEF Lifecycle!Next
  <2>2. DiskJob[k].status \notin Lifecycle!FinalStatuses
    BY <2>1 DEF Lifecycle!Create, Lifecycle!Move, Lifecycle!Retry, Lifecycle!ValidTransitions,
                Lifecycle!Statuses, Lifecycle!FinalStatuses
  <2>3. \E status, attempt, limit : Lifecycle!Become(k, status, attempt, limit)
    BY <2>1 DEF Lifecycle!Create, Lifecycle!Move, Lifecycle!Retry
  <2>4. QED
    BY <2>2, <2>3 DEF Lifecycle!Become, DiskJob
<1>2. QED
  BY <1>1, StoreImplementsLifecycle, PTL
     DEF ImplementsLifecycle, Lifecycle!Spec, FinalIsForever, Lifecycle!FinalIsForever

---------------------------------------------------------------------------
(* How far a job is from its end.                                          *)

Rank(status) ==
  CASE status = "queued" -> 5 [] status = "claimed" -> 4 [] status = "running" -> 3
    [] status = "paused_review" -> 2 [] status = "failed" -> 1
    [] status \in {"completed", "cancelled"} -> 0

WorkLeft(job) == 7 * (job.maxAttempts - job.attempt) + Rank(job.status)

\* It is bounded by the limit the job was created with.
WorkBounded ==
  \A j \in Jobs : disk[j].status # "absent" => WorkLeft(disk[j]) \in 7..(7 * disk[j].maxAttempts + 5)

\* A job's file gets nearer to its end with every change, but for the clock,
\* the take-over of an expired claim, and a human's decision to run it again.
Nearer(old, new) ==
  \/ new.status = old.status /\ new.attempt = old.attempt /\ new.maxAttempts = old.maxAttempts
  \/ WorkLeft(new) < WorkLeft(old)
  \/ /\ old.status = "paused_review" /\ new.status = "queued"
     /\ new.attempt = old.attempt /\ new.maxAttempts = old.maxAttempts

JobsAdvance == \A j \in Jobs : disk[j].status # "absent" => Nearer(disk[j], disk'[j])

LEMMA RankOf ==
  /\ Rank("queued") = 5 /\ Rank("claimed") = 4 /\ Rank("running") = 3
  /\ Rank("paused_review") = 2 /\ Rank("failed") = 1
  /\ Rank("completed") = 0 /\ Rank("cancelled") = 0
BY DEF Rank

\* The moves that lead on, and the retry.
LEMMA MovesLeadOn ==
  ASSUME NEW old \in JobRecords, NEW new, new.maxAttempts = old.maxAttempts,
         \/ /\ new.attempt = old.attempt
            /\ \/ old.status = "queued" /\ new.status \in {"claimed", "cancelled"}
               \/ old.status = "claimed" /\ new.status \in {"running", "cancelled"}
               \/ old.status = "running" /\ new.status \in {"completed", "failed", "paused_review"}
               \/ old.status = "paused_review" /\ new.status \in {"failed", "cancelled"}
         \/ /\ new.attempt = old.attempt + 1
            /\ old.status = "failed" /\ new.status = "queued"
  PROVE  WorkLeft(new) < WorkLeft(old)
<1>. DEFINE m == old.maxAttempts
            a == old.attempt
<1>1. m \in Nat /\ a \in Nat
  BY DEF JobRecords
<1>2. CASE new.attempt = a
  <2>1. Rank(new.status) \in Nat /\ Rank(old.status) \in Nat /\ Rank(new.status) < Rank(old.status)
    <3>1. new.attempt # a + 1
      BY <1>1, <1>2
    <3>2. QED
      BY <1>2, <3>1, RankOf
  <2>2. WorkLeft(new) = 7 * (m - a) + Rank(new.status) /\ WorkLeft(old) = 7 * (m - a) + Rank(old.status)
    BY <1>2 DEF WorkLeft
  <2>. HIDE DEF m, a
  <2>3. QED
    BY <1>1, <2>1, <2>2
<1>3. CASE new.attempt = a + 1
  <2>1. old.status = "failed" /\ new.status = "queued"
    BY <1>1, <1>3
  <2>2. WorkLeft(new) = 7 * (m - (a + 1)) + 5 /\ WorkLeft(old) = 7 * (m - a) + 1
    BY <1>3, <2>1, RankOf DEF WorkLeft
  <2>. HIDE DEF m, a
  <2>3. QED
    BY <1>1, <2>2
<1>4. QED
  BY <1>2, <1>3

\* An operation of the only process leads the job on.
LEMMA OperationAdvances ==
  ASSUME StoreInv, OpenMapsAgree, NEW s \in Stores, NEW j \in Jobs, JobOperation(s, j)
  PROVE  JobsAdvance
<1>. DEFINE old == disk[j]
<1>1. s \in open /\ mem[s][j] = old /\ old \in JobRecords
  BY DEF JobOperation, CreateJob, ClaimJob, StartJob, CompleteJob, FailJob, CancelJob,
         RetryJob, ReviewJob, Update, OpenMapsAgree, StoreInv, StoreTypeOK
<1>2. ASSUME NEW job, Publish(s, j, job), old.status # "absent" => Nearer(old, job)
      PROVE  JobsAdvance
  <2>1. \A k \in Jobs : disk'[k] = IF k = j THEN job ELSE disk[k]
    BY <1>2 DEF Publish, StoreInv, StoreTypeOK
  <2>2. QED
    BY <1>2, <2>1 DEF JobsAdvance, Nearer
<1>. HIDE DEF old
<1>3. CASE CreateJob(s, j)
  BY <1>2, <1>3 DEF CreateJob, old
<1>4. CASE ClaimJob(s, j)
  <2>. DEFINE new == Claimed(old, s)
  <2>1. new.status = "claimed" /\ new.attempt = old.attempt /\ new.maxAttempts = old.maxAttempts
    BY <1>1 DEF Claimed, JobRecords
  <2>2. Publish(s, j, new) /\ old.status \in {"queued", "claimed"}
    BY <1>1, <1>4 DEF ClaimJob, CanClaim, Update
  <2>. HIDE DEF new
  <2>3. Nearer(old, new)
    BY <1>1, <2>1, <2>2, MovesLeadOn DEF Nearer
  <2>4. QED
    BY <1>2, <2>2, <2>3
<1>5. CASE StartJob(s, j)
  <2>. DEFINE new == Started(old)
  <2>1. new.status = "running" /\ new.attempt = old.attempt /\ new.maxAttempts = old.maxAttempts
    BY <1>1 DEF Started, JobRecords
  <2>2. Publish(s, j, new) /\ old.status = "claimed"
    BY <1>1, <1>5 DEF StartJob, CanStart, Update
  <2>. HIDE DEF new
  <2>3. Nearer(old, new)
    BY <1>1, <2>1, <2>2, MovesLeadOn DEF Nearer
  <2>4. QED
    BY <1>2, <2>2, <2>3
<1>6. CASE CompleteJob(s, j)
  <2>. DEFINE new == Completed(old)
  <2>1. new.status = "completed" /\ new.attempt = old.attempt /\ new.maxAttempts = old.maxAttempts
    BY <1>1 DEF Completed, JobRecords
  <2>2. Publish(s, j, new) /\ old.status = "running"
    BY <1>1, <1>6 DEF CompleteJob, CanSettle, Update
  <2>. HIDE DEF new
  <2>3. Nearer(old, new)
    BY <1>1, <2>1, <2>2, MovesLeadOn DEF Nearer
  <2>4. QED
    BY <1>2, <2>2, <2>3
<1>7. ASSUME NEW error \in {"retryable", "final"}, FailJob(s, j, error)
      PROVE  JobsAdvance
  <2>. DEFINE new == Failed(old, error)
  <2>1. new.status = "failed" /\ new.attempt = old.attempt /\ new.maxAttempts = old.maxAttempts
    BY <1>1 DEF Failed, JobRecords
  <2>2. Publish(s, j, new) /\ old.status = "running"
    BY <1>1, <1>7 DEF FailJob, CanSettle, Update
  <2>. HIDE DEF new
  <2>3. Nearer(old, new)
    BY <1>1, <2>1, <2>2, MovesLeadOn DEF Nearer
  <2>4. QED
    BY <1>2, <2>2, <2>3
<1>8. CASE CancelJob(s, j)
  <2>. DEFINE new == Cancelled(old)
  <2>1. new.status = "cancelled" /\ new.attempt = old.attempt /\ new.maxAttempts = old.maxAttempts
    BY <1>1 DEF Cancelled, JobRecords
  <2>2. Publish(s, j, new) /\ old.status \in {"queued", "claimed"}
    BY <1>1, <1>8 DEF CancelJob, CanCancel, Update
  <2>. HIDE DEF new
  <2>3. Nearer(old, new)
    BY <1>1, <2>1, <2>2, MovesLeadOn DEF Nearer
  <2>4. QED
    BY <1>2, <2>2, <2>3
<1>9. CASE RetryJob(s, j)
  <2>. DEFINE new == Retried(old)
  <2>1. new.status = "queued" /\ new.attempt = old.attempt + 1 /\ new.maxAttempts = old.maxAttempts
    BY <1>1 DEF Retried, JobRecords
  <2>2. Publish(s, j, new) /\ old.status = "failed"
    BY <1>1, <1>9 DEF RetryJob, CanRetry, Update
  <2>. HIDE DEF new
  <2>3. Nearer(old, new)
    BY <1>1, <2>1, <2>2, MovesLeadOn DEF Nearer
  <2>4. QED
    BY <1>2, <2>2, <2>3
<1>10. ASSUME NEW action \in ReviewActions, ReviewJob(s, j, action)
       PROVE  JobsAdvance
  <2>. DEFINE new == Reviewed(old, action)
  <2>1. /\ new.attempt = old.attempt /\ new.maxAttempts = old.maxAttempts
        /\ \/ action = "request_review" /\ new.status = "paused_review"
           \/ action \in RequeueActions /\ new.status = "queued"
           \/ action = "reject" /\ new.status = "failed"
           \/ action = "stop" /\ new.status = "cancelled"
    BY <1>1 DEF Reviewed, ReviewActions, RequeueActions, JobRecords
  <2>2. Publish(s, j, new)
        /\ old.status = IF action = "request_review" THEN "running" ELSE "paused_review"
    BY <1>1, <1>10 DEF ReviewJob, CanReview, Update
  <2>. HIDE DEF new
  <2>3. Nearer(old, new)
    BY <1>1, <2>1, <2>2, MovesLeadOn DEF Nearer, RequeueActions
  <2>4. QED
    BY <1>2, <2>2, <2>3
<1>11. QED
  BY <1>3, <1>4, <1>5, <1>6, <1>7, <1>8, <1>9, <1>10 DEF JobOperation

\* Between two decisions of a human to run it again, a job's status and attempt
\* change a bounded number of times: retries, crashes, restarts and expiring
\* leases do not send it round in circles, and it changes fewer than seven times
\* for each attempt it may have.
THEOREM JobsGetNearer ==
  ASSUME OneProcess
  PROVE  StoreSpec => []WorkBounded /\ [][JobsAdvance]_storeVars
<1>1. ASSUME StoreInv PROVE WorkBounded
  <2>1. SUFFICES ASSUME NEW j \in Jobs, disk[j].status # "absent"
                 PROVE  WorkLeft(disk[j]) \in 7..(7 * disk[j].maxAttempts + 5)
    BY DEF WorkBounded
  <2>. DEFINE m == disk[j].maxAttempts
              a == disk[j].attempt
              r == Rank(disk[j].status)
  <2>2. m \in Nat /\ a \in Nat /\ a < m /\ disk[j].status \in Statuses
    BY <1>1, <2>1 DEF StoreInv, StoreTypeOK, RecordsConsistent, AttemptsBounded, JobRecords
  <2>3. r \in 0..5
    BY <2>2, RankOf DEF Statuses
  <2>4. WorkLeft(disk[j]) = 7 * (m - a) + r
    BY DEF WorkLeft
  <2>. HIDE DEF m, a, r
  <2>5. 7 * (m - a) + r \in 7..(7 * m + 5)
    BY <2>2, <2>3
  <2>6. QED
    BY <2>4, <2>5 DEF m
<1>2. ASSUME StoreInv, OpenMapsAgree, [StoreNext]_storeVars PROVE JobsAdvance
  <2>1. ASSUME NEW s \in Stores, OpenStore(s) \/ CloseStore(s) PROVE JobsAdvance
    BY <2>1 DEF OpenStore, CloseStore, JobsAdvance, Nearer
  <2>2. CASE Tick
    <3>1. \A j \in Jobs : /\ disk'[j].status = disk[j].status
                          /\ disk'[j].attempt = disk[j].attempt
                          /\ disk'[j].maxAttempts = disk[j].maxAttempts
      BY <1>2, <2>2 DEF Tick, Aged, StoreInv, StoreTypeOK, JobRecords
    <3>2. QED
      BY <3>1 DEF JobsAdvance, Nearer
  <2>3. CASE UNCHANGED storeVars
    BY <2>3 DEF storeVars, JobsAdvance, Nearer
  <2>4. QED
    BY <1>2, <2>1, <2>2, <2>3, OperationAdvances DEF StoreNext
<1>3. StoreInit => MemoryIsDurable
  BY DEF StoreInit, MemoryIsDurable
<1>4. MemoryIsDurable => OpenMapsAgree
  BY DEF MemoryIsDurable, OneProcess, OpenMapsAgree
<1>5. QED
  BY <1>1, <1>2, <1>3, <1>4, StoreInvInit, StoreInvStep, DurableStep, PTL DEF StoreSpec

===========================================================================
