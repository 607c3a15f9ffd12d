------------------------- MODULE DurableJobStore --------------------------
(***************************************************************************)
(* The durable job store, companion/core/durable-job-store.js.             *)
(*                                                                         *)
(* A process that needs jobs constructs a store: loadAllJobs copies every  *)
(* file of data/jobs into a Map, and from then on the process reads only   *)
(* that Map.  An operation clones the record, checks its status, changes   *)
(* the clone and publishes it with atomicWriteJob (temporary file, rename, *)
(* then jobs.set).  The operations are synchronous, so each is one step of *)
(* its process; a write that throws leaves file and Map as they were, so   *)
(* for the store alone it is a stuttering step.                            *)
(*                                                                         *)
(* Two processes of the repository construct a store over the same         *)
(* directory: the server and the development loop's command line.  `mem'   *)
(* has one Map per process and `disk' is shared.                           *)
(***************************************************************************)
EXTENDS Naturals, Sequences, FiniteSets

CONSTANTS
  Jobs,           \* job ids (randomUUID: an id is used by one createJob only)
  Stores,         \* processes that may hold a store over the directory
  NoHolder,       \* the holder of a lease that is null
  AttemptLimits,  \* the values of maxAttempts after Math.max(1, ..)
  LeaseDuration   \* DEFAULT_LEASE_DURATION_MS in ticks of the model's clock

ASSUME StoreAssumption ==
  /\ IsFiniteSet(Jobs)
  /\ AttemptLimits \subseteq Nat \ {0}
  /\ LeaseDuration \in Nat \ {0}
  /\ NoHolder \notin Stores

VARIABLES
  mem,    \* mem[s][j]: the record of job j in the Map of process s
  disk,   \* disk[j]: the record in data/jobs/<j>.json
  order,  \* order[s]: the keys of the Map of process s in iteration order
  open    \* the processes whose store is constructed

storeVars == <<mem, disk, order, open>>

---------------------------------------------------------------------------
(* Job records.                                                            *)

Statuses == {"queued", "claimed", "running", "completed", "failed", "cancelled", "paused_review"}
TerminalStatuses == {"completed", "failed", "cancelled"}

NoLease == [holder |-> NoHolder, left |-> 0]
Leases == [holder : Stores, left : 0..LeaseDuration] \cup {NoLease}

\* lease.left counts down to expiresAt; error is null, or an error object
\* whose retryable is true or false; completedAt says whether the time stamp
\* is set.
JobRecords ==
  [ status      : Statuses \cup {"absent"},
    attempt     : Nat,
    maxAttempts : Nat,
    lease       : Leases,
    error       : {"none", "retryable", "final"},
    completedAt : {"null", "set"} ]

\* The id has no record.
Absent ==
  [ status |-> "absent", attempt |-> 0, maxAttempts |-> 1, lease |-> NoLease,
    error |-> "none", completedAt |-> "null" ]

Created(limit) == [Absent EXCEPT !.status = "queued", !.maxAttempts = limit]

LeaseExpired(job) == job.lease # NoLease /\ job.lease.left = 0

\* Mutants of CanClaim: a lease does not expire; it expires under a running job.
CanClaimQueuedOnly(job) == job.status = "queued"
CanClaimRunning(job) ==
  job.status = "queued" \/ (job.status \in {"claimed", "running"} /\ LeaseExpired(job))

CanClaim(job) ==
  \/ job.status = "queued"
  \/ job.status = "claimed" /\ LeaseExpired(job)

Claimed(job, holder) ==
  [job EXCEPT !.status = "claimed", !.lease = [holder |-> holder, left |-> LeaseDuration]]

\* Neither the holder nor the expiry of the lease is looked at.
CanStart(job) == job.status = "claimed"
Started(job) == [job EXCEPT !.status = "running"]

CanSettle(job) == job.status = "running"
Completed(job) == [job EXCEPT !.status = "completed", !.lease = NoLease, !.completedAt = "set"]
Failed(job, error) ==
  [job EXCEPT !.status = "failed", !.error = error, !.lease = NoLease, !.completedAt = "set"]

\* Mutant of CanCancel: a running job can be cancelled.
CanCancelRunning(job) == job.status \in {"queued", "claimed", "running"}

CanCancel(job) == job.status \in {"queued", "claimed"}
Cancelled(job) == [job EXCEPT !.status = "cancelled", !.lease = NoLease, !.completedAt = "set"]

\* Mutant of Retried: completedAt is not reset.
RetriedKeepingTime(job) ==
  [job EXCEPT !.status = "queued", !.attempt = @ + 1, !.lease = NoLease, !.error = "none"]

\* The error's retryable flag is not consulted.
CanRetry(job) == job.status = "failed" /\ job.attempt + 1 < job.maxAttempts
Retried(job) ==
  [job EXCEPT !.status = "queued", !.attempt = @ + 1, !.lease = NoLease,
              !.error = "none", !.completedAt = "null"]

ReviewActions == {"request_review", "approve", "reject", "request_correction", "stop"}

\* The actions that put a job back in the queue without a new attempt number.
RequeueActions == {"approve", "request_correction"}

CanReview(job, action) ==
  job.status = IF action = "request_review" THEN "running" ELSE "paused_review"

Reviewed(job, action) ==
  CASE action = "request_review"  -> [job EXCEPT !.status = "paused_review", !.lease = NoLease]
    [] action \in RequeueActions  -> [job EXCEPT !.status = "queued", !.lease = NoLease,
                                                 !.completedAt = "null"]
    [] action = "reject"          -> [job EXCEPT !.status = "failed", !.error = "final",
                                                 !.completedAt = "set"]
    [] action = "stop"            -> [job EXCEPT !.status = "cancelled", !.completedAt = "set"]

\* The clock runs: every copy of a lease is closer to its expiry.
Aged(job) == [job EXCEPT !.lease.left = IF @ = 0 THEN 0 ELSE @ - 1]

---------------------------------------------------------------------------
(* Operations of the store of process s.                                   *)

\* atomicWriteJob: file and Map change together.
Publish(s, j, job) ==
  /\ mem' = [mem EXCEPT ![s][j] = job]
  /\ disk' = [disk EXCEPT ![j] = job]
  /\ open' = open

\* A Map keeps the position of a key it already has.
Update(s, j, job) == s \in open /\ Publish(s, j, job) /\ order' = order

CreateJob(s, j) ==
  /\ s \in open
  /\ disk[j].status = "absent"
  /\ \A t \in Stores : mem[t][j].status = "absent"
  /\ \E limit \in AttemptLimits : Publish(s, j, Created(limit))
  /\ order' = [order EXCEPT ![s] = Append(@, j)]

ClaimJob(s, j) == CanClaim(mem[s][j]) /\ Update(s, j, Claimed(mem[s][j], s))

StartJob(s, j) == CanStart(mem[s][j]) /\ Update(s, j, Started(mem[s][j]))

CompleteJob(s, j) == CanSettle(mem[s][j]) /\ Update(s, j, Completed(mem[s][j]))

FailJob(s, j, error) == CanSettle(mem[s][j]) /\ Update(s, j, Failed(mem[s][j], error))

CancelJob(s, j) == CanCancel(mem[s][j]) /\ Update(s, j, Cancelled(mem[s][j]))

RetryJob(s, j) == CanRetry(mem[s][j]) /\ Update(s, j, Retried(mem[s][j]))

ReviewJob(s, j, action) ==
  CanReview(mem[s][j], action) /\ Update(s, j, Reviewed(mem[s][j], action))

\* listClaimableJobs()[0]: the first claimable job in the Map's order.
IsFirstClaimable(s, j) ==
  \E i \in 1..Len(order[s]) :
    /\ order[s][i] = j
    /\ CanClaim(mem[s][j])
    /\ \A k \in 1..(i - 1) : ~CanClaim(mem[s][order[s][k]])

---------------------------------------------------------------------------
(* The life of a process.                                                  *)

OnDisk == {j \in Jobs : disk[j].status # "absent"}

\* The sequences that list the elements of S once each: readdir returns the
\* files in an order that has nothing to do with creation.
Listings(S) == {l \in [1..Cardinality(S) -> S] : \A a, b \in DOMAIN l : l[a] = l[b] => a = b}

\* Mutant of OpenStore: finished jobs are not loaded.
OpenStoreUnfinished(s) ==
  /\ s \notin open
  /\ open' = open \cup {s}
  /\ mem' = [mem EXCEPT ![s] = [j \in Jobs |-> IF disk[j].status \in TerminalStatuses
                                              THEN Absent ELSE disk[j]]]
  /\ \E l \in Listings(OnDisk) : order' = [order EXCEPT ![s] = l]
  /\ disk' = disk

\* loadAllJobs, in the constructor.
OpenStore(s) ==
  /\ s \notin open
  /\ open' = open \cup {s}
  /\ mem' = [mem EXCEPT ![s] = disk]
  /\ \E l \in Listings(OnDisk) : order' = [order EXCEPT ![s] = l]
  /\ disk' = disk

\* The process exits or dies: its Map is gone, the files stay.
CloseStore(s) ==
  /\ s \in open
  /\ open' = open \ {s}
  /\ mem' = [mem EXCEPT ![s] = [j \in Jobs |-> Absent]]
  /\ order' = [order EXCEPT ![s] = << >>]
  /\ disk' = disk

Tick ==
  /\ \E j \in Jobs : disk[j].lease.left > 0 \/ \E s \in Stores : mem[s][j].lease.left > 0
  /\ mem' = [s \in Stores |-> [j \in Jobs |-> Aged(mem[s][j])]]
  /\ disk' = [j \in Jobs |-> Aged(disk[j])]
  /\ UNCHANGED <<order, open>>

StoreInit ==
  /\ mem = [s \in Stores |-> [j \in Jobs |-> Absent]]
  /\ disk = [j \in Jobs |-> Absent]
  /\ order = [s \in Stores |-> << >>]
  /\ open = {}

JobOperation(s, j) ==
  \/ CreateJob(s, j)
  \/ ClaimJob(s, j)
  \/ StartJob(s, j)
  \/ CompleteJob(s, j)
  \/ \E error \in {"retryable", "final"} : FailJob(s, j, error)
  \/ CancelJob(s, j)
  \/ RetryJob(s, j)
  \/ \E action \in ReviewActions : ReviewJob(s, j, action)

StoreNext ==
  \/ \E s \in Stores, j \in Jobs : JobOperation(s, j)
  \/ \E s \in Stores : OpenStore(s) \/ CloseStore(s)
  \/ Tick

StoreSpec == StoreInit /\ [][StoreNext]_storeVars

---------------------------------------------------------------------------
(* Properties.                                                             *)

\* Types of the Maps, the files and the iteration orders.
StoreTypeOK ==
  /\ mem \in [Stores -> [Jobs -> JobRecords]]
  /\ disk \in [Jobs -> JobRecords]
  /\ order \in [Stores -> Seq(Jobs)]
  /\ open \subseteq Stores

\* The fields of a record agree with its status: a lease exactly while a
\* worker has the job, a completion time exactly in TERMINAL_STATUSES, an
\* error exactly on a failed job.
FieldsAgree(job) ==
  /\ job.lease # NoLease <=> job.status \in {"claimed", "running"}
  /\ job.completedAt = "set" <=> job.status \in TerminalStatuses
  /\ job.error # "none" <=> job.status = "failed"

\* attempt is 0-based, so a job never has more attempts than maxAttempts.
AttemptsBounded(job) == job.attempt < job.maxAttempts

\* However claims, late settlements, retries, reviews, restarts and the writes
\* of a process whose Map is stale mix, every record in every Map and every
\* file is one the schema's descriptions allow: its fields agree with its
\* status and its attempt number is below its limit.
RecordsConsistent ==
  /\ \A j \in Jobs : FieldsAgree(disk[j]) /\ AttemptsBounded(disk[j])
  /\ \A s \in Stores, j \in Jobs : FieldsAgree(mem[s][j]) /\ AttemptsBounded(mem[s][j])

\* "Publish the same detached snapshot to disk and memory only after
\* persistence succeeds": while one process uses the directory, what its API
\* answers from memory is what a restart will read back.
MemoryIsDurable ==
  (\A s, t \in Stores : s = t) => \A s \in open : mem[s] = disk

\* The promise of JobLifecycle, about the files.
DiskJob ==
  [j \in Jobs |-> [status |-> disk[j].status, attempt |-> disk[j].attempt,
                   maxAttempts |-> disk[j].maxAttempts]]

Lifecycle == INSTANCE JobLifecycle WITH job <- DiskJob

\* With one process on the directory, the sequence of records a job's file
\* holds is a lifecycle over VALID_TRANSITIONS, across restarts: no operation
\* skips a status, leaves a final one or spends an attempt twice.
ImplementsLifecycle == Lifecycle!Spec

\* A completed or cancelled job's record is never written again.
FinalIsForever == Lifecycle!FinalIsForever

===========================================================================
