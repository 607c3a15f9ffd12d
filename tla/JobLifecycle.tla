--------------------------- MODULE JobLifecycle ---------------------------
(***************************************************************************)
(* What the durable job store promises about one job: a lifecycle over the *)
(* seven statuses of companion/core/durable-job-store.js whose moves are   *)
(* those of VALID_TRANSITIONS, with a retry counter that only a retry of a *)
(* failed job advances and that stays below the job's limit.  There are no *)
(* processes, leases, files or crashes here: DurableJobStore is shown to   *)
(* implement this specification on disk.                                   *)
(***************************************************************************)
EXTENDS Naturals

CONSTANTS
  Jobs,           \* job ids
  AttemptLimits   \* the values of maxAttempts a job may be created with

VARIABLE job      \* job[j]: status, attempt and maxAttempts of job j

\* No file yet: the job has not been created.
Unborn == [status |-> "absent", attempt |-> 0, maxAttempts |-> 1]

Statuses == {"queued", "claimed", "running", "completed", "failed", "cancelled", "paused_review"}
TerminalStatuses == {"completed", "failed", "cancelled"}

\* The statuses nothing leads out of.
FinalStatuses == {"completed", "cancelled"}

ValidTransitions ==
  [ queued        |-> {"claimed", "cancelled"},
    claimed       |-> {"running", "cancelled", "queued"},
    running       |-> {"completed", "failed", "paused_review"},
    failed        |-> {"queued"},
    completed     |-> {},
    cancelled     |-> {},
    paused_review |-> {"queued", "failed", "cancelled"} ]

LifecycleTypeOK ==
  job \in [Jobs -> [status : Statuses \cup {"absent"}, attempt : Nat, maxAttempts : Nat]]

Init == job = [j \in Jobs |-> Unborn]

Become(j, status, attempt, limit) ==
  job' = [job EXCEPT ![j] = [status |-> status, attempt |-> attempt, maxAttempts |-> limit]]

Create(j) ==
  /\ job[j].status = "absent"
  /\ \E limit \in AttemptLimits : Become(j, "queued", 0, limit)

\* Every move but a retry keeps the attempt number.
Move(j) ==
  /\ job[j].status \in Statuses \ {"failed"}
  /\ \E to \in ValidTransitions[job[j].status] :
       Become(j, to, job[j].attempt, job[j].maxAttempts)

Retry(j) ==
  /\ job[j].status = "failed"
  /\ job[j].attempt + 1 < job[j].maxAttempts
  /\ Become(j, "queued", job[j].attempt + 1, job[j].maxAttempts)

Next == \E j \in Jobs : Create(j) \/ Move(j) \/ Retry(j)

Spec == Init /\ [][Next]_job

\* A completed or cancelled job is never touched again, by any sequence of
\* worker, operator and recovery steps.
FinalIsForever ==
  [][\A j \in Jobs : job[j].status \in FinalStatuses => job'[j] = job[j]]_job

===========================================================================
