------------------------ MODULE BenchmarkController ------------------------
(***************************************************************************)
(* Interactive benchmark runs: companion/benchmark/controller.js with its  *)
(* run store (run-store.js) and the worker process it spawns for a run     *)
(* (worker-client.js, benchmark-lab/engine/interactive-worker.js).         *)
(*                                                                         *)
(* A call is startRun, cancelRun, one task of a run's eventQueue (the      *)
(* promise chain that handles what the worker says one after the other) or *)
(* the handler of the worker's exit, which waits for the tasks before it   *)
(* and not for those after it.  A call changes the run in memory and       *)
(* awaits the write of its record, so calls interleave at every write.  A  *)
(* write may fail: the disk, or another call in progress, which renames    *)
(* the same temporary file.                                                *)
(***************************************************************************)
EXTENDS Naturals, Sequences, FiniteSets

CONSTANTS
  Runs,        \* run ids
  Keys,        \* request keys
  NoRun,       \* activeRunId is null
  MaxLines,    \* bound on the lines of a worker that wait to be read and handled
  MaxFailures, \* bound on the writes that fail
  MaxRestarts, \* bound on the restarts not caused by a rejected promise
  Overlap      \* clients start and cancel while a start is in progress

ASSUME BenchmarkAssumption ==
  /\ NoRun \notin Runs
  /\ MaxLines \in Nat \ {0}
  /\ MaxFailures \in Nat
  /\ MaxRestarts \in Nat
  /\ Overlap \in BOOLEAN

VARIABLES
  status,        \* status[r] in the store's map of runs
  key,           \* requestKey
  file,          \* status[r] in the run's file
  active,        \* activeRunId
  call,          \* what each call on a run is doing
  worker,        \* the worker process of a run
  workers,       \* the runs whose process cancelRun can kill
  pipe,          \* lines the worker has written and the server has not read
  tasks,         \* eventQueue, without the task being run
  terminalEvent, \* runs whose last line has been read
  failed,        \* runs whose worker broke the protocol or did not start
  unsaved,       \* history: the calls a write of which failed
  revived,       \* history: the runs that left a terminal status
  restarts

vars == <<status, key, file, active, call, worker, workers, pipe, tasks,
          terminalEvent, failed, unsaved, revived, restarts>>

---------------------------------------------------------------------------
(* Runs, lines and calls.                                                  *)

Terminal == {"completed", "failed", "cancelled"}
OpenStatuses == {"queued", "preflight", "running"}
Statuses == Terminal \cup OpenStatuses \cup {"none"}

Open(r) == status[r] \in OpenStatuses

\* `progress' stands for started, trial-completed and case-completed, which
\* set the status to running; `bad' for what is not an event.  The lines that
\* change no status are left out.
Lines == {"progress", "completed", "failed", "bad"}
EventTasks == {"progress", "completed", "failed"}
ErrorTasks == {"protocol", "error"}
ExitTasks == {"exit", "exitAfterEnd"}
Tasks == EventTasks \cup ErrorTasks \cup ExitTasks

\* What a call awaits the writes of.  create: startRun in createRun; recover:
\* the catch of onEvent, which calls failRun; append: the event of the worker's
\* last line.  Elsewhere the writes of updateRun and of the appendEvent after it
\* are one: nothing but the record changes between them.
CallTasks == Tasks \cup {"create", "start", "cancel", "recover", "append"}
Callers == {"start", "cancel", "queue", "exit"}

IsIdle(r, c) == call[r][c] = "idle"

Awaits(r, c, task) == call' = [call EXCEPT ![r][c] = task]
Returns(r, c) == call' = [call EXCEPT ![r][c] = "idle"]

\* The record on file is the run as it is now: of two writes that overlap,
\* the last to end counts.
Saved(r) == file' = [file EXCEPT ![r] = status[r]]

SetStatus(r, s) ==
  /\ status' = [status EXCEPT ![r] = s]
  /\ revived' = IF status[r] \in Terminal /\ s \in OpenStatuses THEN revived \cup {r} ELSE revived

\* Mutant of Release: whoever is active.
ReleaseAny(r) == NoRun

Release(r) == IF active = r THEN NoRun ELSE active

---------------------------------------------------------------------------
(* startRun.                                                               *)

\* Mutant of Duplicate: only the active run is compared.
DuplicateOfActive(k) == active # NoRun /\ key[active] = k /\ Open(active)

\* findByRequestKey
Duplicate(k) == \E q \in Runs : key[q] = k /\ Open(q)

\* findByRequestKey, the check of activeRunId and createRun's change of the
\* map run without an await between them that yields to another request.
Start(r, k) ==
  /\ status[r] = "none" /\ file[r] = "none" /\ worker[r] = "none"
  /\ Overlap \/ \A q \in Runs : IsIdle(q, "start")
  /\ ~Duplicate(k)
  /\ active = NoRun
  /\ SetStatus(r, "queued")
  /\ key' = [key EXCEPT ![r] = k]
  /\ Awaits(r, "start", "create")
  /\ UNCHANGED <<file, active, worker, workers, pipe, tasks, terminalEvent, failed, unsaved, restarts>>

\* createRun has returned: the run becomes the active one.
Created(r) ==
  /\ call[r]["start"] = "create"
  /\ Saved(r)
  /\ active' = r
  /\ SetStatus(r, "preflight")
  /\ Awaits(r, "start", "start")
  /\ UNCHANGED <<key, worker, workers, pipe, tasks, terminalEvent, failed, unsaved, restarts>>

\* startWorker; a process that cannot be spawned says so later.
StartWorker(r) ==
  /\ call[r]["start"] = "start"
  /\ Saved(r)
  /\ \E w \in {"working", "unborn"} : worker' = [worker EXCEPT ![r] = w]
  /\ workers' = workers \cup {r}
  /\ Returns(r, "start")
  /\ UNCHANGED <<status, key, active, pipe, tasks, terminalEvent, failed, unsaved, revived, restarts>>

---------------------------------------------------------------------------
(* cancelRun.                                                              *)

\* The run that is killed may have lines in the pipe.
Kill(r) == IF worker[r] = "working" THEN [worker EXCEPT ![r] = "ending"] ELSE worker

Cancel(r) ==
  /\ Open(r) /\ IsIdle(r, "cancel")
  /\ Overlap \/ IsIdle(r, "start")
  /\ worker' = IF r \in workers THEN Kill(r) ELSE worker
  /\ SetStatus(r, "cancelled")
  /\ Awaits(r, "cancel", "cancel")
  /\ UNCHANGED <<key, file, active, workers, pipe, tasks, terminalEvent, failed, unsaved, restarts>>

Cancelled(r) ==
  /\ call[r]["cancel"] = "cancel"
  /\ Saved(r)
  /\ workers' = workers \ {r}
  /\ active' = Release(r)
  /\ Returns(r, "cancel")
  /\ UNCHANGED <<status, key, worker, pipe, tasks, terminalEvent, failed, unsaved, revived, restarts>>

---------------------------------------------------------------------------
(* The worker process and worker-client.js.                                *)

Write(r, line) ==
  /\ worker[r] = "working" /\ Len(pipe[r]) + Len(tasks[r]) < MaxLines
  /\ pipe' = [pipe EXCEPT ![r] = Append(@, line)]
  /\ worker' = IF line \in {"completed", "failed"} THEN [worker EXCEPT ![r] = "ending"] ELSE worker
  /\ UNCHANGED <<status, key, file, active, call, workers, tasks, terminalEvent, failed, unsaved, revived, restarts>>

\* A worker ends when it was killed or has written its last line, and it may
\* crash.  The event may come before the last lines have been read.
Exit(r) ==
  /\ worker[r] \in {"working", "ending"}
  /\ worker' = [worker EXCEPT ![r] = "exited"]
  /\ tasks' = [tasks EXCEPT ![r] = Append(@, IF r \in terminalEvent THEN "exitAfterEnd" ELSE "exit")]
  /\ UNCHANGED <<status, key, file, active, call, workers, pipe, terminalEvent, failed, unsaved, revived, restarts>>

\* onEvent, or onProtocolError and kill.
Read(r) ==
  /\ pipe[r] # <<>>
  /\ LET line == Head(pipe[r]) IN
       /\ tasks' = [tasks EXCEPT ![r] = Append(@, IF line = "bad" THEN "protocol" ELSE line)]
       /\ terminalEvent' = IF line \in {"completed", "failed"} THEN terminalEvent \cup {r} ELSE terminalEvent
       /\ failed' = IF line = "bad" THEN failed \cup {r} ELSE failed
       /\ worker' = IF line = "bad" THEN Kill(r) ELSE worker
  /\ pipe' = [pipe EXCEPT ![r] = Tail(@)]
  /\ UNCHANGED <<status, key, file, active, call, workers, unsaved, revived, restarts>>

\* The execution limit; a worker that was told to end ends before it.
Timeout(r) ==
  /\ worker[r] = "working"
  /\ failed' = failed \cup {r}
  /\ worker' = Kill(r)
  /\ tasks' = [tasks EXCEPT ![r] = Append(@, "protocol")]
  /\ UNCHANGED <<status, key, file, active, call, workers, pipe, terminalEvent, unsaved, revived, restarts>>

\* onError: the process was not spawned, and no exit follows.
SpawnError(r) ==
  /\ worker[r] = "unborn"
  /\ worker' = [worker EXCEPT ![r] = "exited"]
  /\ failed' = failed \cup {r}
  /\ tasks' = [tasks EXCEPT ![r] = Append(@, "error")]
  /\ UNCHANGED <<status, key, file, active, call, workers, pipe, terminalEvent, unsaved, revived, restarts>>

---------------------------------------------------------------------------
(* The tasks of the eventQueue.                                            *)

TakeTask(r) == tasks' = [tasks EXCEPT ![r] = Tail(@)]

\* processWorkerEvent, whatever the run's status is.
HandleEvent(r) ==
  /\ IsIdle(r, "queue") /\ tasks[r] # <<>>
  /\ Head(tasks[r]) \in {"progress", "completed"}
  /\ LET s == IF Head(tasks[r]) = "progress" THEN "running" ELSE "completed" IN
       /\ SetStatus(r, s)
       /\ Awaits(r, "queue", Head(tasks[r]))
  /\ TakeTask(r)
  /\ UNCHANGED <<key, file, active, worker, workers, pipe, terminalEvent, failed, unsaved, restarts>>

\* Mutant of MayFailRun: a run that has ended fails as well.
MayFailAny(r) == TRUE

\* failRun's early return.
MayFailRun(r) == Open(r)

\* failRun up to its write.
FailRun(r, c, task) ==
  /\ MayFailRun(r)
  /\ SetStatus(r, "failed")
  /\ Awaits(r, c, task)

\* Mutant of ExitMustFail: an exit is taken for the end of the run.
ExitNeverFails(r) == FALSE

ExitMustFail(r) == Head(tasks[r]) = "exit" /\ r \notin failed

\* A failed line, a protocol error, a spawn error or an exit: failRun.
HandleFailure(r) ==
  /\ IsIdle(r, "queue") /\ tasks[r] # <<>>
  /\ \/ Head(tasks[r]) \in ErrorTasks \cup {"failed"}
     \/ ExitMustFail(r)
  /\ FailRun(r, IF ExitMustFail(r) THEN "exit" ELSE "queue", Head(tasks[r]))
  /\ TakeTask(r)
  /\ UNCHANGED <<key, file, active, worker, workers, pipe, terminalEvent, failed, unsaved, restarts>>

\* Mutant of EndsRun: nothing is given back after the worker's last line.
EndsRunUnlessEnded(task) == task = "exit"

EndsRun(task) == task \in ExitTasks

\* The same when failRun has nothing to do: the event of a failed line is
\* still appended, an exit still gives the worker and the capacity back.
HandleSettled(r) ==
  /\ IsIdle(r, "queue") /\ tasks[r] # <<>>
  /\ \/ Head(tasks[r]) \in ErrorTasks \cup {"failed"} /\ ~MayFailRun(r)
     \/ Head(tasks[r]) \in ExitTasks /\ ~(ExitMustFail(r) /\ MayFailRun(r))
  /\ TakeTask(r)
  /\ IF Head(tasks[r]) = "failed"
     THEN Awaits(r, "queue", "append")
     ELSE UNCHANGED call
  /\ workers' = IF Head(tasks[r]) \in ExitTasks THEN workers \ {r} ELSE workers
  /\ active' = IF EndsRun(Head(tasks[r])) THEN Release(r) ELSE active
  /\ UNCHANGED <<status, key, file, worker, pipe, terminalEvent, failed, unsaved, revived, restarts>>

\* A task has written what it awaits.  The outcome of the worker's last line
\* gives the capacity back, its event is appended after that.
TaskDone(r, c) ==
  /\ c \in {"queue", "exit"} /\ ~IsIdle(r, c)
  /\ Saved(r)
  /\ workers' = IF c = "exit" THEN workers \ {r} ELSE workers
  /\ active' = IF call[r][c] \in {"progress", "append"} THEN active ELSE Release(r)
  /\ IF call[r][c] \in {"completed", "failed"} THEN Awaits(r, c, "append") ELSE Returns(r, c)
  /\ UNCHANGED <<status, key, worker, pipe, tasks, terminalEvent, failed, unsaved, revived, restarts>>

---------------------------------------------------------------------------
(* Writes.                                                                 *)

\* The catch of onEvent: failRun.
Recover(r) ==
  \/ FailRun(r, "queue", "recover")
  \/ ~MayFailRun(r) /\ Returns(r, "queue") /\ UNCHANGED <<status, revived>>

\* A rejected eventQueue skips its tasks up to the catch of an event; an exit
\* on the way is a promise of its own, and rejected too.
Catches(r) ==
  {i \in DOMAIN tasks[r] :
     tasks[r][i] \in EventTasks /\ \A j \in 1 .. i - 1 : tasks[r][j] \in ErrorTasks}

\* The write of the record or of the index throws: startRun and cancelRun
\* throw to their client, and the catch of an event fails its run.
WriteFails(r, c) ==
  /\ ~IsIdle(r, c) /\ Cardinality(unsaved) < MaxFailures
  /\ Saved(r) \/ UNCHANGED file
  /\ unsaved' = unsaved \cup {<<r, c>>}
  /\ \/ c \in {"start", "cancel"} /\ Returns(r, c) /\ UNCHANGED <<status, revived, tasks>>
     \/ call[r][c] \in EventTasks \cup {"append"} /\ Recover(r) /\ UNCHANGED tasks
     \/ /\ call[r][c] \in ErrorTasks \cup {"recover"}
        /\ \E i \in Catches(r) : tasks' = [tasks EXCEPT ![r] = SubSeq(@, i + 1, Len(@))]
        /\ Recover(r)
  /\ UNCHANGED <<key, active, worker, workers, pipe, terminalEvent, failed, restarts>>

---------------------------------------------------------------------------
(* Restarts.                                                               *)

\* Mutant of Recovered: a status of its own, which no other code knows.
RecoveredInterrupted(s) == IF s \in OpenStatuses THEN "interrupted" ELSE s

\* initialize: what was not final has failed.
Recovered(s) == IF s \in OpenStatuses THEN "failed" ELSE s

Reboot ==
  /\ status' = [r \in Runs |-> Recovered(file[r])]
  /\ file' = status'
  /\ active' = NoRun
  /\ call' = [r \in Runs |-> [c \in Callers |-> "idle"]]
  /\ worker' = [r \in Runs |-> IF worker[r] = "none" THEN "none" ELSE "exited"]
  /\ workers' = {} /\ terminalEvent' = {} /\ failed' = {} /\ unsaved' = {} /\ revived' = {}
  /\ pipe' = [r \in Runs |-> <<>>]
  /\ tasks' = [r \in Runs |-> <<>>]
  /\ restarts' = restarts + 1
  /\ UNCHANGED key

Restart == restarts < MaxRestarts /\ Reboot

\* A rejection nobody handles ends the process, which is started again.
Unhandled(r) ==
  /\ \/ ~IsIdle(r, "exit")
     \/ call[r]["queue"] \in ErrorTasks \cup {"recover"} /\ Catches(r) = {}
  /\ Cardinality(unsaved) < MaxFailures
  /\ Reboot

---------------------------------------------------------------------------
Init ==
  /\ status = [r \in Runs |-> "none"]
  /\ key \in [Runs -> Keys]
  /\ file = [r \in Runs |-> "none"]
  /\ active = NoRun
  /\ call = [r \in Runs |-> [c \in Callers |-> "idle"]]
  /\ worker = [r \in Runs |-> "none"]
  /\ workers = {}
  /\ pipe = [r \in Runs |-> <<>>]
  /\ tasks = [r \in Runs |-> <<>>]
  /\ terminalEvent = {} /\ failed = {} /\ unsaved = {} /\ revived = {}
  /\ restarts = 0

WriteReturns(r, c) ==
  \/ c = "start" /\ (Created(r) \/ StartWorker(r))
  \/ c = "cancel" /\ Cancelled(r)
  \/ TaskDone(r, c)
  \/ c = "queue" /\ Unhandled(r)
  \/ WriteFails(r, c)

HandleTask(r) == HandleEvent(r) \/ HandleFailure(r) \/ HandleSettled(r)

Step(r) ==
  \/ \E k \in Keys : Start(r, k)
  \/ Cancel(r)
  \/ \E line \in Lines : Write(r, line)
  \/ Exit(r) \/ Timeout(r) \/ SpawnError(r)
  \/ Read(r) \/ HandleTask(r)
  \/ \E c \in Callers : WriteReturns(r, c)

Next == Restart \/ \E r \in Runs : Step(r)

Spec == Init /\ [][Next]_vars

---------------------------------------------------------------------------
(* Properties.                                                             *)

\* The state is well formed.
BenchTypeOK ==
  /\ status \in [Runs -> Statuses] /\ key \in [Runs -> Keys]
  /\ file \in [Runs -> Statuses]
  /\ active \in Runs \cup {NoRun}
  /\ call \in [Runs -> [Callers -> CallTasks \cup {"idle"}]]
  /\ worker \in [Runs -> {"none", "unborn", "working", "ending", "exited"}]
  /\ workers \subseteq Runs
  /\ pipe \in [Runs -> Seq(Lines)] /\ tasks \in [Runs -> Seq(Tasks)]
  /\ terminalEvent \subseteq Runs /\ failed \subseteq Runs /\ revived \subseteq Runs
  /\ unsaved \subseteq Runs \X Callers
  /\ restarts \in Nat

\* Capacity: the run whose worker is at work is the active one, so a second
\* run is refused -- whoever cancels, fails, times out or exits in between.
\* The exception is a run whose event could not be saved: its catch fails
\* the run and gives the capacity back without killing the worker.
WorkingIsActive ==
  \A r \in Runs : worker[r] = "working" => active = r \/ <<r, "queue">> \in unsaved

Quiet(r) ==
  /\ \A c \in Callers : IsIdle(r, c)
  /\ worker[r] \in {"none", "exited"}
  /\ pipe[r] = <<>> /\ tasks[r] = <<>>

\* A run nothing will change any more has ended, however its worker went:
\* crash, timeout, protocol error, spawn error, cancellation.  The exceptions
\* are a run that had ended and was set to running by a line read late, and
\* one whose startRun threw half way.
QuietRunHasEnded ==
  \A r \in Runs : Open(r) /\ Quiet(r) => r \in revived \/ <<r, "start">> \in unsaved

\* Of all that can still arrive for a completed run (an exit, a timeout, a
\* cancellation, an error of its last write) nothing changes its outcome.
\* Only a restart that finds another record does.
CompletedIsFinal ==
  [][\A r \in Runs : status[r] = "completed" /\ restarts' = restarts => status'[r] = "completed"]_vars

\* The one place for a run is given back by the time nothing will change the
\* run any more, unless startRun threw after taking it, or a cancelRun that
\* was to give it back threw.
QuietIsReleased ==
  \A r \in Runs :
    active = r /\ Quiet(r) => \E c \in {"start", "cancel"} : <<r, c>> \in unsaved

\* Two runs asked for with one request key are never open together, also when
\* the start of the first threw -- unless a line read late reopened one.
OneOpenRunPerKey ==
  \A q, r \in Runs :
    Open(q) /\ Open(r) /\ key[q] = key[r] => q = r \/ {q, r} \cap revived # {}

\* Not so (docs/01-architecture/api-contract.md:185): only one run may be
\* active.
OneRunAtATime ==
  \A q, r \in Runs : worker[q] = "working" /\ worker[r] = "working" => q = r

===========================================================================
