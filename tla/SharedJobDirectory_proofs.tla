-------------------- MODULE SharedJobDirectory_proofs ---------------------
(***************************************************************************)
(* What the server and the command line promise together, for any number   *)
(* of jobs, of invocations of either and of attempts, with crashes,        *)
(* failing writes and stop().                                              *)
(***************************************************************************)
EXTENDS SharedJobDirectory, BackgroundWorker_proofs

USE WorkerAssumption, SharedAssumption

\* The command line touches the store only through its operations.
LEMMA CliStepIsStoreStep ==
  ASSUME CliStep
  PROVE  StoreNext
<1>1. CASE CliLoad
  BY <1>1 DEF CliLoad, StoreNext
<1>2. ASSUME NEW j \in Jobs,
             CliEnqueue(j) \/ CliClaim(j) \/ CliStart(j) \/ CliComplete(j) \/ CliFail(j)
      PROVE  JobOperation(Cli, j)
  BY <1>2 DEF CliEnqueue, CliClaim, CliStart, CliComplete, CliFail, JobOperation
<1>3. CASE CliExit
  BY <1>3 DEF CliExit, StoreNext
<1>4. QED
  BY <1>1, <1>2, <1>3 DEF CliStep, StoreNext

\* It leaves the server's variables alone.
LEMMA CliLeavesWorker ==
  ASSUME CliStep
  PROVE  UNCHANGED <<workerVars, historyVars, crashes>>
BY DEF CliStep, CliLoad, CliEnqueue, CliClaim, CliStart, CliComplete, CliFail, CliExit, CliAt

\* Every step of either process is a step of the store or leaves it alone.
LEMMA SharedStepIsStoreStep == WorkerInv /\ [SharedNext]_sharedVars => [StoreNext]_storeVars
<1>1. ServerStep => [Next]_vars
  BY DEF ServerStep
<1>2. UNCHANGED sharedVars => [Next]_vars
  BY DEF sharedVars
<1>3. QED
  BY <1>1, <1>2, StepIsStoreStep, CliStepIsStoreStep DEF SharedNext

\* The worker's invariant survives the command line's steps too.
LEMMA SharedInvStep == WorkerInv /\ [SharedNext]_sharedVars => WorkerInv'
<1>. SUFFICES ASSUME WorkerInv, [SharedNext]_sharedVars
              PROVE  WorkerInv'
  OBVIOUS
<1>1. CASE ServerStep \/ UNCHANGED sharedVars
  <2>1. [Next]_vars
    BY <1>1 DEF ServerStep, sharedVars
  <2>2. QED
    BY <2>1, WorkerInvStep
<1>2. CASE CliStep
  <2>1. StoreInv'
    BY SharedStepIsStoreStep, StoreInvStep DEF WorkerInv
  <2>2. UNCHANGED <<workerVars, historyVars, crashes>>
    BY <1>2, CliLeavesWorker
  <2>3. QED
    BY <2>1, <2>2 DEF workerVars, historyVars, WorkerInv, WorkerTypeOK, StoreInv, PollsWellFormed
<1>3. QED
  BY <1>1, <1>2 DEF SharedNext

\* The directory starts empty.
LEMMA SharedInvInit == SharedInit => WorkerInv /\ open = {}
BY WorkerInvInit DEF SharedInit, Init, StoreInit

\* However the command line's invocations and the server overlap, and whichever
\* stale record one writes over the other's, every record stays consistent.
THEOREM SharedRecordsConsistent == SharedSpec => []RecordsConsistent
<1>1. WorkerInv => RecordsConsistent
  BY DEF WorkerInv, StoreInv
<1>2. QED
  BY <1>1, SharedInvInit, SharedInvStep, PTL DEF SharedSpec

---------------------------------------------------------------------------
(* The command line and the server take turns.                             *)

\* Nobody opens a store while the other one has one.
LEMMA TurnsStep ==
  ASSUME MayOverlap = FALSE, WorkerInv, open \in {{}, {Server}, {Cli}}, [SharedNext]_sharedVars
  PROVE  open' \in {{}, {Server}, {Cli}}
<1>. USE DEF OthersClosed
<1>1. CASE ServerStep
  <2>1. CASE open' = open
    BY <2>1
  <2>2. CASE open \subseteq {Server}
    <3>1. open' \subseteq {Server}
      <4>1. [Next]_vars
        BY <1>1 DEF ServerStep
      <4>2. ASSUME NEW p \in Polls, PollStep(p)
            PROVE  open' = open
        BY <4>2 DEF PollStep, PollClaim, PollStart, PollStartThrows, PollSucceeds, PollRejects,
             PollThrows, PollCatch, PollRetry, SettleRefused, ClaimJob, StartJob, CompleteJob,
             FailJob, RetryJob, Update, Publish, storeVars
      <4>3. ASSUME NEW j \in Jobs, RequestStep(j)
            PROVE  open' = open
        BY <4>3 DEF RequestStep, PostJob, PostCancel, PostRetry, PostReview, CreateJob,
             CancelJob, RetryJob, ReviewJob, Update, Publish
      <4>4. CASE Boot \/ Crash \/ Clock \/ StartWorker \/ StopWorker
        BY <2>2, <4>4 DEF Boot, OpenStore, Crash, CloseStore, Clock, Tick, StartWorker,
             StopWorker, storeVars
      <4>5. QED
        BY <1>1, <2>2, <4>2, <4>3, <4>4 DEF ServerStep, Next
    <3>2. QED
      BY <3>1
  <2>3. QED
    BY <1>1, <2>1, <2>2 DEF ServerStep
<1>2. CASE CliLoad
  BY <1>2 DEF CliLoad, OpenStore
<1>3. CASE CliExit
  BY <1>3 DEF CliExit, CloseStore
<1>4. ASSUME NEW j \in Jobs,
             CliEnqueue(j) \/ CliClaim(j) \/ CliStart(j) \/ CliComplete(j) \/ CliFail(j)
      PROVE  open' = open
  BY <1>4 DEF CliEnqueue, CliClaim, CliStart, CliComplete, CliFail, CreateJob, ClaimJob,
       StartJob, CompleteJob, FailJob, Update, Publish
<1>5. CASE UNCHANGED sharedVars
  BY <1>5 DEF sharedVars, vars, storeVars
<1>6. QED
  BY <1>1, <1>2, <1>3, <1>4, <1>5 DEF SharedNext, CliStep

\* Who has a store, that nobody else has one, and that it agrees with the files.
TurnsInv == WorkerInv /\ open \in {{}, {Server}, {Cli}} /\ OpenMapsAgree

\* The invariant is inductive.
LEMMA TurnsInvStep ==
  ASSUME MayOverlap = FALSE
  PROVE  TurnsInv /\ [SharedNext]_sharedVars => TurnsInv'
<1>. SUFFICES ASSUME TurnsInv, [SharedNext]_sharedVars
              PROVE  TurnsInv'
  OBVIOUS
<1>1. WorkerInv' /\ open' \in {{}, {Server}, {Cli}}
  BY SharedInvStep, TurnsStep DEF TurnsInv
<1>2. OneOpen /\ OneOpen'
  BY <1>1 DEF TurnsInv, OneOpen
<1>3. [StoreNext]_storeVars
  BY SharedStepIsStoreStep DEF TurnsInv
<1>4. OpenMapsAgree'
  BY <1>2, <1>3, AgreeStep DEF TurnsInv, WorkerInv
<1>5. QED
  BY <1>1, <1>4 DEF TurnsInv

\* It holds of an empty directory.
LEMMA TurnsInvInit == SharedInit => TurnsInv
BY SharedInvInit DEF TurnsInv, OpenMapsAgree

\* While the command line is used only when the server is down, whoever is up
\* answers from a Map that agrees with the files.
THEOREM TurnsKeepMapsInStep ==
  ASSUME MayOverlap = FALSE
  PROVE  SharedSpec => []MapsAgreeWithFiles
<1>1. TurnsInv => MapsAgreeWithFiles
  BY DEF TurnsInv, OpenMapsAgree, MapsAgreeWithFiles
<1>2. QED
  BY <1>1, TurnsInvInit, TurnsInvStep, PTL DEF SharedSpec

\* Then the files go through the abstract lifecycle, whichever of the two
\* processes worked on a job and whichever finished it.
THEOREM TurnsImplementLifecycle ==
  ASSUME MayOverlap = FALSE
  PROVE  SharedSpec => ImplementsLifecycle
<1>1. SharedInit => Lifecycle!Init
  BY DEF SharedInit, Init, StoreInit, Lifecycle!Init, Lifecycle!Unborn, DiskJob, Absent
<1>2. TurnsInv /\ [SharedNext]_sharedVars => [Lifecycle!Next]_DiskJob
  BY SharedStepIsStoreStep, StepIsMove DEF TurnsInv, WorkerInv
<1>3. QED
  BY <1>1, <1>2, TurnsInvInit, TurnsInvStep, PTL
     DEF SharedSpec, ImplementsLifecycle, Lifecycle!Spec

===========================================================================
