--------------------------- MODULE PlanExecution ---------------------------
(***************************************************************************)
(* One request that executes tracks of steps, from the call to its answer: *)
(* the four executors of the repository over the relay.                    *)
(*                                                                         *)
(*   "levels"  executeRunPlan by levels of the dependency graph            *)
(*   "file"    executeRunPlan with useDag: false, in file order            *)
(*   "dag"     runTrack with useDag: true, executeDag                      *)
(*   "linear"  runTrack, in file order                                     *)
(*                                                                         *)
(* The first two run a plan of one track or a composition of two, one      *)
(* after the other; the last two run one track.  The callers are the HTTP  *)
(* endpoints POST /workflows/run and /tracks/run, and the background       *)
(* worker.  Several steps run at once, and a step of an ended track may    *)
(* still be running: its end is an action like any other.                  *)
(***************************************************************************)
EXTENDS RelayDispatch

CONSTANTS Graphs,    \* the edge sets the tracks may declare
          Policies,  \* the relay policies a request may name
          AuditMayFail  \* whether writing the audit event may throw

Unknown == 0         \* a reference to a step that does not exist

ASSUME GraphAssumption ==
  /\ Graphs \subseteq SUBSET ((Steps \cup {Unknown}) \X Steps)
  /\ Policies \subseteq {"local", "prefer", "distribute"}
  /\ AuditMayFail \in BOOLEAN

VARIABLES
  request,  \* what is executed, and for whom
  rank,     \* rank[s]: the turn of step s in its track, once submitted
  status,   \* status[s]: the status of step s
  track,    \* track[t]: the status of track t
  plan,     \* the status of the whole plan
  outcome,  \* how the executor's promise was settled
  answer    \* what the caller was told

planVars == <<request, rank, status, track, plan, outcome, answer>>
vars == <<relayVars, planVars>>

Executors == {"levels", "file", "dag", "linear"}
OfPlan == {"levels", "file"}
Tracks == {1, 2}

(* cut = 0: one track with all steps.  Otherwise a composition of track 1, *)
(* steps 1 .. cut, and track 2, the others; skips: the tracks declared     *)
(* on_failure: "skip"; final: the track whose result is the plan's.  The   *)
(* executors in file order do not look at the edges.                       *)
Requests ==
  {r \in [executor: Executors, edges: Graphs, cut: 0 .. N - 1,
          skips: SUBSET Tracks, final: Tracks, abort: BOOLEAN,
          policy: Policies, caller: {"endpoint", "worker"}] :
     /\ r.cut = 0 => r.skips = {} /\ r.final = 1
     /\ r.cut # 0 => /\ r.executor \in OfPlan
                     /\ \A e \in r.edges : e[1] # Unknown =>
                                             (e[1] <= r.cut <=> e[2] <= r.cut)
     /\ r.executor \in {"file", "linear"} => r.edges = {}
     /\ r.executor # "dag" => r.abort
     /\ r.caller = "worker" => r.policy = "local"}

IsComposition == request.cut # 0
TrackOf(s) == IF IsComposition /\ s > request.cut THEN 2 ELSE 1
StepsOf(t) == {s \in Steps : TrackOf(s) = t}
InUse == IF IsComposition THEN Tracks ELSE {1}

Init ==
  /\ RelayInit
  /\ request \in Requests
  /\ rank = [s \in Steps |-> 0]
  /\ status = [s \in Steps |-> "pending"]
  /\ track = [t \in Tracks |-> "pending"]
  /\ plan = "pending"
  /\ outcome = "none"
  /\ answer = "none"

-----------------------------------------------------------------------------
(* The dependency graph *)

Predecessors(s) == {e[1] : e \in {f \in request.edges : f[2] = s}}

(* Kahn's algorithm by rounds: Placed[k] are the steps whose predecessors   *)
(* were placed in earlier rounds.  A step on or behind a cycle, or behind  *)
(* an unknown reference, is never placed and keeps its initial level 0.    *)
Placed[k \in 0 .. N] ==
  {s \in Steps : Predecessors(s) \subseteq IF k = 0 THEN {} ELSE Placed[k - 1]}

(* Mutant of Level: a step is placed with the first of its predecessors. *)
LevelOfFirst(s) ==
  IF Predecessors(s) = {} \/ s \notin Placed[N] THEN 0
  ELSE IF \E p \in Predecessors(s) : Predecessors(p) = {} THEN 1 ELSE 2

(* The round that placed s: there were so many before it. *)
Level(s) ==
  IF s \in Placed[N] THEN Cardinality({k \in 0 .. N : s \notin Placed[k]}) ELSE 0

HasCycle == \E C \in (SUBSET Steps) \ {{}} :
              \A s \in C : Predecessors(s) \cap C # {}

GraphValid == ~HasCycle /\ \A s \in Steps : Unknown \notin Predecessors(s)

(* executeRunPlan uses levels only for a track that declares a dependency. *)
ByLevels(t) ==
  \/ request.executor = "dag"
  \/ /\ request.executor = "levels"
     /\ \E e \in request.edges : TrackOf(e[2]) = t

Ranks == [s \in Steps |-> IF ByLevels(TrackOf(s)) THEN Level(s) ELSE s]

(* The steps the executor starts together. *)
Batch(t) ==
  LET waiting == {s \in StepsOf(t) : status[s] = "pending"}
  IN  {s \in waiting : \A r \in waiting : rank[s] <= rank[r]}

Among(t, st) == {s \in StepsOf(t) : status[s] = st}

-----------------------------------------------------------------------------
(* The executors *)

(* The promise of the executor is settled, with the plan's last status. *)
Settled(st, how) == plan' = st /\ outcome' = how

(* The next track begins, its input resolved from the request's and from    *)
(* the results of earlier tracks; if that fails so does the composition,   *)
(* also when the track is to be skipped.                                   *)
Begin(t, tracks) ==
  \/ /\ track' = [tracks EXCEPT ![t] = "running"]
     /\ plan' = "running"
     /\ UNCHANGED outcome
  \/ /\ IsComposition
     /\ track' = [tracks EXCEPT ![t] = "failed"]
     /\ Settled("failed", "thrown")

(* Mutant of TrackEnds: a skipped final track does not fail the plan. *)
TrackEndsAnyway(t, st, how) ==
  LET ended == [track EXCEPT ![t] = st]
  IN  IF ~IsComposition THEN track' = ended /\ Settled(st, how)
      ELSE IF st = "failed" /\ t \notin request.skips
           THEN track' = ended /\ Settled("failed", "thrown")
      ELSE IF t = 1 THEN Begin(2, ended)
      ELSE track' = ended /\ Settled("completed", "returned")

(* A track has ended with st, its executor having returned or thrown: what *)
(* executeCompositionPlan does next; without a composition the executor's  *)
(* promise is the caller's.                                                *)
TrackEnds(t, st, how) ==
  LET ended == [track EXCEPT ![t] = st]
  IN  IF ~IsComposition THEN track' = ended /\ Settled(st, how)
      ELSE IF st = "failed" /\ t \notin request.skips
           THEN track' = ended /\ Settled("failed", "thrown")
      ELSE IF t = 1 THEN Begin(2, ended)
      ELSE /\ track' = ended
           /\ IF ended[request.final] = "completed"
              THEN Settled("completed", "returned")
              ELSE Settled("failed", "thrown")

(* The call: the nodes are assigned when the policy is "distribute" and    *)
(* the plan is a single track, and the first track begins.  runTrack       *)
(* rejects an invalid graph in "dag" mode; the other executors take any.   *)
Submit ==
  /\ plan = "pending"
  /\ IF request.policy = "distribute" /\ ~IsComposition
     THEN /\ assigned' \in [Steps -> Nodes \cup {NoNode}]
          /\ IsPlacement(assigned')
     ELSE UNCHANGED assigned
  /\ rank' = Ranks
  /\ IF request.executor = "dag" /\ ~GraphValid
     THEN TrackEnds(1, "failed", "thrown")
     ELSE Begin(1, track)
  /\ UNCHANGED <<registry, stale, at, node, changes, request, status, answer>>

(* Of a failed step: executeDag stops before the next level, unless told   *)
(* not to; in the other executors the failure has ended the track.         *)
MayGoOn(t) == ~request.abort \/ Among(t, "failed") = {}

(* Mutants of LevelDone: the promises are not awaited; and only success is. *)
LevelStarted(t) == TRUE
LevelSucceeded(t) == Among(t, "running") = {} /\ Among(t, "failed") = {}

(* The steps started together have all ended (Promise.all, allSettled). *)
LevelDone(t) == Among(t, "running") = {}

StartBatch(t) ==
  /\ track[t] = "running" /\ LevelDone(t) /\ Batch(t) # {}
  /\ MayGoOn(t)
  /\ \E target \in [Batch(t) -> Nodes \cup {NoNode}] :
       /\ \A s \in Batch(t) : target[s] \in Targets(s, request.policy)
       /\ Dispatch(Batch(t), target)
  /\ status' = [s \in Steps |-> IF s \in Batch(t) THEN "running" ELSE status[s]]
  /\ UNCHANGED <<request, rank, track, plan, outcome, answer>>

StepCompletes(s) ==
  /\ status[s] = "running" /\ MayReturn(s)
  /\ Answered(s)
  /\ status' = [status EXCEPT ![s] = "completed"]
  /\ UNCHANGED <<request, rank, track, plan, outcome, answer>>

(* A step fails by what the router throws or, in executeRunPlan, when its  *)
(* output is not valid.                                                    *)
MayFail(s) ==
  \/ MayThrow(s)
  \/ request.executor \in OfPlan /\ MayReturn(s)

(* Mutant of Rejects: every failure ends the track once more. *)
RejectsAgain(s) == request.executor # "dag"

(* The promise of the track's executor is still pending. *)
Rejects(s) == request.executor # "dag" /\ track[TrackOf(s)] = "running"

(* The first failure rejects Promise.all, or leaves the loop: the executor *)
(* throws at once, while the steps started together go on.  executeDag     *)
(* waits for the level (Promise.allSettled).                               *)
StepFails(s) ==
  /\ status[s] = "running" /\ MayFail(s)
  /\ Answered(s)
  /\ status' = [status EXCEPT ![s] = "failed"]
  /\ IF Rejects(s) THEN TrackEnds(TrackOf(s), "failed", "thrown")
     ELSE UNCHANGED <<track, plan, outcome>>
  /\ UNCHANGED <<request, rank, answer>>

(* All steps of the track are done: assembleTrackResult.  In               *)
(* executeRunPlan the result may be invalid, which fails the track without *)
(* throwing; executeDag has failed if a step has.                          *)
EndTrack(t) ==
  /\ track[t] = "running" /\ LevelDone(t)
  /\ Among(t, "pending") = {} \/ ~MayGoOn(t)
  /\ \/ Among(t, "failed") = {} /\ TrackEnds(t, "completed", "returned")
     \/ /\ request.executor \in OfPlan
        /\ TrackEnds(t, "failed", "returned")
     \/ Among(t, "failed") # {} /\ TrackEnds(t, "failed", "thrown")
  /\ UNCHANGED <<relayVars, request, rank, status, answer>>

(* The caller tells what came of it.  The endpoint reads plan.steps of     *)
(* what the executor returns, which a composition does not have: the       *)
(* TypeError is caught as if the execution had failed.  So is an audit     *)
(* event that cannot be written; and the worker does not accept the result *)
(* of a track that fails its schema (evaluateExecutionOutcome).            *)
Reported ==
  IF outcome = "thrown" \/ (request.caller = "endpoint" /\ IsComposition)
  THEN "error"
  ELSE IF plan = "completed" THEN "success" ELSE "invalid"

Respond ==
  /\ outcome # "none" /\ answer = "none"
  /\ \/ answer' = Reported
     \/ /\ AuditMayFail /\ request.caller = "endpoint"
        /\ request.executor \in OfPlan
        /\ answer' = "error"
     \/ /\ request.caller = "worker" /\ request.executor \notin OfPlan
        /\ answer' = "invalid"
  /\ UNCHANGED <<relayVars, request, rank, status, track, plan, outcome>>

RegistryEvent ==
  /\ \E n \in Nodes :
       Register(n) \/ Unregister(n) \/ Heartbeat(n) \/ GoesSilent(n)
  /\ UNCHANGED planVars

(* The router moves a running step from its node to the local executor. *)
Reroute(s) ==
  /\ Refused(s) \/ Unusable(s) \/ FallsBack(s)
  /\ UNCHANGED planVars

Next ==
  \/ Submit
  \/ \E t \in Tracks : StartBatch(t) \/ EndTrack(t)
  \/ \E s \in Steps : StepCompletes(s) \/ StepFails(s) \/ Reroute(s)
  \/ Respond
  \/ RegistryEvent

Spec == Init /\ [][Next]_vars

(* The executors' own code runs: one of its steps is enabled at a time.    *)
(* A dispatched step ends: the connector aborts its request after          *)
(* timeoutMs, and the local runtime its own.                               *)
Fairness ==
  /\ WF_vars(Submit \/ (\E t \in Tracks : StartBatch(t) \/ EndTrack(t)) \/ Respond)
  /\ \A s \in Steps : WF_vars(StepCompletes(s) \/ StepFails(s) \/ Reroute(s))

FairSpec == Spec /\ Fairness

-----------------------------------------------------------------------------
(* Properties *)

(* The type invariant: a request, one status per step and track, and a     *)
(* running step, and no other, is in the hands of the router               *)
(* (executeStepViaRelayIfNeeded).                                          *)
PlanTypeOK ==
  /\ registry \in [Nodes -> Standings]
  /\ stale \subseteq {n \in Nodes : registry[n] # "absent"}
  /\ assigned \in [Steps -> Nodes \cup {NoNode}]
  /\ node \in [Steps -> Nodes \cup {NoNode}]
  /\ at \in [Steps -> Places]
  /\ changes \in 0 .. MaxRegistryChanges
  /\ request \in Requests
  /\ rank \in [Steps -> Nat]
  /\ status \in [Steps -> {"pending", "running", "completed", "failed"}]
  /\ track \in [Tracks -> {"pending", "running", "completed", "failed"}]
  /\ plan \in {"pending", "running", "completed", "failed"}
  /\ outcome \in {"none", "returned", "thrown"}
  /\ answer \in {"none", "success", "invalid", "error"}
  /\ \A s \in Steps :
       /\ status[s] = "pending" <=> at[s] = "idle"
       /\ status[s] = "running" <=> at[s] \in {"remote", "inTry", "local"}
       /\ at[s] \in {"remote", "inTry"} => node[s] \in Nodes

(* Executed by levels, a step starts only after all steps it refers to     *)
(* have completed, or have ended when the request goes on after failures   *)
(* (computeLevels, the level loops), provided that the graph is valid; and *)
(* executeDag starts nothing of a graph that is not.                       *)
DependenciesFirst ==
  \A s \in Steps :
    /\ ByLevels(TrackOf(s)) /\ status[s] # "pending"
    /\ GraphValid \/ request.executor = "dag"
    => \A p \in Predecessors(s) :
         /\ p # Unknown
         /\ status[p] = "completed" \/ (~request.abort /\ status[p] = "failed")

(* What was computed has ended well everywhere it counts: a completed      *)
(* track has only completed steps, a completed plan has completed its      *)
(* final track and every track that was not to be skipped, and a success   *)
(* is reported only of a completed plan.                                   *)
SuccessIsEarned ==
  /\ \A t \in Tracks : track[t] = "completed" =>
                         StepsOf(t) \subseteq Among(t, "completed")
  /\ plan = "completed" =>
       /\ track[request.final] = "completed"
       /\ \A t \in InUse : track[t] = "completed" \/ t \in request.skips
  /\ answer = "success" => plan = "completed"

(* A track that is over has steps running only if it was given up when one *)
(* of the steps started with them failed (Promise.all in executeRunPlan):  *)
(* not after it completed, and not in the three other executors.           *)
OnlyAbandonedLinger ==
  \A s \in Steps : status[s] = "running" /\ track[TrackOf(s)] # "running" =>
     /\ track[TrackOf(s)] = "failed"
     /\ request.executor = "levels"
     /\ \E r \in StepsOf(TrackOf(s)) : status[r] = "failed" /\ rank[r] = rank[s]

(* Settled steps, tracks, plans and answers never change, whatever comes   *)
(* in late; and no step of a track that has ended is started any more.     *)
EndsAreFinal ==
  [][/\ \A s \in Steps :
          /\ status[s] \in {"completed", "failed"} => status'[s] = status[s]
          /\ track[TrackOf(s)] # "running" /\ status[s] = "pending" =>
               status'[s] = "pending"
     /\ \A t \in Tracks :
          track[t] \in {"completed", "failed"} => track'[t] = track[t]
     /\ plan \in {"completed", "failed"} => plan' = plan
     /\ outcome # "none" => outcome' = outcome
     /\ answer # "none" => answer' = answer]_vars

(* Whatever happens to a node or in the registry while a step is out, the  *)
(* step fails only by what its local execution throws or, in               *)
(* executeRunPlan, by an output that does not validate.                    *)
RelayNeverFailsStep ==
  [][\A s \in Steps : status[s] = "running" /\ status'[s] = "failed" =>
       at[s] = "local" \/ request.executor \in OfPlan]_vars

(* Every request is answered in the end, and every started step ends, also *)
(* one the executor no longer waits for, on whatever node it was.          *)
EveryRequestEnds ==
  <>[](answer # "none" /\ \A s \in Steps : status[s] # "running")

(* "Workflows compose registered Tracks via POST /workflows/run"           *)
(* (docs/02-track-system/README.md:28): a plan that completed is answered  *)
(* as a success.                                                           *)
CompletedIsReported ==
  answer # "none" /\ plan = "completed" => answer = "success"

=============================================================================
