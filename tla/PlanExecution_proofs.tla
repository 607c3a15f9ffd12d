------------------------ MODULE PlanExecution_proofs ------------------------
(***************************************************************************)
(* What holds of PlanExecution for every number of steps and nodes, every  *)
(* graph and every bound: the type invariant, that a success is earned,    *)
(* who may still be running when a track is over, that ends are final, and *)
(* that dependencies come first: computeLevels orders every valid graph.   *)
(***************************************************************************)
EXTENDS PlanExecution, TLAPS, FiniteSetTheorems

(* How the two tracks, the plan and its promise follow one another. *)
TrackOrder ==
  /\ track[1] \in {"pending", "running"} => track[2] = "pending"
  /\ track[2] # "pending" =>
       /\ IsComposition
       /\ track[1] = "completed" \/ (track[1] = "failed" /\ 1 \in request.skips)
  /\ plan = "pending" <=> track[1] = "pending"
  /\ \A t \in Tracks : track[t] = "running" => plan = "running"
  /\ plan \in {"pending", "running"} <=> outcome = "none"
  /\ answer # "none" => outcome # "none"

(* The steps of a track begin with it, and run in turns. *)
StepOrder ==
  /\ \A s \in Steps : track[TrackOf(s)] = "pending" => status[s] = "pending"
  /\ \A s, r \in Steps :
       status[s] = "running" /\ status[r] = "running" /\ TrackOf(s) = TrackOf(r)
       => rank[s] = rank[r]
  /\ request.executor \in {"file", "linear"} /\ plan # "pending" =>
       \A s \in Steps : rank[s] = s

IInv ==
  PlanTypeOK /\ TrackOrder /\ StepOrder /\ SuccessIsEarned /\ OnlyAbandonedLinger

-----------------------------------------------------------------------------
(* Lemmas *)

LEMMA LevelType == \A s \in Steps : Level(s) \in Nat
<1> SUFFICES ASSUME NEW s \in Steps PROVE Level(s) \in Nat
  OBVIOUS
<1> DEFINE before == {k \in 0 .. N : s \notin Placed[k]}
<1>1. IsFiniteSet(0 .. N)
  BY FS_Interval, RelayAssumption
<1>2. IsFiniteSet(before)
  BY <1>1, FS_Subset
<1>3. Cardinality(before) \in Nat
  BY <1>2, FS_CardinalityType
<1> QED
  BY <1>3 DEF Level

LEMMA RanksType == Ranks \in [Steps -> Nat]
<1>1. Steps \subseteq Nat
  BY RelayAssumption DEF Steps
<1> QED
  BY <1>1, LevelType DEF Ranks

LEMMA TrackOfType == ASSUME request \in Requests
                     PROVE  \A s \in Steps : TrackOf(s) \in Tracks
  BY DEF TrackOf, Tracks

(* The end of a running track, or the rejection of the call, respects the  *)
(* order of the tracks and ends the plan only as its tracks have ended.    *)
LEMMA TrackEndsFacts ==
  ASSUME PlanTypeOK, TrackOrder, NEW t \in Tracks,
         NEW st \in {"completed", "failed"}, NEW how \in {"returned", "thrown"},
         \/ track[t] = "running"
         \/ plan = "pending" /\ t = 1 /\ ~IsComposition,
         TrackEnds(t, st, how), UNCHANGED <<request, answer>>
  PROVE  /\ track' \in [Tracks -> {"pending", "running", "completed", "failed"}]
         /\ plan' \in {"running", "completed", "failed"}
         /\ outcome' \in {"none", "returned", "thrown"}
         /\ track'[t] = st
         /\ \A u \in Tracks \ {t} :
              \/ track'[u] = track[u]
              \/ track[u] = "pending" /\ track'[u] \in {"running", "failed"}
         /\ TrackOrder'
         /\ plan' = "completed" =>
              /\ track'[request'.final] = "completed"
              /\ \A u \in InUse' : track'[u] = "completed" \/ u \in request'.skips
         /\ plan \notin {"completed", "failed"} /\ outcome = "none"
         /\ answer = "none"
<1> USE DEF Tracks
<1>0. /\ track \in [Tracks -> {"pending", "running", "completed", "failed"}]
      /\ request \in Requests /\ request' = request /\ answer' = answer
      /\ plan \in {"pending", "running", "completed", "failed"}
      /\ outcome \in {"none", "returned", "thrown"}
  BY DEF PlanTypeOK
<1>1. /\ request.cut = 0 => request.skips = {} /\ request.final = 1
      /\ request.final \in Tracks
  BY <1>0 DEF Requests
<1>2. plan \notin {"completed", "failed"} /\ outcome = "none" /\ answer = "none"
  BY <1>0 DEF TrackOrder
<1> DEFINE ended == [track EXCEPT ![t] = st]
<1>3. CASE ~IsComposition
  <2>1. t = 1
    BY <1>3 DEF TrackOrder
  <2>2. track' = ended /\ plan' = st /\ outcome' = how
    BY <1>3 DEF TrackEnds, Settled
  <2>3. IsComposition' = IsComposition /\ InUse' = {1}
    BY <1>0, <1>3 DEF IsComposition, InUse
  <2>4. TrackOrder'
    BY <1>0, <1>2, <1>3, <2>1, <2>2, <2>3 DEF TrackOrder
  <2> QED
    BY <1>0, <1>1, <1>2, <1>3, <2>1, <2>2, <2>3, <2>4 DEF IsComposition
<1>4. CASE IsComposition /\ st = "failed" /\ t \notin request.skips
  <2>1. track' = ended /\ plan' = "failed" /\ outcome' = "thrown"
    BY <1>4 DEF TrackEnds, Settled
  <2>2. IsComposition'
    BY <1>0, <1>4 DEF IsComposition
  <2>3. TrackOrder'
    BY <1>0, <1>2, <1>4, <2>1, <2>2 DEF TrackOrder
  <2> QED
    BY <1>0, <1>2, <1>4, <2>1, <2>3
<1>5. CASE IsComposition /\ ~(st = "failed" /\ t \notin request.skips) /\ t = 1
  <2>1. IsComposition' /\ track[1] = "running" /\ track[2] = "pending" /\ plan = "running"
    BY <1>0, <1>5 DEF IsComposition, TrackOrder
  <2>2. Begin(2, ended)
    BY <1>5 DEF TrackEnds
  <2>3. CASE /\ track' = [ended EXCEPT ![2] = "running"]
             /\ plan' = "running" /\ outcome' = outcome
    <3>1. TrackOrder'
      BY <1>0, <1>2, <1>5, <2>1, <2>3 DEF TrackOrder
    <3> QED
      BY <1>0, <1>2, <1>5, <2>1, <2>3, <3>1
  <2>4. CASE /\ track' = [ended EXCEPT ![2] = "failed"]
             /\ plan' = "failed" /\ outcome' = "thrown"
    <3>1. TrackOrder'
      BY <1>0, <1>2, <1>5, <2>1, <2>4 DEF TrackOrder
    <3> QED
      BY <1>0, <1>2, <1>5, <2>1, <2>4, <3>1
  <2> QED
    BY <2>2, <2>3, <2>4 DEF Begin, Settled
<1>6. CASE IsComposition /\ ~(st = "failed" /\ t \notin request.skips) /\ t = 2
  <2>1. /\ track' = ended
        /\ \/ ended[request.final] = "completed" /\ plan' = "completed" /\ outcome' = "returned"
           \/ plan' = "failed" /\ outcome' = "thrown"
    BY <1>6 DEF TrackEnds, Settled
  <2>2. /\ IsComposition' /\ track[2] = "running"
        /\ track[1] = "completed" \/ (track[1] = "failed" /\ 1 \in request.skips)
    BY <1>0, <1>6 DEF IsComposition, TrackOrder
  <2>3. TrackOrder'
    BY <1>0, <1>2, <1>6, <2>1, <2>2 DEF TrackOrder
  <2> QED
    BY <1>0, <1>1, <1>2, <1>6, <2>1, <2>2, <2>3 DEF InUse
<1> QED
  BY <1>3, <1>4, <1>5, <1>6

-----------------------------------------------------------------------------
(* The inductive invariant: one lemma per action *)

LEMMA InitIInv == Init => IInv
<1> SUFFICES ASSUME Init PROVE IInv
  OBVIOUS
<1>1. PlanTypeOK
  BY RelayAssumption DEF Init, RelayInit, PlanTypeOK, Standings, Places
<1>2. TrackOrder
  BY DEF Init, TrackOrder, Tracks
<1>3. StepOrder
  BY DEF Init, StepOrder
<1>4. SuccessIsEarned
  BY DEF Init, SuccessIsEarned
<1>5. OnlyAbandonedLinger
  BY DEF Init, OnlyAbandonedLinger
<1> QED
  BY <1>1, <1>2, <1>3, <1>4, <1>5 DEF IInv

(* A step of the relay moves running steps only, and among places where    *)
(* they are running.                                                       *)
LEMMA RelayStep ==
  ASSUME IInv, UNCHANGED planVars, NEW S \in SUBSET Steps,
         registry' \in [Nodes -> Standings],
         stale' \subseteq {n \in Nodes : registry'[n] # "absent"},
         changes' \in 0 .. MaxRegistryChanges,
         UNCHANGED <<assigned, node>>,
         at' \in [Steps -> Places],
         \A s \in Steps : at'[s] = at[s] \/ (at[s] \in {"remote", "inTry"}
                                             /\ at'[s] \in {"inTry", "local"})
  PROVE  IInv'
<1> USE DEF planVars
<1>1. PlanTypeOK'
  BY DEF IInv, PlanTypeOK
<1>2. TrackOrder' /\ StepOrder'
  BY DEF IInv, TrackOrder, StepOrder, IsComposition, TrackOf
<1>3. SuccessIsEarned' /\ OnlyAbandonedLinger'
  BY DEF IInv, SuccessIsEarned, OnlyAbandonedLinger, StepsOf, Among, InUse,
         IsComposition, TrackOf
<1> QED
  BY <1>1, <1>2, <1>3 DEF IInv

LEMMA RegistryEventIInv == IInv /\ RegistryEvent => IInv'
<1> SUFFICES ASSUME IInv, RegistryEvent PROVE IInv'
  OBVIOUS
<1>1. PICK n \in Nodes : Register(n) \/ Unregister(n) \/ Heartbeat(n) \/ GoesSilent(n)
  BY DEF RegistryEvent
<1>2. /\ registry' \in [Nodes -> Standings]
      /\ stale' \subseteq {m \in Nodes : registry'[m] # "absent"}
      /\ changes' \in 0 .. MaxRegistryChanges
      /\ UNCHANGED <<assigned, at, node>>
  BY <1>1, RelayAssumption
  DEF IInv, PlanTypeOK, Register, Unregister, Heartbeat, GoesSilent,
      RegistryChange, Standings
<1>3. at' \in [Steps -> Places] /\ UNCHANGED planVars
  BY <1>2 DEF IInv, PlanTypeOK, RegistryEvent
<1> QED
  BY <1>2, <1>3, RelayStep

LEMMA RerouteIInv == ASSUME NEW s \in Steps, IInv, Reroute(s) PROVE IInv'
<1>1. PlanTypeOK
  BY DEF IInv
<1>2. node[s] \in Nodes /\ at[s] \in {"remote", "inTry"}
  BY <1>1 DEF Reroute, Refused, Unusable, FallsBack, PlanTypeOK
<1>3. /\ registry' \in [Nodes -> Standings]
      /\ \A n \in Nodes : registry'[n] = "absent" <=> registry[n] = "absent"
  BY <1>1, <1>2
  DEF Reroute, Refused, Unusable, FallsBack, Marked, PlanTypeOK, Standings
<1>4. /\ at' \in [Steps -> Places]
      /\ at'[s] \in {"inTry", "local"}
      /\ \A r \in Steps \ {s} : at'[r] = at[r]
  BY <1>1 DEF Reroute, Refused, Unusable, FallsBack, PlanTypeOK, Places
<1>5. UNCHANGED <<stale, assigned, node, changes>> /\ UNCHANGED planVars
  BY DEF Reroute, Refused, Unusable, FallsBack
<1>6. stale' \subseteq {n \in Nodes : registry'[n] # "absent"}
  BY <1>1, <1>3, <1>5 DEF PlanTypeOK
<1>7. changes' \in 0 .. MaxRegistryChanges
  BY <1>1, <1>5 DEF PlanTypeOK
<1>8. \A r \in Steps : at'[r] = at[r] \/ (at[r] \in {"remote", "inTry"}
                                          /\ at'[r] \in {"inTry", "local"})
  BY <1>2, <1>4
<1> QED
  BY <1>3, <1>4, <1>5, <1>6, <1>7, <1>8, RelayStep

LEMMA RespondIInv == IInv /\ Respond => IInv'
<1> SUFFICES ASSUME IInv, Respond PROVE IInv'
  OBVIOUS
<1>1. UNCHANGED <<relayVars, request, rank, status, track, plan, outcome>>
  BY DEF Respond
<1>2. /\ answer' \in {"success", "invalid", "error"}
      /\ answer' = "success" => plan = "completed"
  BY DEF Respond, Reported
<1>3. PlanTypeOK'
  BY <1>1, <1>2 DEF IInv, PlanTypeOK, relayVars
<1>4. TrackOrder'
  BY <1>1, <1>2 DEF IInv, TrackOrder, IsComposition, Respond
<1>5. StepOrder'
  BY <1>1 DEF IInv, StepOrder, TrackOf, IsComposition
<1>6. SuccessIsEarned'
  BY <1>1, <1>2
  DEF IInv, SuccessIsEarned, StepsOf, Among, InUse, IsComposition, TrackOf
<1>7. OnlyAbandonedLinger'
  BY <1>1 DEF IInv, OnlyAbandonedLinger, StepsOf, IsComposition, TrackOf
<1> QED
  BY <1>3, <1>4, <1>5, <1>6, <1>7 DEF IInv

LEMMA SubmitIInv == IInv /\ Submit => IInv'
<1> SUFFICES ASSUME IInv, Submit PROVE IInv'
  OBVIOUS
<1>0. PlanTypeOK /\ TrackOrder /\ StepOrder /\ SuccessIsEarned
  BY DEF IInv
<1>1. /\ UNCHANGED <<registry, stale, at, node, changes, request, status, answer>>
      /\ plan = "pending" /\ rank' = Ranks
      /\ assigned' \in [Steps -> Nodes \cup {NoNode}]
  BY <1>0 DEF Submit, PlanTypeOK
<1>2. track[1] = "pending" /\ track[2] = "pending" /\ answer = "none" /\ outcome = "none"
  BY <1>0, <1>1 DEF TrackOrder, PlanTypeOK
<1>3. \A s \in Steps : status[s] = "pending"
  BY <1>0, <1>1, <1>2, TrackOfType DEF StepOrder, PlanTypeOK, Tracks
<1>4. /\ track' \in [Tracks -> {"pending", "running", "completed", "failed"}]
      /\ plan' \in {"running", "failed"}
      /\ outcome' \in {"none", "returned", "thrown"}
      /\ TrackOrder'
      /\ track'[1] \in {"running", "failed"} /\ track'[2] = "pending"
  <2>1. CASE request.executor = "dag" /\ ~GraphValid
    <3>1. TrackEnds(1, "failed", "thrown")
      BY <2>1 DEF Submit
    <3>2. ~IsComposition
      BY <1>0, <2>1 DEF PlanTypeOK, Requests, OfPlan, IsComposition
    <3>3. track' = [track EXCEPT ![1] = "failed"] /\ plan' = "failed" /\ outcome' = "thrown"
      BY <3>1, <3>2 DEF TrackEnds, Settled
    <3>4. TrackOrder'
      BY <1>0, <1>1, <1>2, <3>2, <3>3
      DEF TrackOrder, IsComposition, PlanTypeOK, Tracks
    <3> QED
      BY <1>0, <1>2, <3>3, <3>4 DEF PlanTypeOK, Tracks
  <2>2. CASE ~(request.executor = "dag" /\ ~GraphValid)
    <3>1. \/ /\ track' = [track EXCEPT ![1] = "running"]
             /\ plan' = "running" /\ outcome' = outcome
          \/ /\ track' = [track EXCEPT ![1] = "failed"]
             /\ plan' = "failed" /\ outcome' = "thrown"
      BY <2>2 DEF Submit, Begin, Settled
    <3>2. TrackOrder'
      BY <1>0, <1>1, <1>2, <3>1 DEF TrackOrder, IsComposition, PlanTypeOK, Tracks
    <3> QED
      BY <1>0, <1>2, <3>1, <3>2 DEF PlanTypeOK, Tracks
  <2> QED
    BY <2>1, <2>2
<1>5. PlanTypeOK'
  BY <1>0, <1>1, <1>4, RanksType DEF PlanTypeOK
<1>6. StepOrder'
  <2>1. request.executor \in {"file", "linear"} => \A s \in Steps : Ranks[s] = s
    BY DEF Ranks, ByLevels
  <2> QED
    BY <1>1, <1>3, <2>1 DEF StepOrder
<1>7. SuccessIsEarned'
  BY <1>1, <1>2, <1>4 DEF SuccessIsEarned, Tracks
<1>8. OnlyAbandonedLinger'
  BY <1>1, <1>3 DEF OnlyAbandonedLinger
<1> QED
  BY <1>4, <1>5, <1>6, <1>7, <1>8 DEF IInv

LEMMA StartBatchIInv == ASSUME NEW t \in Tracks, IInv, StartBatch(t) PROVE IInv'
<1> DEFINE S == Batch(t)
<1>0. PlanTypeOK /\ TrackOrder /\ StepOrder /\ SuccessIsEarned /\ OnlyAbandonedLinger
  BY DEF IInv
<1>1. /\ track[t] = "running" /\ Among(t, "running") = {}
      /\ UNCHANGED <<request, rank, track, plan, outcome, answer>>
      /\ status' = [s \in Steps |-> IF s \in S THEN "running" ELSE status[s]]
  BY DEF StartBatch, LevelDone
<1>2. PICK target \in [S -> Nodes \cup {NoNode}] : Dispatch(S, target)
  BY DEF StartBatch
<1>3. S \subseteq {s \in StepsOf(t) : status[s] = "pending"}
  BY DEF Batch
<1>4. \A s \in S : s \in Steps /\ TrackOf(s) = t /\ status[s] = "pending"
  BY <1>3 DEF StepsOf
<1>5. \A s, r \in S : rank[s] = rank[r]
  <2>1. \A s \in Steps : rank[s] \in Nat
    BY <1>0 DEF PlanTypeOK
  <2>2. \A s, r \in S : rank[s] <= rank[r]
    BY DEF Batch
  <2> QED
    BY <1>4, <2>1, <2>2
<1>6. /\ UNCHANGED <<registry, stale, assigned, changes>>
      /\ \A s \in Steps \ S : at'[s] = at[s] /\ node'[s] = node[s]
      /\ \A s \in S : \/ at'[s] = "local"
                      \/ at'[s] = "remote" /\ node'[s] \in Nodes
      /\ at' \in [Steps -> Places]
      /\ node' \in [Steps -> Nodes \cup {NoNode}]
  <2>1. \A s \in S : target[s] \in Nodes \cup {NoNode}
    OBVIOUS
  <2>2. /\ at' = [s \in Steps |->
                   IF s \notin S THEN at[s]
                   ELSE IF target[s] = NoNode THEN "local" ELSE "remote"]
        /\ node' = [s \in Steps |-> IF s \in S THEN target[s] ELSE node[s]]
        /\ UNCHANGED <<registry, stale, assigned, changes>>
    BY <1>2 DEF Dispatch
  <2>3. ASSUME NEW s \in Steps \ S PROVE at'[s] = at[s] /\ node'[s] = node[s]
    <3>1. s \in Steps /\ s \notin S
      OBVIOUS
    <3>2. node'[s] = node[s]
      BY <2>2, <3>1
    <3>3. at'[s] = at[s]
      BY <2>2, <3>1
    <3> QED
      BY <3>2, <3>3
  <2>4. \A s \in S : \/ at'[s] = "local"
                     \/ at'[s] = "remote" /\ node'[s] \in Nodes
    BY <1>4, <2>1, <2>2
  <2>5. node' \in [Steps -> Nodes \cup {NoNode}]
    BY <1>0, <2>1, <2>2 DEF PlanTypeOK
  <2>6. \A s \in Steps : at'[s] \in Places
    BY <1>0, <2>3, <2>4 DEF PlanTypeOK, Places
  <2> QED
    BY <2>2, <2>3, <2>4, <2>5, <2>6
<1>7. PlanTypeOK'
  BY <1>0, <1>1, <1>4, <1>6 DEF PlanTypeOK
<1>8. TrackOrder'
  BY <1>0, <1>1 DEF TrackOrder, IsComposition
<1>9. StepOrder'
  <2>1. \A s \in Steps : TrackOf(s) = t => status[s] # "running"
    BY <1>1 DEF Among, StepsOf
  <2>2. \A s \in Steps : TrackOf(s)' = TrackOf(s)
    BY <1>1 DEF TrackOf, IsComposition
  <2>3. \A s, r \in Steps :
          status'[s] = "running" /\ status'[r] = "running" /\ TrackOf(s) = TrackOf(r)
          => rank[s] = rank[r]
    BY <1>0, <1>1, <1>4, <1>5, <2>1 DEF StepOrder
  <2>4. \A s \in Steps : track'[TrackOf(s)] = "pending" => status'[s] = "pending"
    BY <1>0, <1>1, <1>4 DEF StepOrder
  <2> QED
    BY <1>0, <1>1, <2>2, <2>3, <2>4 DEF StepOrder
<1>10. SuccessIsEarned'
  <2>1. \A u \in Tracks : StepsOf(u)' = StepsOf(u) /\ InUse' = InUse
    BY <1>1 DEF StepsOf, TrackOf, IsComposition, InUse
  <2>2. \A u \in Tracks : track[u] = "completed" => \A s \in StepsOf(u) : s \notin S
    BY <1>1, <1>4 DEF StepsOf
  <2>3. \A u \in Tracks : track'[u] = "completed" =>
                            StepsOf(u)' \subseteq Among(u, "completed")'
    BY <1>0, <1>1, <2>1, <2>2 DEF SuccessIsEarned, Among, StepsOf
  <2> QED
    BY <1>0, <1>1, <2>1, <2>3 DEF SuccessIsEarned
<1>11. OnlyAbandonedLinger'
  <2>1. \A s \in Steps : TrackOf(s)' = TrackOf(s) /\ StepsOf(TrackOf(s))' = StepsOf(TrackOf(s))
    BY <1>1 DEF TrackOf, IsComposition, StepsOf
  <2>2. \A s \in Steps : track'[TrackOf(s)] # "running" => status'[s] = status[s]
    BY <1>1, <1>4
  <2>3. \A r \in Steps : status[r] = "failed" => status'[r] = "failed"
    BY <1>1, <1>4
  <2> QED
    BY <1>0, <1>1, <2>1, <2>2, <2>3 DEF OnlyAbandonedLinger, StepsOf
<1> QED
  BY <1>7, <1>8, <1>9, <1>10, <1>11 DEF IInv

(* The end of one running step, without regard to its track. *)
LEMMA StepEnds ==
  ASSUME IInv, NEW s \in Steps, status[s] = "running", Answered(s),
         NEW st \in {"completed", "failed"},
         status' = [status EXCEPT ![s] = st], UNCHANGED <<request, rank>>
  PROVE  /\ status' \in [Steps -> {"pending", "running", "completed", "failed"}]
         /\ registry' \in [Nodes -> Standings]
         /\ stale' \subseteq {n \in Nodes : registry'[n] # "absent"}
         /\ assigned' \in [Steps -> Nodes \cup {NoNode}]
         /\ node' \in [Steps -> Nodes \cup {NoNode}]
         /\ at' \in [Steps -> Places]
         /\ changes' \in 0 .. MaxRegistryChanges
         /\ request' \in Requests /\ rank' \in [Steps -> Nat]
         /\ \A r \in Steps :
              /\ status'[r] = "pending" <=> at'[r] = "idle"
              /\ status'[r] = "running" <=> at'[r] \in {"remote", "inTry", "local"}
              /\ at'[r] \in {"remote", "inTry"} => node'[r] \in Nodes
  BY DEF IInv, PlanTypeOK, Answered, Places

LEMMA StepCompletesIInv ==
  ASSUME NEW s \in Steps, IInv, StepCompletes(s) PROVE IInv'
<1>0. PlanTypeOK /\ TrackOrder /\ StepOrder /\ SuccessIsEarned /\ OnlyAbandonedLinger
  BY DEF IInv
<1>1. /\ status[s] = "running" /\ Answered(s)
      /\ status' = [status EXCEPT ![s] = "completed"]
      /\ UNCHANGED <<request, rank, track, plan, outcome, answer>>
  BY DEF StepCompletes
<1>2. \A r \in Steps : /\ TrackOf(r)' = TrackOf(r)
                       /\ StepsOf(TrackOf(r))' = StepsOf(TrackOf(r))
  BY <1>1 DEF TrackOf, IsComposition, StepsOf
<1>3. PlanTypeOK'
  BY <1>0, <1>1, StepEnds DEF PlanTypeOK
<1>4. TrackOrder'
  BY <1>0, <1>1 DEF TrackOrder, IsComposition
<1>5. /\ status' \in [Steps -> {"pending", "running", "completed", "failed"}]
      /\ \A r \in Steps \ {s} : status'[r] = status[r]
      /\ status'[s] = "completed"
  BY <1>0, <1>1 DEF PlanTypeOK
<1>6. StepOrder'
  BY <1>0, <1>1, <1>2, <1>5 DEF StepOrder
<1>7. SuccessIsEarned'
  <2>1. InUse' = InUse /\ \A u \in Tracks : StepsOf(u)' = StepsOf(u)
    BY <1>1 DEF StepsOf, TrackOf, IsComposition, InUse
  <2>2. ASSUME NEW u \in Tracks, track[u] = "completed"
        PROVE  StepsOf(u) \subseteq {r \in StepsOf(u) : status'[r] = "completed"}
    <3>1. \A r \in StepsOf(u) : r \in Steps /\ status[r] = "completed"
      BY <1>0, <2>2 DEF SuccessIsEarned, Among, StepsOf
    <3> QED
      BY <1>5, <3>1
  <2>3. \A u \in Tracks : track'[u] = "completed" =>
                            StepsOf(u)' \subseteq Among(u, "completed")'
    BY <1>1, <2>1, <2>2 DEF Among
  <2> QED
    BY <1>0, <1>1, <2>1, <2>3 DEF SuccessIsEarned
<1>8. OnlyAbandonedLinger'
  BY <1>0, <1>1, <1>2, <1>5 DEF OnlyAbandonedLinger, StepsOf
<1> QED
  BY <1>3, <1>4, <1>6, <1>7, <1>8 DEF IInv

LEMMA StepFailsIInv == ASSUME NEW s \in Steps, IInv, StepFails(s) PROVE IInv'
<1> DEFINE t == TrackOf(s)
<1>0. PlanTypeOK /\ TrackOrder /\ StepOrder /\ SuccessIsEarned /\ OnlyAbandonedLinger
  BY DEF IInv
<1>1. /\ status[s] = "running" /\ Answered(s)
      /\ status' = [status EXCEPT ![s] = "failed"]
      /\ UNCHANGED <<request, rank, answer>>
  BY DEF StepFails
<1>2. /\ \A r \in Steps : /\ TrackOf(r)' = TrackOf(r)
                          /\ StepsOf(TrackOf(r))' = StepsOf(TrackOf(r))
      /\ \A u \in Tracks : StepsOf(u)' = StepsOf(u)
      /\ InUse' = InUse /\ IsComposition' = IsComposition
  BY <1>1 DEF TrackOf, IsComposition, StepsOf, InUse
<1>3. /\ status' \in [Steps -> {"pending", "running", "completed", "failed"}]
      /\ \A r \in Steps \ {s} : status'[r] = status[r]
      /\ status'[s] = "failed"
  BY <1>0, <1>1 DEF PlanTypeOK
<1>4. t \in Tracks /\ \A r \in Steps : TrackOf(r) \in Tracks
  BY <1>0, TrackOfType DEF PlanTypeOK
<1>5. track[t] # "completed" /\ track[t] # "pending"
  BY <1>0, <1>1, <1>4 DEF SuccessIsEarned, StepOrder, StepsOf, Among, PlanTypeOK
<1>6. CASE Rejects(s)
  <2>1. track[t] = "running" /\ request.executor # "dag" /\ TrackEnds(t, "failed", "thrown")
    BY <1>6 DEF Rejects, StepFails
  <2>2. /\ track' \in [Tracks -> {"pending", "running", "completed", "failed"}]
        /\ plan' \in {"running", "completed", "failed"}
        /\ outcome' \in {"none", "returned", "thrown"}
        /\ track'[t] = "failed"
        /\ \A u \in Tracks \ {t} :
             \/ track'[u] = track[u]
             \/ track[u] = "pending" /\ track'[u] \in {"running", "failed"}
        /\ TrackOrder'
        /\ plan' = "completed" =>
             /\ track'[request'.final] = "completed"
             /\ \A u \in InUse' : track'[u] = "completed" \/ u \in request'.skips
        /\ answer = "none"
    BY <1>0, <1>1, <1>4, <2>1, TrackEndsFacts
  <2>3. PlanTypeOK'
    BY <1>0, <1>1, <2>2, StepEnds DEF PlanTypeOK
  <2>4. StepOrder'
    <3>1. \A r \in Steps : track'[TrackOf(r)] = "pending" => status'[r] = "pending"
      BY <1>0, <1>3, <1>4, <2>2 DEF StepOrder
    <3>2. plan # "pending"
      BY <1>0, <1>4, <2>1 DEF TrackOrder
    <3> QED
      BY <1>0, <1>1, <1>2, <1>3, <3>1, <3>2 DEF StepOrder
  <2>5. SuccessIsEarned'
    <3>1. \A u \in Tracks : track'[u] = "completed" => u # t /\ track[u] = "completed"
      BY <2>2
    <3>2. \A u \in Tracks : track'[u] = "completed" =>
                              StepsOf(u)' \subseteq Among(u, "completed")'
      BY <1>0, <1>2, <1>3, <3>1 DEF SuccessIsEarned, Among, StepsOf
    <3> QED
      BY <1>1, <2>2, <3>2 DEF SuccessIsEarned
  <2>6. OnlyAbandonedLinger'
    <3> SUFFICES ASSUME NEW r \in Steps, status'[r] = "running",
                        track'[TrackOf(r)] # "running"
                 PROVE  /\ track'[TrackOf(r)] = "failed"
                        /\ request.executor = "levels"
                        /\ \E q \in StepsOf(TrackOf(r)) :
                             status'[q] = "failed" /\ rank[q] = rank[r]
      BY <1>1, <1>2 DEF OnlyAbandonedLinger
    <3>1. r # s /\ status[r] = "running"
      BY <1>3
    <3>2. CASE TrackOf(r) = t
      <4>1. rank[r] = rank[s]
        BY <1>0, <1>1, <3>1, <3>2 DEF StepOrder
      <4>2. request.executor \notin {"file", "linear"}
        BY <1>0, <1>4, <2>1, <3>1, <4>1 DEF StepOrder, TrackOrder
      <4>3. request.executor = "levels"
        BY <1>0, <2>1, <4>2 DEF PlanTypeOK, Requests, Executors
      <4>4. s \in StepsOf(TrackOf(r))
        BY <3>2 DEF StepsOf
      <4> QED
        BY <1>3, <2>2, <3>2, <4>1, <4>3, <4>4
    <3>3. CASE TrackOf(r) # t
      <4>1. track[TrackOf(r)] # "pending"
        BY <1>0, <3>1 DEF StepOrder
      <4>2. track[TrackOf(r)] = track'[TrackOf(r)]
        BY <1>4, <2>2, <3>3, <4>1
      <4>3. PICK q \in StepsOf(TrackOf(r)) : status[q] = "failed" /\ rank[q] = rank[r]
        BY <1>0, <3>1, <4>2 DEF OnlyAbandonedLinger
      <4>4. status'[q] = "failed"
        BY <1>3, <4>3 DEF StepsOf
      <4> QED
        BY <1>0, <3>1, <4>2, <4>3, <4>4 DEF OnlyAbandonedLinger
    <3> QED
      BY <3>2, <3>3
  <2> QED
    BY <2>2, <2>3, <2>4, <2>5, <2>6 DEF IInv
<1>7. CASE ~Rejects(s)
  <2>1. UNCHANGED <<track, plan, outcome>>
    BY <1>7 DEF StepFails
  <2>2. PlanTypeOK'
    BY <1>0, <1>1, <2>1, StepEnds DEF PlanTypeOK
  <2>3. TrackOrder'
    BY <1>0, <1>1, <1>2, <2>1 DEF TrackOrder
  <2>4. StepOrder'
    BY <1>0, <1>1, <1>2, <1>3, <1>5, <2>1 DEF StepOrder
  <2>5. SuccessIsEarned'
    BY <1>0, <1>1, <1>2, <1>3, <1>5, <2>1 DEF SuccessIsEarned, Among, StepsOf
  <2>6. OnlyAbandonedLinger'
    BY <1>0, <1>1, <1>2, <1>3, <2>1 DEF OnlyAbandonedLinger, StepsOf
  <2> QED
    BY <2>2, <2>3, <2>4, <2>5, <2>6 DEF IInv
<1> QED
  BY <1>6, <1>7

LEMMA EndTrackIInv == ASSUME NEW t \in Tracks, IInv, EndTrack(t) PROVE IInv'
<1>0. PlanTypeOK /\ TrackOrder /\ StepOrder /\ SuccessIsEarned /\ OnlyAbandonedLinger
  BY DEF IInv
<1>1. /\ track[t] = "running" /\ Among(t, "running") = {}
      /\ UNCHANGED <<relayVars, request, rank, status, answer>>
  BY DEF EndTrack, LevelDone
<1>2. PICK st \in {"completed", "failed"}, how \in {"returned", "thrown"} :
        /\ TrackEnds(t, st, how)
        /\ st = "completed" => Among(t, "failed") = {} /\ Among(t, "pending") = {}
  BY DEF EndTrack, MayGoOn
<1>3. /\ track' \in [Tracks -> {"pending", "running", "completed", "failed"}]
      /\ plan' \in {"running", "completed", "failed"}
      /\ outcome' \in {"none", "returned", "thrown"}
      /\ track'[t] = st
      /\ \A u \in Tracks \ {t} :
           \/ track'[u] = track[u]
           \/ track[u] = "pending" /\ track'[u] \in {"running", "failed"}
      /\ TrackOrder'
      /\ plan' = "completed" =>
           /\ track'[request'.final] = "completed"
           /\ \A u \in InUse' : track'[u] = "completed" \/ u \in request'.skips
      /\ answer = "none"
  BY <1>0, <1>1, <1>2, TrackEndsFacts
<1>4. /\ \A r \in Steps : /\ TrackOf(r)' = TrackOf(r) /\ TrackOf(r) \in Tracks
                          /\ StepsOf(TrackOf(r))' = StepsOf(TrackOf(r))
      /\ \A u \in Tracks : StepsOf(u)' = StepsOf(u)
  BY <1>0, <1>1, TrackOfType DEF TrackOf, IsComposition, StepsOf, PlanTypeOK
<1>5. PlanTypeOK'
  BY <1>0, <1>1, <1>3 DEF PlanTypeOK, relayVars
<1>6. StepOrder'
  <2>1. plan # "pending"
    BY <1>0, <1>1 DEF TrackOrder
  <2> QED
    BY <1>0, <1>1, <1>3, <1>4, <2>1 DEF StepOrder
<1>7. SuccessIsEarned'
  <2>1. ASSUME NEW u \in Tracks, track'[u] = "completed"
        PROVE  StepsOf(u)' \subseteq Among(u, "completed")'
    <3>1. CASE u = t
      <4>1. Among(t, "failed") = {} /\ Among(t, "pending") = {}
        BY <1>2, <1>3, <2>1, <3>1
      <4> QED
        BY <1>0, <1>1, <1>4, <3>1, <4>1 DEF Among, StepsOf, PlanTypeOK
    <3>2. CASE u # t
      <4>1. track[u] = "completed"
        BY <1>3, <2>1, <3>2
      <4> QED
        BY <1>0, <1>1, <1>4, <4>1 DEF SuccessIsEarned, Among
    <3> QED
      BY <3>1, <3>2
  <2> QED
    BY <1>1, <1>3, <2>1 DEF SuccessIsEarned
<1>8. OnlyAbandonedLinger'
  <2> SUFFICES ASSUME NEW r \in Steps, status[r] = "running",
                      track'[TrackOf(r)] # "running"
               PROVE  /\ track'[TrackOf(r)] = "failed"
                      /\ request.executor = "levels"
                      /\ \E q \in StepsOf(TrackOf(r)) :
                           status[q] = "failed" /\ rank[q] = rank[r]
    BY <1>1, <1>4 DEF OnlyAbandonedLinger
  <2>1. TrackOf(r) # t
    BY <1>1 DEF Among, StepsOf
  <2>2. track[TrackOf(r)] # "pending"
    BY <1>0 DEF StepOrder
  <2>3. track[TrackOf(r)] = track'[TrackOf(r)]
    BY <1>3, <1>4, <2>1, <2>2
  <2> QED
    BY <1>0, <2>3 DEF OnlyAbandonedLinger
<1> QED
  BY <1>3, <1>5, <1>6, <1>7, <1>8 DEF IInv

(* Every action keeps the invariant, and so does a stuttering step. *)
LEMMA NextIInv == IInv /\ [Next]_vars => IInv'
<1> SUFFICES ASSUME IInv, [Next]_vars PROVE IInv'
  OBVIOUS
<1>1. CASE Submit
  BY <1>1, SubmitIInv
<1>2. ASSUME NEW t \in Tracks, StartBatch(t) \/ EndTrack(t) PROVE IInv'
  BY <1>2, StartBatchIInv, EndTrackIInv
<1>3. ASSUME NEW s \in Steps, StepCompletes(s) \/ StepFails(s) \/ Reroute(s)
      PROVE  IInv'
  BY <1>3, StepCompletesIInv, StepFailsIInv, RerouteIInv
<1>4. CASE Respond
  BY <1>4, RespondIInv
<1>5. CASE RegistryEvent
  BY <1>5, RegistryEventIInv
<1>6. CASE UNCHANGED vars
  BY <1>6 DEF vars, relayVars, planVars, IInv, PlanTypeOK, TrackOrder, StepOrder,
              SuccessIsEarned, OnlyAbandonedLinger, IsComposition, TrackOf, StepsOf,
              InUse, Among
<1> QED
  BY <1>1, <1>2, <1>3, <1>4, <1>5, <1>6 DEF Next

LEMMA SpecIInv == Spec => []IInv
  BY InitIInv, NextIInv, PTL DEF Spec

-----------------------------------------------------------------------------
(* Theorems *)

(* The type invariant, with what it says of the steps the router holds. *)
THEOREM PlanTypeCorrect == Spec => []PlanTypeOK
<1>1. IInv => PlanTypeOK
  BY DEF IInv
<1> QED
  BY <1>1, SpecIInv, PTL

(* Whatever the steps and nodes do, in any order: a track is completed only *)
(* with all its steps, a plan only with the tracks that count, and a       *)
(* success is reported only of a completed plan.                           *)
THEOREM SuccessAlwaysEarned == Spec => []SuccessIsEarned
<1>1. IInv => SuccessIsEarned
  BY DEF IInv
<1> QED
  BY <1>1, SpecIInv, PTL

(* Only a track run by levels leaves steps running when it is over, and    *)
(* only when a step started together with them has failed.                 *)
THEOREM OnlyAbandonedStepsLinger == Spec => []OnlyAbandonedLinger
<1>1. IInv => OnlyAbandonedLinger
  BY DEF IInv
<1> QED
  BY <1>1, SpecIInv, PTL

(* A step fails only where StepFails says so: not by what nodes do. *)
THEOREM RelayFailuresStayLocal == Spec => RelayNeverFailsStep
<1> DEFINE A == \A s \in Steps : status[s] = "running" /\ status'[s] = "failed" =>
                  at[s] = "local" \/ request.executor \in OfPlan
<1>1. ASSUME PlanTypeOK, Next PROVE A
  <2> SUFFICES ASSUME NEW s \in Steps, status[s] = "running", status'[s] = "failed"
               PROVE  at[s] = "local" \/ request.executor \in OfPlan
    OBVIOUS
  <2>1. status \in [Steps -> {"pending", "running", "completed", "failed"}]
    BY <1>1 DEF PlanTypeOK
  <2>2. StepFails(s)
    <3>1. ~(Submit \/ Respond \/ RegistryEvent)
      BY DEF Submit, Respond, RegistryEvent, planVars
    <3>2. ASSUME NEW t \in Tracks PROVE ~(StartBatch(t) \/ EndTrack(t))
      BY DEF StartBatch, EndTrack
    <3>3. ASSUME NEW r \in Steps, StepCompletes(r) \/ Reroute(r) PROVE FALSE
      BY <2>1, <3>3 DEF StepCompletes, Reroute, planVars
    <3>4. ASSUME NEW r \in Steps, StepFails(r) PROVE r = s
      BY <2>1, <3>4 DEF StepFails
    <3> QED
      BY <1>1, <3>1, <3>2, <3>3, <3>4 DEF Next
  <2> QED
    BY <2>2 DEF StepFails, MayFail, MayThrow
<1>2. PlanTypeOK /\ [Next]_vars => [A]_vars
  BY <1>1
<1> QED
  BY <1>2, PlanTypeCorrect, PTL DEF Spec, RelayNeverFailsStep

(* What EndsAreFinal says of one step. *)
EndsKept ==
  /\ \A s \in Steps :
       /\ status[s] \in {"completed", "failed"} => status'[s] = status[s]
       /\ track[TrackOf(s)] # "running" /\ status[s] = "pending" =>
            status'[s] = "pending"
  /\ \A t \in Tracks :
       track[t] \in {"completed", "failed"} => track'[t] = track[t]
  /\ plan \in {"completed", "failed"} => plan' = plan
  /\ outcome # "none" => outcome' = outcome
  /\ answer # "none" => answer' = answer

(* The end of a track changes no track, plan or promise that has ended. *)
LEMMA TrackEndsKeeps ==
  ASSUME IInv, NEW t \in Tracks, track[t] = "running",
         NEW st \in {"completed", "failed"}, NEW how \in {"returned", "thrown"},
         TrackEnds(t, st, how), UNCHANGED <<request, answer>>
  PROVE  /\ \A u \in Tracks :
              track[u] \in {"completed", "failed"} => track'[u] = track[u]
         /\ plan \notin {"completed", "failed"} /\ outcome = "none"
<1>1. PlanTypeOK /\ TrackOrder
  BY DEF IInv
<1>2. /\ \A u \in Tracks \ {t} :
           \/ track'[u] = track[u]
           \/ track[u] = "pending" /\ track'[u] \in {"running", "failed"}
      /\ plan \notin {"completed", "failed"} /\ outcome = "none"
  BY <1>1, TrackEndsFacts
<1> QED
  BY <1>2

LEMMA NextEndsKept == ASSUME IInv, Next PROVE EndsKept
<1>0. /\ PlanTypeOK /\ TrackOrder
      /\ status \in [Steps -> {"pending", "running", "completed", "failed"}]
      /\ \A s \in Steps : TrackOf(s) \in Tracks
  BY TrackOfType DEF IInv, PlanTypeOK
<1>1. CASE Submit
  <2>1. plan = "pending" /\ UNCHANGED <<status, answer>>
    BY <1>1 DEF Submit
  <2>2. outcome = "none" /\ \A t \in Tracks : track[t] = "pending"
    BY <1>0, <2>1 DEF TrackOrder, Tracks
  <2> QED
    BY <2>1, <2>2 DEF EndsKept
<1>2. ASSUME NEW t \in Tracks, StartBatch(t) PROVE EndsKept
  <2>1. /\ track[t] = "running" /\ UNCHANGED <<track, plan, outcome, answer>>
        /\ status' = [s \in Steps |-> IF s \in Batch(t) THEN "running" ELSE status[s]]
    BY <1>2 DEF StartBatch
  <2>2. \A s \in Batch(t) : TrackOf(s) = t /\ status[s] = "pending"
    BY DEF Batch, StepsOf
  <2> QED
    BY <1>0, <2>1, <2>2 DEF EndsKept
<1>3. ASSUME NEW t \in Tracks, EndTrack(t) PROVE EndsKept
  <2>1. track[t] = "running" /\ UNCHANGED <<request, status, answer>>
    BY <1>3 DEF EndTrack
  <2>2. PICK st \in {"completed", "failed"}, how \in {"returned", "thrown"} :
          TrackEnds(t, st, how)
    BY <1>3 DEF EndTrack
  <2> QED
    BY <2>1, <2>2, TrackEndsKeeps DEF EndsKept
<1>4. ASSUME NEW s \in Steps, StepCompletes(s) PROVE EndsKept
  BY <1>0, <1>4 DEF StepCompletes, EndsKept
<1>5. ASSUME NEW s \in Steps, StepFails(s) PROVE EndsKept
  <2>1. /\ status[s] = "running" /\ status' = [status EXCEPT ![s] = "failed"]
        /\ UNCHANGED <<request, answer>>
    BY <1>5 DEF StepFails
  <2>2. CASE Rejects(s)
    <3>1. TrackEnds(TrackOf(s), "failed", "thrown") /\ track[TrackOf(s)] = "running"
      BY <1>5, <2>2 DEF StepFails, Rejects
    <3>2. /\ \A u \in Tracks :
               track[u] \in {"completed", "failed"} => track'[u] = track[u]
          /\ plan \notin {"completed", "failed"} /\ outcome = "none"
      BY <1>0, <2>1, <3>1, TrackEndsKeeps
    <3> QED
      BY <1>0, <2>1, <3>2 DEF EndsKept
  <2>3. CASE ~Rejects(s)
    BY <1>0, <1>5, <2>1, <2>3 DEF StepFails, EndsKept
  <2> QED
    BY <2>2, <2>3
<1>6. ASSUME NEW s \in Steps, Reroute(s) PROVE EndsKept
  BY <1>6 DEF Reroute, planVars, EndsKept
<1>7. CASE Respond
  BY <1>7 DEF Respond, EndsKept
<1>8. CASE RegistryEvent
  BY <1>8 DEF RegistryEvent, planVars, EndsKept
<1> QED
  BY <1>1, <1>2, <1>3, <1>4, <1>5, <1>6, <1>7, <1>8 DEF Next

(* What has ended stays as it is, although steps of abandoned tracks go on. *)
THEOREM EndsStayFinal == Spec => EndsAreFinal
<1>1. IInv /\ [Next]_vars => [EndsKept]_vars
  BY NextEndsKept
<1>2. Spec => [][EndsKept]_vars
  BY <1>1, SpecIInv, PTL DEF Spec
<1> QED
  BY <1>2, PTL DEF EndsAreFinal, EndsKept

-----------------------------------------------------------------------------
(* The rounds of Kahn's algorithm, for graphs of any size *)

(* Induction, in the form the provers can use: a set of numbers that is    *)
(* not empty has a least element.                                          *)
LEMMA LeastNumber ==
  ASSUME NEW T \in SUBSET Nat, T # {}
  PROVE  \E n \in T : \A m \in T : n <= m
<1>1. PICK n \in T : \A m \in T : <<m, n>> \notin OpToRel(<, Nat)
  BY NatLessThanWellFounded, WFMin, Zenon
<1>2. \A m \in T : ~(m < n)
  BY <1>1 DEF OpToRel
<1> QED
  BY <1>2

(* One round of Kahn's algorithm after the steps of before were placed. *)
Round(before) == {s \in Steps : Predecessors(s) \subseteq before}

(* The first n rounds have a record, whatever n: g[k] is the k-th round. *)
IsRecord(g, n) ==
  g = [k \in 0 .. n |-> Round(IF k = 0 THEN {} ELSE g[k - 1])]

LEMMA RecordExists == \A n \in Nat : \E g : IsRecord(g, n)
<1> DEFINE Without == {n \in Nat : ~ \E g : IsRecord(g, n)}
<1> SUFFICES ASSUME Without # {} PROVE FALSE
  OBVIOUS
<1>1. PICK n \in Without : \A m \in Without : n <= m
  BY LeastNumber
<1>2. CASE n = 0
  <2> DEFINE g == [k \in 0 .. 0 |-> Round({})]
  <2>1. g = [k \in 0 .. 0 |-> Round(IF k = 0 THEN {} ELSE g[k - 1])]
    OBVIOUS
  <2>2. IsRecord(g, 0)
    BY <2>1 DEF IsRecord
  <2> QED
    BY <1>2, <2>2
<1>3. CASE n # 0
  <2>1. n \in Nat /\ n - 1 \in Nat /\ n - 1 \notin Without
    BY <1>1, <1>3
  <2>2. PICK g : IsRecord(g, n - 1)
    BY <2>1
  <2>3. g = [k \in 0 .. n - 1 |-> Round(IF k = 0 THEN {} ELSE g[k - 1])]
    BY <2>2 DEF IsRecord
  <2> DEFINE h == [k \in 0 .. n |-> IF k = n THEN Round(g[n - 1]) ELSE g[k]]
  <2>4. ASSUME NEW k \in 0 .. n
        PROVE  h[k] = Round(IF k = 0 THEN {} ELSE h[k - 1])
    <3>1. CASE k = n
      <4>1. h[k] = Round(g[n - 1]) /\ h[k - 1] = g[n - 1] /\ k # 0
        BY <1>3, <2>1, <3>1
      <4> QED
        BY <3>1, <4>1
    <3>2. CASE k # n
      <4>1. k \in 0 .. n - 1 /\ h[k] = g[k]
        BY <2>1, <3>2
      <4>2. k # 0 => h[k - 1] = g[k - 1]
        BY <2>1, <4>1
      <4>3. g[k] = Round(IF k = 0 THEN {} ELSE g[k - 1])
        BY <2>3, <4>1
      <4> QED
        BY <4>1, <4>2, <4>3
    <3> QED
      BY <3>1, <3>2
  <2> HIDE DEF h
  <2>5. h = [k \in 0 .. n |-> Round(IF k = 0 THEN {} ELSE h[k - 1])]
    <3>1. h = [k \in 0 .. n |-> h[k]]
      BY DEF h
    <3> QED
      BY <2>4, <3>1
  <2>6. IsRecord(h, n)
    BY <2>5 DEF IsRecord
  <2> QED
    BY <2>6
<1> QED
  BY <1>2, <1>3

(* So the recursive definition of Placed defines what it says. *)
LEMMA PlacedByRounds ==
  /\ \A k \in 0 .. N : Placed[k] \subseteq Steps
  /\ Placed[0] = {s \in Steps : Predecessors(s) = {}}
  /\ \A k \in 1 .. N :
       Placed[k] = {s \in Steps : Predecessors(s) \subseteq Placed[k - 1]}
<1>1. PICK g : IsRecord(g, N)
  BY RecordExists, RelayAssumption
<1>2. Placed = CHOOSE f : f = [k \in 0 .. N |->
        {s \in Steps : Predecessors(s) \subseteq IF k = 0 THEN {} ELSE f[k - 1]}]
  BY DEF Placed
<1>3. g = [k \in 0 .. N |->
        {s \in Steps : Predecessors(s) \subseteq IF k = 0 THEN {} ELSE g[k - 1]}]
  BY <1>1 DEF IsRecord, Round
<1>4. Placed = [k \in 0 .. N |->
        {s \in Steps : Predecessors(s) \subseteq IF k = 0 THEN {} ELSE Placed[k - 1]}]
  BY <1>2, <1>3
<1>5. ASSUME NEW k \in 0 .. N
      PROVE  Placed[k] = {s \in Steps :
               Predecessors(s) \subseteq IF k = 0 THEN {} ELSE Placed[k - 1]}
  BY <1>4
<1>6. 0 \in 0 .. N /\ \A k \in 1 .. N : k \in 0 .. N /\ k # 0
  BY RelayAssumption
<1> QED
  BY <1>5, <1>6

(* A round keeps what the earlier ones have placed. *)
LEMMA PlacedGrows ==
  \A k, l \in 0 .. N : k <= l => Placed[k] \subseteq Placed[l]
<1>0. N \in Nat
  BY RelayAssumption
<1>1. \A k \in 1 .. N : Placed[k - 1] \subseteq Placed[k]
  <2> DEFINE Loses == {k \in 1 .. N : ~(Placed[k - 1] \subseteq Placed[k])}
  <2> SUFFICES ASSUME Loses # {} PROVE FALSE
    OBVIOUS
  <2>1. Loses \in SUBSET Nat
    BY <1>0
  <2>2. PICK k \in Loses : \A l \in Loses : k <= l
    BY <2>1, LeastNumber
  <2>3. k \in 1 .. N /\ k \in Nat
    BY <1>0
  <2>4. PICK s \in Placed[k - 1] : s \notin Placed[k]
    BY <2>2
  <2>5. CASE k = 1
    BY <1>0, <2>3, <2>4, <2>5, PlacedByRounds
  <2>6. CASE k # 1
    <3>1. k - 1 \in 1 .. N /\ k - 1 \notin Loses
      BY <1>0, <2>2, <2>3, <2>6
    <3>2. Placed[k - 1 - 1] \subseteq Placed[k - 1]
      BY <3>1
    <3>3. s \in Steps /\ Predecessors(s) \subseteq Placed[k - 1 - 1]
      BY <2>4, <3>1, PlacedByRounds
    <3>4. s \in Placed[k]
      BY <2>3, <3>2, <3>3, PlacedByRounds
    <3> QED
      BY <2>4, <3>4
  <2> QED
    BY <2>5, <2>6
<1> SUFFICES ASSUME NEW k \in 0 .. N,
                    {l \in 0 .. N : k <= l /\ ~(Placed[k] \subseteq Placed[l])} # {}
             PROVE  FALSE
  OBVIOUS
<1> DEFINE Loses == {l \in 0 .. N : k <= l /\ ~(Placed[k] \subseteq Placed[l])}
<1>2. Loses \in SUBSET Nat
  BY <1>0
<1>3. PICK l \in Loses : \A m \in Loses : l <= m
  BY <1>2, LeastNumber
<1>4. l # k /\ l \in 0 .. N /\ k <= l /\ ~(Placed[k] \subseteq Placed[l])
  BY <1>3
<1>5. l \in 1 .. N /\ l - 1 \in 0 .. N /\ k <= l - 1 /\ ~(l <= l - 1)
  BY <1>0, <1>4
<1>6. l - 1 \notin Loses
  BY <1>3, <1>5
<1>7. Placed[k] \subseteq Placed[l - 1]
  BY <1>5, <1>6
<1> QED
  BY <1>1, <1>4, <1>5, <1>7

(* What has not been placed after a round that placed nothing new is a     *)
(* cycle, or hangs on one: a valid graph has none.                         *)
LEMMA NoRoundInVain ==
  ASSUME request \in Requests, GraphValid, NEW k \in 1 .. N,
         Placed[k] = Placed[k - 1]
  PROVE  Placed[k] = Steps
<1> DEFINE C == Steps \ Placed[k]
<1>1. SUFFICES ASSUME C # {} PROVE FALSE
  <2>1. k \in 0 .. N
    BY RelayAssumption
  <2> QED
    BY <2>1, PlacedByRounds
<1>2. ASSUME NEW s \in C PROVE Predecessors(s) \cap C # {}
  <2>1. PICK p \in Predecessors(s) : p \notin Placed[k]
    BY PlacedByRounds
  <2>2. p \in Steps \cup {Unknown}
    BY GraphAssumption DEF Predecessors, Requests
  <2>3. p # Unknown
    BY DEF GraphValid
  <2> QED
    BY <2>1, <2>2, <2>3
<1>3. HasCycle
  BY <1>1, <1>2 DEF HasCycle
<1> QED
  BY <1>3 DEF GraphValid

(* N rounds place every step of a valid graph. *)
LEMMA AllPlaced ==
  ASSUME request \in Requests, GraphValid PROVE Placed[N] = Steps
<1>0. N \in Nat /\ IsFiniteSet(Steps) /\ Cardinality(Steps) = N
  BY RelayAssumption, FS_Interval DEF Steps
<1>1. \A k \in 0 .. N : /\ Placed[k] \subseteq Steps /\ IsFiniteSet(Placed[k])
                        /\ Cardinality(Placed[k]) \in Nat
                        /\ Cardinality(Placed[k]) <= N
                        /\ Cardinality(Placed[k]) = N => Placed[k] = Steps
  BY <1>0, PlacedByRounds, FS_Subset, FS_CardinalityType
<1> DEFINE Behind == {k \in 0 .. N : Placed[k] # Steps /\ Cardinality(Placed[k]) <= k}
<1>2. Behind = {}
  <2> SUFFICES ASSUME Behind # {} PROVE FALSE
    OBVIOUS
  <2>1. Behind \in SUBSET Nat
    BY <1>0
  <2>2. PICK k \in Behind : \A l \in Behind : k <= l
    BY <2>1, LeastNumber
  <2>3. k \in 0 .. N /\ k \in Nat /\ Placed[k] # Steps /\ Cardinality(Placed[k]) <= k
    BY <1>0, <2>2
  <2>4. CASE k = 0
    <3>1. Placed[0] = {}
      BY <1>1, <2>3, <2>4, FS_EmptySet
    <3>2. \A s \in Steps : Predecessors(s) # {}
      BY <3>1, PlacedByRounds
    <3>3. \A s \in Steps : Predecessors(s) \subseteq Steps
      BY GraphAssumption DEF GraphValid, Predecessors, Requests
    <3>4. Steps # {} /\ \A s \in Steps : Predecessors(s) \cap Steps # {}
      BY <2>3, <2>4, <3>1, <3>2, <3>3
    <3>5. HasCycle
      BY <3>4 DEF HasCycle
    <3> QED
      BY <3>5 DEF GraphValid
  <2>5. CASE k # 0
    <3>1. k \in 1 .. N /\ k - 1 \in 0 .. N /\ ~(k <= k - 1)
      BY <1>0, <2>3, <2>5
    <3>2. k - 1 \notin Behind
      BY <2>2, <3>1
    <3>3. Placed[k - 1] \subseteq Placed[k]
      BY <2>3, <3>1, PlacedGrows
    <3>4. Placed[k - 1] # Steps
      BY <1>1, <2>3, <3>3
    <3>5. Cardinality(Placed[k - 1]) >= k
      BY <1>1, <2>3, <3>1, <3>2, <3>4
    <3>6. /\ Cardinality(Placed[k - 1]) <= Cardinality(Placed[k])
          /\ Cardinality(Placed[k]) = Cardinality(Placed[k - 1]) =>
               Placed[k] = Placed[k - 1]
      BY <1>1, <2>3, <3>3, FS_Subset
    <3>7. Placed[k] = Placed[k - 1]
      BY <1>1, <2>3, <3>1, <3>5, <3>6
    <3> QED
      BY <2>3, <3>1, <3>7, NoRoundInVain
  <2> QED
    BY <2>4, <2>5
<1>3. N \in 0 .. N /\ N \notin Behind
  BY <1>0, <1>2
<1> QED
  BY <1>1, <1>3

(* A step of a valid graph comes in a later round than what it refers to.  *)
LEMMA LevelsRespectEdges ==
  ASSUME request \in Requests, GraphValid, NEW s \in Steps, NEW p \in Predecessors(s)
  PROVE  p \in Steps /\ Level(p) \in Nat /\ Level(s) \in Nat /\ Level(p) < Level(s)
<1> DEFINE Before(r) == {k \in 0 .. N : r \notin Placed[k]}
<1>0. N \in Nat /\ p \in Steps
  <2>1. p \in Steps \cup {Unknown} /\ p # Unknown
    BY GraphAssumption DEF GraphValid, Predecessors, Requests
  <2> QED
    BY <2>1, RelayAssumption
<1>1. Level(s) = Cardinality(Before(s)) /\ Level(p) = Cardinality(Before(p))
  BY <1>0, AllPlaced DEF Level
<1>2. IsFiniteSet(Before(s)) /\ IsFiniteSet(Before(p))
  <2>1. IsFiniteSet(0 .. N)
    BY <1>0, FS_Interval
  <2>2. Before(s) \in SUBSET (0 .. N) /\ Before(p) \in SUBSET (0 .. N)
    OBVIOUS
  <2> QED
    BY <2>1, <2>2, FS_Subset
<1>3. \A k \in 0 .. N : s \in Placed[k] => k # 0 /\ p \in Placed[k - 1]
  <2> SUFFICES ASSUME NEW k \in 0 .. N, s \in Placed[k]
               PROVE  k # 0 /\ p \in Placed[k - 1]
    OBVIOUS
  <2>1. k # 0
    BY PlacedByRounds
  <2>2. k \in 1 .. N
    BY <1>0, <2>1
  <2> QED
    BY <2>1, <2>2, PlacedByRounds
<1>4. Before(p) \subseteq Before(s)
  <2> SUFFICES ASSUME NEW k \in 0 .. N, s \in Placed[k] PROVE p \in Placed[k]
    OBVIOUS
  <2>1. k # 0 /\ p \in Placed[k - 1]
    BY <1>3
  <2>2. k - 1 \in 0 .. N /\ k - 1 <= k
    BY <1>0, <2>1
  <2> QED
    BY <2>1, <2>2, PlacedGrows
<1>5. Before(p) # Before(s)
  <2> DEFINE Has == {k \in 0 .. N : s \in Placed[k]}
  <2>1. Has \in SUBSET Nat /\ N \in Has
    BY <1>0, AllPlaced
  <2>2. PICK k \in Has : \A l \in Has : k <= l
    BY <2>1, LeastNumber
  <2>3. k # 0 /\ p \in Placed[k - 1]
    BY <1>3, <2>2
  <2>4. k - 1 \in 0 .. N /\ ~(k <= k - 1)
    BY <1>0, <2>2, <2>3
  <2>5. k - 1 \in Before(s) /\ k - 1 \notin Before(p)
    BY <2>2, <2>3, <2>4
  <2> QED
    BY <2>5
<1>6. Cardinality(Before(p)) <= Cardinality(Before(s))
      /\ Cardinality(Before(s)) # Cardinality(Before(p))
  BY <1>2, <1>4, <1>5, FS_Subset
<1>7. Cardinality(Before(p)) \in Nat /\ Cardinality(Before(s)) \in Nat
  BY <1>2, FS_CardinalityType
<1> QED
  BY <1>0, <1>1, <1>6, <1>7

(* The two algorithms of dag.js agree: the rounds place every step exactly *)
(* of the graphs without a cycle and without an unknown reference.         *)
THEOREM ValidGraphsArePlaced ==
  ASSUME request \in Requests PROVE GraphValid <=> Placed[N] = Steps
<1>1. ASSUME Placed[N] = Steps PROVE GraphValid
  <2>0. N \in Nat /\ N \in 0 .. N /\ Steps = 1 .. N
    BY RelayAssumption DEF Steps
  <2>1. \A k \in 0 .. N, s \in Steps :
          s \in Placed[k] => Predecessors(s) = {} \/
            (k - 1 \in 0 .. N /\ k - 1 < k /\ Predecessors(s) \subseteq Placed[k - 1])
    <3> SUFFICES ASSUME NEW k \in 0 .. N, NEW s \in Steps, s \in Placed[k],
                        Predecessors(s) # {}
                 PROVE  /\ k - 1 \in 0 .. N /\ k - 1 < k
                        /\ Predecessors(s) \subseteq Placed[k - 1]
      OBVIOUS
    <3>1. k # 0
      BY PlacedByRounds
    <3>2. k \in 1 .. N
      BY <2>0, <3>1
    <3> QED
      BY <2>0, <3>2, PlacedByRounds
  <2>2. \A s \in Steps : Unknown \notin Predecessors(s)
    BY <1>1, <2>0, <2>1, PlacedByRounds DEF Unknown
  <2>3. ASSUME HasCycle PROVE FALSE
    <3>1. PICK C \in SUBSET Steps : C # {} /\ \A s \in C : Predecessors(s) \cap C # {}
      BY <2>3 DEF HasCycle
    <3> DEFINE Met == {k \in 0 .. N : Placed[k] \cap C # {}}
    <3>2. Met \in SUBSET Nat /\ N \in Met
      <4>1. Placed[N] \cap C # {}
        BY <1>1, <3>1
      <4> QED
        BY <2>0, <4>1
    <3>3. PICK k \in Met : \A l \in Met : k <= l
      BY <3>2, LeastNumber
    <3>4. PICK s \in C : s \in Placed[k]
      BY <3>3
    <3>5. PICK p \in C : p \in Predecessors(s)
      BY <3>1
    <3>6. k - 1 \in 0 .. N /\ k - 1 < k /\ p \in Placed[k - 1]
      BY <2>1, <3>1, <3>3, <3>4, <3>5
    <3>7. k - 1 \in Met
      BY <3>5, <3>6
    <3> QED
      BY <2>0, <3>3, <3>6, <3>7
  <2> QED
    BY <2>2, <2>3 DEF GraphValid
<1> QED
  BY <1>1, AllPlaced

-----------------------------------------------------------------------------
(* Dependencies: the invariant of the turns, on top of IInv *)

(* What the executors do with the ranks of a request. *)
RanksInUse == plan # "pending" => rank = Ranks

(* A step starts when those of its track with a lower rank have completed, *)
(* or have ended when failures do not stop the track.                      *)
RunInTurns ==
  \A s, r \in Steps :
    TrackOf(s) = TrackOf(r) /\ rank[r] < rank[s] /\ status[s] # "pending" =>
      status[r] = "completed" \/ (~request.abort /\ status[r] = "failed")

(* executeDag rejects an invalid graph before any step. *)
RejectedUnstarted ==
  request.executor = "dag" /\ ~GraphValid =>
    track[1] # "running" /\ \A s \in Steps : status[s] = "pending"

Turns == RanksInUse /\ RunInTurns /\ RejectedUnstarted

LEMMA InitTurns == Init => Turns
  BY DEF Init, Turns, RanksInUse, RunInTurns, RejectedUnstarted, Tracks

LEMMA NextTurns == IInv /\ Turns /\ [Next]_vars => Turns'
<1> SUFFICES ASSUME IInv, Turns, [Next]_vars PROVE Turns'
  OBVIOUS
<1>0. /\ PlanTypeOK /\ TrackOrder /\ StepOrder
      /\ RanksInUse /\ RunInTurns /\ RejectedUnstarted
      /\ status \in [Steps -> {"pending", "running", "completed", "failed"}]
      /\ rank \in [Steps -> Nat]
      /\ \A s \in Steps : TrackOf(s) \in Tracks
  BY TrackOfType DEF IInv, Turns, PlanTypeOK
<1>1. request' = request
  BY DEF Next, vars, planVars, Submit, StartBatch, EndTrack, StepCompletes,
         StepFails, Reroute, Respond, RegistryEvent
<1>2. /\ GraphValid' = GraphValid /\ Ranks' = Ranks
      /\ IsComposition' = IsComposition
      /\ \A s \in Steps : TrackOf(s)' = TrackOf(s)
  BY <1>1 DEF GraphValid, HasCycle, Predecessors, Ranks, ByLevels, Level, Placed,
              TrackOf, IsComposition
<1>3. CASE Submit
  <2>1. /\ plan = "pending" /\ rank' = Ranks /\ UNCHANGED <<request, status>>
        /\ track[1] = "pending"
    BY <1>0, <1>3 DEF Submit, TrackOrder
  <2>2. \A s \in Steps : status[s] = "pending"
    BY <1>0, <2>1 DEF StepOrder, TrackOrder, Tracks
  <2>3. request.executor = "dag" /\ ~GraphValid => track'[1] # "running"
    <3> SUFFICES ASSUME request.executor = "dag", ~GraphValid
                 PROVE  track'[1] # "running"
      OBVIOUS
    <3>1. TrackEnds(1, "failed", "thrown")
      BY <1>3 DEF Submit
    <3>2. ~IsComposition
      BY <1>0 DEF PlanTypeOK, Requests, OfPlan, IsComposition
    <3> QED
      BY <1>0, <3>1, <3>2 DEF TrackEnds, PlanTypeOK, Tracks
  <2> QED
    BY <1>0, <1>1, <1>2, <2>1, <2>2, <2>3
    DEF Turns, RanksInUse, RunInTurns, RejectedUnstarted
<1>4. ASSUME NEW t \in Tracks, StartBatch(t) PROVE Turns'
  <2>1. /\ track[t] = "running" /\ Among(t, "running") = {} /\ MayGoOn(t)
        /\ UNCHANGED <<request, rank, track, plan>>
        /\ status' = [s \in Steps |-> IF s \in Batch(t) THEN "running" ELSE status[s]]
    BY <1>4 DEF StartBatch, LevelDone
  <2>2. \A s \in Batch(t) : TrackOf(s) = t /\ status[s] = "pending"
    BY DEF Batch, StepsOf
  <2>3. RejectedUnstarted'
    <3> SUFFICES ASSUME request.executor = "dag", ~GraphValid PROVE FALSE
      BY <1>1, <1>2 DEF RejectedUnstarted
    <3>1. ~IsComposition
      BY <1>0 DEF PlanTypeOK, Requests, OfPlan, IsComposition
    <3> QED
      BY <1>0, <2>1, <3>1 DEF RejectedUnstarted, TrackOrder, Tracks
  <2>4. ASSUME NEW s \in Steps, NEW r \in Steps, TrackOf(s) = TrackOf(r),
               rank[r] < rank[s], status'[s] # "pending"
        PROVE  status'[r] = "completed" \/ (~request.abort /\ status'[r] = "failed")
    <3>1. CASE s \in Batch(t)
      <4>1. TrackOf(r) = t /\ r \in StepsOf(t)
        BY <2>2, <2>4, <3>1 DEF StepsOf
      <4>2. status[r] # "pending"
        <5>1. ~(rank[s] <= rank[r])
          BY <1>0, <2>4
        <5> QED
          BY <3>1, <4>1, <5>1 DEF Batch
      <4>3. status[r] # "running"
        BY <2>1, <4>1 DEF Among
      <4>4. status[r] = "failed" => ~request.abort
        BY <2>1, <4>1 DEF MayGoOn, Among
      <4> QED
        BY <1>0, <2>1, <2>2, <4>2, <4>3, <4>4
    <3>2. CASE s \notin Batch(t)
      <4>1. status[s] # "pending"
        BY <2>1, <2>4, <3>2
      <4>2. status[r] = "completed" \/ (~request.abort /\ status[r] = "failed")
        BY <1>0, <2>4, <4>1 DEF RunInTurns
      <4> QED
        BY <2>1, <2>2, <4>2
    <3> QED
      BY <3>1, <3>2
  <2>5. RunInTurns'
    BY <1>1, <1>2, <2>1, <2>4 DEF RunInTurns
  <2> QED
    BY <1>0, <1>2, <2>1, <2>3, <2>5 DEF Turns, RanksInUse
<1>5. ASSUME NEW t \in Tracks, EndTrack(t) PROVE Turns'
  <2>1. /\ track[t] = "running" /\ UNCHANGED <<request, rank, status>>
        /\ \E st \in {"completed", "failed"}, how \in {"returned", "thrown"} :
             TrackEnds(t, st, how)
    BY <1>5 DEF EndTrack
  <2>2. plan # "pending"
    BY <1>0, <2>1 DEF TrackOrder
  <2>3. RejectedUnstarted'
    <3> SUFFICES ASSUME request.executor = "dag", ~GraphValid PROVE FALSE
      BY <1>1, <1>2 DEF RejectedUnstarted
    <3>1. ~IsComposition
      BY <1>0 DEF PlanTypeOK, Requests, OfPlan, IsComposition
    <3> QED
      BY <1>0, <2>1, <3>1 DEF RejectedUnstarted, TrackOrder, Tracks
  <2> QED
    BY <1>0, <1>1, <1>2, <2>1, <2>2, <2>3 DEF Turns, RanksInUse, RunInTurns
<1>6. ASSUME NEW s \in Steps, StepCompletes(s) \/ StepFails(s) PROVE Turns'
  <2>1. /\ status[s] = "running" /\ UNCHANGED <<request, rank>>
        /\ \E st \in {"completed", "failed"} : status' = [status EXCEPT ![s] = st]
    BY <1>6 DEF StepCompletes, StepFails
  <2>2. plan # "pending"
    BY <1>0, <2>1 DEF TrackOrder, StepOrder, Tracks
  <2>3. RejectedUnstarted'
    BY <1>0, <1>1, <1>2, <2>1 DEF RejectedUnstarted
  <2>4. RunInTurns'
    BY <1>0, <1>1, <1>2, <2>1 DEF RunInTurns
  <2> QED
    BY <1>0, <1>2, <2>1, <2>2, <2>3, <2>4 DEF Turns, RanksInUse
<1>7. CASE UNCHANGED <<request, rank, status, track, plan>>
  BY <1>0, <1>2, <1>7 DEF Turns, RanksInUse, RunInTurns, RejectedUnstarted
<1> QED
  BY <1>3, <1>4, <1>5, <1>6, <1>7
  DEF Next, vars, planVars, Reroute, Respond, RegistryEvent

(* Executed by levels, no step starts before what it refers to has ended,  *)
(* well unless failures do not stop the track: computeLevels puts a step   *)
(* of a valid graph behind its predecessors, and the loops over the levels *)
(* wait for each; an invalid graph, which has no such order, executeDag    *)
(* rejects.                                                                *)
THEOREM DependenciesAlwaysFirst == Spec => []DependenciesFirst
<1>1. ASSUME IInv, Turns PROVE DependenciesFirst
  <2>0. /\ PlanTypeOK /\ TrackOrder /\ StepOrder /\ request \in Requests
        /\ RanksInUse /\ RunInTurns /\ RejectedUnstarted
    BY <1>1 DEF IInv, Turns, PlanTypeOK
  <2> SUFFICES ASSUME NEW s \in Steps, ByLevels(TrackOf(s)), status[s] # "pending",
                      GraphValid \/ request.executor = "dag",
                      NEW p \in Predecessors(s)
               PROVE  /\ p # Unknown
                      /\ \/ status[p] = "completed"
                         \/ ~request.abort /\ status[p] = "failed"
    BY DEF DependenciesFirst
  <2>1. GraphValid
    BY <2>0 DEF RejectedUnstarted
  <2>2. p # Unknown /\ p \in Steps /\ Level(p) < Level(s)
    BY <2>0, <2>1, LevelsRespectEdges DEF GraphValid
  <2>3. TrackOf(p) = TrackOf(s)
    <3>1. PICK e \in request.edges : e[1] = p /\ e[2] = s
      BY DEF Predecessors
    <3>2. /\ request.cut \in 0 .. N - 1
          /\ request.cut # 0 => (p <= request.cut <=> s <= request.cut)
      BY <2>0, <2>2, <3>1 DEF Requests
    <3>3. N \in Nat /\ p \in Nat /\ s \in Nat
      BY <2>2, RelayAssumption DEF Steps
    <3> QED
      BY <3>2, <3>3 DEF TrackOf, IsComposition
  <2>4. plan # "pending"
    BY <2>0, TrackOfType DEF TrackOrder, StepOrder, Tracks
  <2>5. rank[p] = Level(p) /\ rank[s] = Level(s)
    BY <2>0, <2>2, <2>3, <2>4 DEF RanksInUse, Ranks
  <2> QED
    BY <2>0, <2>2, <2>3, <2>5 DEF RunInTurns
<1> QED
  BY <1>1, InitTurns, NextTurns, InitIInv, NextIInv, SpecIInv, PTL DEF Spec

-----------------------------------------------------------------------------
(* Progress, as far as it is a matter of steps and states *)

HowMany(places, S) == Cardinality({s \in Steps : places[s] \in S})

(* What is left to do: the places every step has before it, the tracks     *)
(* that have not ended, the call and the answer.                           *)
WorkLeft(places, tracks, p, an) ==
    HowMany(places, {"idle"}) + HowMany(places, {"idle", "remote"})
  + HowMany(places, {"idle", "remote", "inTry"})
  + HowMany(places, {"idle", "remote", "inTry", "local"})
  + Cardinality({t \in Tracks : tracks[t] \in {"pending", "running"}})
  + (IF p = "pending" THEN 1 ELSE 0) + (IF an = "none" THEN 1 ELSE 0)

Work == WorkLeft(at, track, plan, answer)

(* A step moves on from one place to another, and not back. *)
Onward(p, q) ==
  /\ q = "idle" => p = "idle"
  /\ q = "remote" => p \in {"idle", "remote"}
  /\ q = "inTry" => p \in {"idle", "remote", "inTry"}
  /\ q = "local" => p # "done"

LEMMA HowManyType ==
  ASSUME NEW a, NEW S
  PROVE  HowMany(a, S) \in Nat /\ IsFiniteSet({s \in Steps : a[s] \in S})
<1>1. IsFiniteSet(Steps)
  BY RelayAssumption, FS_Interval DEF Steps
<1>2. {s \in Steps : a[s] \in S} \in SUBSET Steps
  OBVIOUS
<1>3. IsFiniteSet({s \in Steps : a[s] \in S})
  BY <1>1, <1>2, FS_Subset
<1> QED
  BY <1>3, FS_CardinalityType DEF HowMany

LEMMA FewerLeft ==
  ASSUME NEW a, NEW b, NEW S, \A s \in Steps : b[s] \in S => a[s] \in S
  PROVE  /\ HowMany(b, S) <= HowMany(a, S)
         /\ (\E s \in Steps : a[s] \in S /\ b[s] \notin S) =>
              HowMany(b, S) < HowMany(a, S)
<1> DEFINE A == {s \in Steps : a[s] \in S}
           B == {s \in Steps : b[s] \in S}
<1>1. IsFiniteSet(A) /\ Cardinality(A) \in Nat /\ Cardinality(B) \in Nat
  BY HowManyType DEF HowMany
<1>2. B \in SUBSET A
  OBVIOUS
<1>3. Cardinality(B) <= Cardinality(A) /\ (Cardinality(A) = Cardinality(B) => A = B)
  BY <1>1, <1>2, FS_Subset
<1>4. (\E s \in Steps : a[s] \in S /\ b[s] \notin S) => A # B
  OBVIOUS
<1> HIDE DEF A, B
<1>5. /\ Cardinality(B) <= Cardinality(A)
      /\ (\E s \in Steps : a[s] \in S /\ b[s] \notin S) => Cardinality(B) < Cardinality(A)
  BY <1>1, <1>3, <1>4
<1> QED
  BY <1>5 DEF HowMany, A, B

(* Nothing that moves on adds to the work, and anything that does move     *)
(* leaves less of it.                                                      *)
LEMMA LessWork ==
  ASSUME NEW a \in [Steps -> Places], NEW b \in [Steps -> Places],
         NEW tr, NEW ur, NEW p, NEW q, NEW an, NEW bn,
         \A s \in Steps : Onward(a[s], b[s]),
         \A t \in Tracks : ur[t] \in {"pending", "running"} => tr[t] \in {"pending", "running"},
         q = "pending" => p = "pending", bn = "none" => an = "none"
  PROVE  /\ WorkLeft(a, tr, p, an) \in Nat /\ WorkLeft(b, ur, q, bn) \in Nat
         /\ WorkLeft(b, ur, q, bn) <= WorkLeft(a, tr, p, an)
         /\ \/ \E s \in Steps : a[s] # b[s]
            \/ \E t \in Tracks : /\ tr[t] \in {"pending", "running"}
                                 /\ ur[t] \notin {"pending", "running"}
            \/ p = "pending" /\ q # "pending"
            \/ an = "none" /\ bn # "none"
            => WorkLeft(b, ur, q, bn) < WorkLeft(a, tr, p, an)
<1> DEFINE S1 == {"idle"}
           S2 == {"idle", "remote"}
           S3 == {"idle", "remote", "inTry"}
           S4 == {"idle", "remote", "inTry", "local"}
           T == {t \in Tracks : tr[t] \in {"pending", "running"}}
           U == {t \in Tracks : ur[t] \in {"pending", "running"}}
           x(S) == HowMany(a, S)
           y(S) == HowMany(b, S)
<1>1. /\ \A s \in Steps : b[s] \in S1 => a[s] \in S1
      /\ \A s \in Steps : b[s] \in S2 => a[s] \in S2
      /\ \A s \in Steps : b[s] \in S3 => a[s] \in S3
      /\ \A s \in Steps : b[s] \in S4 => a[s] \in S4
  BY DEF Onward, Places
<1>2. /\ y(S1) <= x(S1) /\ y(S2) <= x(S2) /\ y(S3) <= x(S3) /\ y(S4) <= x(S4)
      /\ (\E s \in Steps : a[s] \in S1 /\ b[s] \notin S1) => y(S1) < x(S1)
      /\ (\E s \in Steps : a[s] \in S2 /\ b[s] \notin S2) => y(S2) < x(S2)
      /\ (\E s \in Steps : a[s] \in S3 /\ b[s] \notin S3) => y(S3) < x(S3)
      /\ (\E s \in Steps : a[s] \in S4 /\ b[s] \notin S4) => y(S4) < x(S4)
  <2> HIDE DEF S1, S2, S3, S4
  <2> QED
    BY <1>1, FewerLeft
<1>3. /\ x(S1) \in Nat /\ x(S2) \in Nat /\ x(S3) \in Nat /\ x(S4) \in Nat
      /\ y(S1) \in Nat /\ y(S2) \in Nat /\ y(S3) \in Nat /\ y(S4) \in Nat
  BY HowManyType
<1>4. ASSUME NEW s \in Steps, a[s] # b[s]
      PROVE  \/ a[s] \in S1 /\ b[s] \notin S1
             \/ a[s] \in S2 /\ b[s] \notin S2
             \/ a[s] \in S3 /\ b[s] \notin S3
             \/ a[s] \in S4 /\ b[s] \notin S4
  BY <1>4 DEF Onward, Places
<1>5. /\ IsFiniteSet(T) /\ Cardinality(T) \in Nat /\ Cardinality(U) \in Nat
      /\ Cardinality(U) <= Cardinality(T)
      /\ T # U => Cardinality(U) < Cardinality(T)
  <2>1. IsFiniteSet(Tracks)
    <3>1. Tracks = ({} \cup {1}) \cup {2}
      BY DEF Tracks
    <3> QED
      BY <3>1, FS_EmptySet, FS_AddElement
  <2>2. T \in SUBSET Tracks /\ U \in SUBSET T
    OBVIOUS
  <2>3. IsFiniteSet(T) /\ IsFiniteSet(U)
    BY <2>1, <2>2, FS_Subset
  <2>4. Cardinality(T) \in Nat /\ Cardinality(U) \in Nat
    BY <2>3, FS_CardinalityType
  <2>5. Cardinality(U) <= Cardinality(T) /\ (Cardinality(T) = Cardinality(U) => T = U)
    BY <2>2, <2>3, FS_Subset
  <2> HIDE DEF T, U
  <2> QED
    BY <2>3, <2>4, <2>5
<1>6. (\E t \in Tracks : /\ tr[t] \in {"pending", "running"}
                         /\ ur[t] \notin {"pending", "running"}) => T # U
  OBVIOUS
<1>7. /\ WorkLeft(a, tr, p, an) =
           x(S1) + x(S2) + x(S3) + x(S4) + Cardinality(T)
           + (IF p = "pending" THEN 1 ELSE 0) + (IF an = "none" THEN 1 ELSE 0)
      /\ WorkLeft(b, ur, q, bn) =
           y(S1) + y(S2) + y(S3) + y(S4) + Cardinality(U)
           + (IF q = "pending" THEN 1 ELSE 0) + (IF bn = "none" THEN 1 ELSE 0)
  BY DEF WorkLeft
<1>8. (\E s \in Steps : a[s] # b[s]) =>
        y(S1) < x(S1) \/ y(S2) < x(S2) \/ y(S3) < x(S3) \/ y(S4) < x(S4)
  BY <1>2, <1>4
<1> HIDE DEF x, y, T, U, S1, S2, S3, S4
<1> QED
  BY <1>2, <1>3, <1>5, <1>6, <1>7, <1>8

LEMMA NextLessWork ==
  ASSUME IInv, Next
  PROVE  Work' < Work \/ (RegistryEvent /\ Work' = Work)
<1>0. /\ PlanTypeOK /\ TrackOrder /\ IInv' /\ PlanTypeOK' /\ EndsKept
      /\ at \in [Steps -> Places] /\ at' \in [Steps -> Places]
      /\ \A s \in Steps : TrackOf(s) \in Tracks
  <2>1. IInv'
    BY NextIInv
  <2>2. PlanTypeOK /\ TrackOrder /\ PlanTypeOK' /\ EndsKept
    BY <2>1, NextEndsKept DEF IInv
  <2> QED
    BY <2>1, <2>2, TrackOfType DEF PlanTypeOK
<1>1. \A t \in Tracks : track'[t] \in {"pending", "running"} =>
                          track[t] \in {"pending", "running"}
  BY <1>0 DEF EndsKept, PlanTypeOK
<1>2. answer' = "none" => answer = "none"
  BY <1>0 DEF EndsKept
<1>3. ASSUME \A s \in Steps : Onward(at[s], at'[s]),
             plan' = "pending" => plan = "pending",
             \/ \E s \in Steps : at[s] # at'[s]
             \/ \E t \in Tracks : /\ track[t] \in {"pending", "running"}
                                  /\ track'[t] \notin {"pending", "running"}
             \/ plan = "pending" /\ plan' # "pending"
             \/ answer = "none" /\ answer' # "none"
      PROVE  Work' < Work
  <2>1. WorkLeft(at', track', plan', answer') < WorkLeft(at, track, plan, answer)
    BY <1>0, <1>1, <1>2, <1>3, LessWork
  <2>2. Work' = WorkLeft(at', track', plan', answer')
    BY DEF Work, WorkLeft, HowMany
  <2> QED
    BY <2>1, <2>2 DEF Work
<1>4. \A s \in Steps : at'[s] = at[s] => Onward(at[s], at'[s])
  BY DEF Onward
<1>5. CASE Submit
  <2>1. at' = at /\ plan = "pending"
    BY <1>5 DEF Submit
  <2>2. plan' # "pending"
    <3>1. CASE request.executor = "dag" /\ ~GraphValid
      <4>1. ~IsComposition
        BY <1>0, <3>1 DEF PlanTypeOK, Requests, OfPlan, IsComposition
      <4> QED
        BY <1>5, <3>1, <4>1 DEF Submit, TrackEnds, Settled
    <3>2. CASE ~(request.executor = "dag" /\ ~GraphValid)
      BY <1>5, <3>2 DEF Submit, Begin, Settled
    <3> QED
      BY <3>1, <3>2
  <2> QED
    BY <1>3, <1>4, <2>1, <2>2
<1>6. ASSUME NEW t \in Tracks, StartBatch(t) PROVE Work' < Work
  <2>1. PICK s \in Batch(t) : TRUE
    BY <1>6 DEF StartBatch
  <2>2. \A r \in Batch(t) : r \in Steps /\ at[r] = "idle"
    BY <1>0 DEF Batch, StepsOf, PlanTypeOK
  <2>3. /\ plan' = plan
        /\ \E target : at' = [r \in Steps |->
             IF r \notin Batch(t) THEN at[r]
             ELSE IF target[r] = NoNode THEN "local" ELSE "remote"]
    BY <1>6 DEF StartBatch, Dispatch
  <2>4. \A r \in Batch(t) : at'[r] \in {"local", "remote"}
    BY <2>2, <2>3
  <2>5. \A r \in Steps : r \in Batch(t) \/ at'[r] = at[r]
    BY <2>3
  <2>6. \A r \in Steps : Onward(at[r], at'[r])
    BY <1>4, <2>2, <2>4, <2>5 DEF Onward
  <2>7. s \in Steps /\ at[s] # at'[s]
    BY <2>1, <2>2, <2>4
  <2> QED
    BY <1>3, <2>3, <2>6, <2>7
<1>7. ASSUME NEW t \in Tracks, EndTrack(t) PROVE Work' < Work
  <2>1. track[t] = "running" /\ UNCHANGED <<relayVars, request, answer>>
    BY <1>7 DEF EndTrack
  <2>2. PICK st \in {"completed", "failed"}, how \in {"returned", "thrown"} :
          TrackEnds(t, st, how)
    BY <1>7 DEF EndTrack
  <2>3. plan' # "pending" /\ track'[t] = st
    BY <1>0, <2>1, <2>2, TrackEndsFacts
  <2> QED
    BY <1>3, <1>4, <2>1, <2>3 DEF relayVars
<1>8. ASSUME NEW s \in Steps, StepCompletes(s) \/ StepFails(s) PROVE Work' < Work
  <2>1. status[s] = "running" /\ at' = [at EXCEPT ![s] = "done"]
    BY <1>8 DEF StepCompletes, StepFails, Answered
  <2>2. at[s] # "done" /\ at'[s] = "done" /\ \A r \in Steps \ {s} : at'[r] = at[r]
    BY <1>0, <2>1 DEF PlanTypeOK
  <2>3. \A r \in Steps : Onward(at[r], at'[r])
    BY <1>4, <2>2 DEF Onward
  <2>4. plan' = "pending" => plan = "pending"
    <3>1. CASE StepFails(s) /\ Rejects(s)
      <4>1. /\ TrackEnds(TrackOf(s), "failed", "thrown") /\ UNCHANGED <<request, answer>>
            /\ track[TrackOf(s)] = "running"
        BY <3>1 DEF StepFails, Rejects
      <4> QED
        BY <1>0, <4>1, TrackEndsFacts
    <3>2. CASE ~(StepFails(s) /\ Rejects(s))
      BY <1>8, <3>2 DEF StepCompletes, StepFails
    <3> QED
      BY <3>1, <3>2
  <2> QED
    BY <1>3, <2>2, <2>3, <2>4
<1>9. ASSUME NEW s \in Steps, Reroute(s) PROVE Work' < Work
  <2>1. /\ plan' = plan
        /\ \/ at[s] = "remote" /\ at' = [at EXCEPT ![s] = "inTry"]
           \/ at[s] \in {"remote", "inTry"} /\ at' = [at EXCEPT ![s] = "local"]
    BY <1>9 DEF Reroute, Refused, Unusable, FallsBack, planVars
  <2>2. /\ at[s] # at'[s] /\ Onward(at[s], at'[s])
        /\ \A r \in Steps \ {s} : at'[r] = at[r]
    BY <1>0, <2>1 DEF Onward
  <2> QED
    BY <1>3, <1>4, <2>1, <2>2
<1>10. CASE Respond
  <2>1. at' = at /\ plan' = plan /\ answer = "none" /\ answer' # "none"
    BY <1>10 DEF Respond, Reported, relayVars
  <2> QED
    BY <1>3, <1>4, <2>1
<1>11. CASE RegistryEvent
  <2>1. UNCHANGED <<at, track, plan, answer>>
    BY <1>11 DEF RegistryEvent, Register, Unregister, Heartbeat, GoesSilent, planVars
  <2>2. Work' = Work
    BY <2>1 DEF Work, WorkLeft, HowMany
  <2> QED
    BY <1>11, <2>2
<1> QED
  BY <1>5, <1>6, <1>7, <1>8, <1>9, <1>10, <1>11 DEF Next

(* Every step of the executors, the router and the caller leaves less to   *)
(* do, and nothing that happens in the registry adds to it: nodes that     *)
(* come, go or fall silent for ever cannot keep a request going.           *)
THEOREM WorkAlwaysShrinks ==
  Spec => [][Work' < Work \/ (RegistryEvent /\ Work' = Work)]_vars
<1>1. IInv /\ [Next]_vars => [Work' < Work \/ (RegistryEvent /\ Work' = Work)]_vars
  BY NextLessWork
<1> QED
  BY <1>1, SpecIInv, PTL DEF Spec

-----------------------------------------------------------------------------
(* What can be done next *)

LEMMA LeastLoadedExists ==
  ASSUME NEW s \in Steps, NEW nodes, DOMAIN nodes = 1 .. s - 1
  PROVE  LeastLoaded(s, nodes) # {} /\ LeastLoaded(s, nodes) \subseteq Nodes \cup {NoNode}
<1>1. CASE Candidates(s) = {}
  BY <1>1 DEF LeastLoaded
<1>2. CASE Candidates(s) # {}
  <2> DEFINE Loads == {k \in Nat : \E n \in Candidates(s) : k = Load(nodes, n)}
  <2>1. \A n \in Candidates(s) : Load(nodes, n) \in Nat
    <3> SUFFICES ASSUME NEW n \in Candidates(s) PROVE Load(nodes, n) \in Nat
      OBVIOUS
    <3>1. IsFiniteSet(1 .. s - 1)
      BY RelayAssumption, FS_Interval DEF Steps
    <3>2. {i \in DOMAIN nodes : nodes[i] = n} \in SUBSET (1 .. s - 1)
      OBVIOUS
    <3>3. IsFiniteSet({i \in DOMAIN nodes : nodes[i] = n})
      BY <3>1, <3>2, FS_Subset
    <3> QED
      BY <3>3, FS_CardinalityType DEF Load
  <2>2. Loads # {}
    BY <1>2, <2>1
  <2>3. PICK k \in Loads : \A l \in Loads : k <= l
    BY <2>2, LeastNumber
  <2>4. PICK n \in Candidates(s) : k = Load(nodes, n)
    BY <2>3
  <2>5. \A m \in Candidates(s) : Load(nodes, n) <= Load(nodes, m)
    BY <2>1, <2>3, <2>4
  <2>6. n \in LeastLoaded(s, nodes)
    BY <1>2, <2>5 DEF LeastLoaded
  <2>7. LeastLoaded(s, nodes) \subseteq Nodes
    BY <1>2 DEF LeastLoaded, Candidates
  <2> QED
    BY <2>6, <2>7
<1> QED
  BY <1>1, <1>2

(* The steps are placed one after the other, each somewhere. *)
LEMMA PlacementExists ==
  \E nodes \in [Steps -> Nodes \cup {NoNode}] : IsPlacement(nodes)
<1> DEFINE Fits(a, n) ==
             \A s \in 1 .. n : a[s] \in LeastLoaded(s, [i \in 1 .. s - 1 |-> a[i]])
           Without == {n \in 0 .. N :
                         ~ \E a \in [1 .. n -> Nodes \cup {NoNode}] : Fits(a, n)}
<1>0. N \in Nat /\ Steps = 1 .. N /\ Without \in SUBSET Nat
  BY RelayAssumption DEF Steps
<1>1. Without = {}
  <2> SUFFICES ASSUME Without # {} PROVE FALSE
    OBVIOUS
  <2>1. PICK n \in Without : \A m \in Without : n <= m
    BY <1>0, LeastNumber
  <2>2. CASE n = 0
    <3> DEFINE a == [i \in 1 .. 0 |-> NoNode]
    <3>1. a \in [1 .. n -> Nodes \cup {NoNode}]
      BY <2>2
    <3>2. \A s \in 1 .. n : FALSE
      BY <2>2
    <3> HIDE DEF a
    <3>3. Fits(a, n)
      BY <3>2
    <3> QED
      BY <2>1, <3>1, <3>3
  <2>3. CASE n # 0
    <3>0. n \in 0 .. N
      OBVIOUS
    <3>1. n \in 1 .. N /\ n - 1 \in 0 .. N /\ n - 1 \notin Without
      <4> HIDE DEF Without
      <4>1. n \in 1 .. N /\ n - 1 \in 0 .. N /\ ~(n <= n - 1)
        BY <1>0, <2>3, <3>0
      <4> QED
        BY <2>1, <4>1
    <3>2. PICK a \in [1 .. n - 1 -> Nodes \cup {NoNode}] : Fits(a, n - 1)
      BY <3>1
    <3>3. n \in Steps /\ DOMAIN a = 1 .. n - 1
      BY <1>0, <3>1
    <3>4. PICK w \in LeastLoaded(n, a) : w \in Nodes \cup {NoNode}
      BY <3>3, LeastLoadedExists
    <3> DEFINE b == [i \in 1 .. n |-> IF i = n THEN w ELSE a[i]]
    <3>5. b \in [1 .. n -> Nodes \cup {NoNode}]
      <4>1. \A i \in 1 .. n : i = n \/ i \in 1 .. n - 1
        BY <1>0, <3>1
      <4> QED
        BY <3>4, <4>1
    <3>6. ASSUME NEW s \in 1 .. n
          PROVE  b[s] \in LeastLoaded(s, [i \in 1 .. s - 1 |-> b[i]])
      <4>1. [i \in 1 .. s - 1 |-> b[i]] = [i \in 1 .. s - 1 |-> a[i]]
        <5>1. \A i \in 1 .. s - 1 : i \in 1 .. n /\ i # n
          BY <1>0, <3>1
        <5> QED
          BY <5>1
      <4>2. CASE s = n
        <5>1. [i \in 1 .. n - 1 |-> a[i]] = a
          BY <3>3
        <5> QED
          BY <3>4, <4>1, <4>2, <5>1
      <4>3. CASE s # n
        <5>1. s \in 1 .. n - 1 /\ b[s] = a[s]
          BY <1>0, <3>1, <4>3
        <5> QED
          BY <3>2, <4>1, <5>1
      <4> QED
        BY <4>2, <4>3
    <3>7. Fits(b, n)
      BY <3>6
    <3> QED
      BY <2>1, <3>5, <3>7
  <2> QED
    BY <2>2, <2>3
<1>2. N \in 0 .. N /\ N \notin Without
  BY <1>0, <1>1
<1>3. PICK a \in [1 .. N -> Nodes \cup {NoNode}] : Fits(a, N)
  BY <1>2
<1> QED
  BY <1>0, <1>3 DEF IsPlacement

(* A running plan has a running track: between two tracks there is no gap. *)
PlanInHand == plan = "running" => \E t \in Tracks : track[t] = "running"

LEMMA NextPlanInHand == IInv /\ PlanInHand /\ [Next]_vars => PlanInHand'
<1> SUFFICES ASSUME IInv, PlanInHand, [Next]_vars PROVE PlanInHand'
  OBVIOUS
<1>0. /\ PlanTypeOK /\ TrackOrder /\ \A s \in Steps : TrackOf(s) \in Tracks
      /\ track \in [Tracks -> {"pending", "running", "completed", "failed"}]
  BY TrackOfType DEF IInv, PlanTypeOK
<1>1. ASSUME NEW t \in Tracks, NEW tracks,
             tracks \in [Tracks -> {"pending", "running", "completed", "failed"}],
             Begin(t, tracks)
      PROVE  PlanInHand'
  BY <1>1 DEF Begin, Settled, PlanInHand
<1>2. ASSUME NEW t \in Tracks, NEW st \in {"completed", "failed"}, NEW how,
             TrackEnds(t, st, how)
      PROVE  PlanInHand'
  <2>1. [track EXCEPT ![t] = st]
          \in [Tracks -> {"pending", "running", "completed", "failed"}]
    BY <1>0
  <2>2. CASE Begin(2, [track EXCEPT ![t] = st])
    BY <1>1, <2>1, <2>2 DEF Tracks
  <2>3. CASE plan' # "running"
    BY <2>3 DEF PlanInHand
  <2> QED
    BY <1>2, <2>2, <2>3 DEF TrackEnds, Settled
<1>3. CASE Submit
  BY <1>0, <1>1, <1>2, <1>3 DEF Submit, Tracks
<1>4. ASSUME NEW t \in Tracks, EndTrack(t) PROVE PlanInHand'
  BY <1>2, <1>4 DEF EndTrack
<1>5. ASSUME NEW s \in Steps, StepFails(s), Rejects(s) PROVE PlanInHand'
  BY <1>0, <1>2, <1>5 DEF StepFails
<1>6. CASE UNCHANGED <<track, plan>>
  BY <1>6 DEF PlanInHand
<1> QED
  BY <1>3, <1>4, <1>5, <1>6
  DEF Next, vars, planVars, StartBatch, StepCompletes, StepFails, Reroute, Respond,
      RegistryEvent

(* The guards of the actions that go on with a request, in full: with the  *)
(* existence of a placement and of targets for the steps of a batch.       *)
CanSubmit ==
  /\ plan = "pending"
  /\ \E nodes \in [Steps -> Nodes \cup {NoNode}] : IsPlacement(nodes)

CanStart(t) ==
  /\ track[t] = "running" /\ LevelDone(t) /\ Batch(t) # {} /\ MayGoOn(t)
  /\ \E target \in [Batch(t) -> Nodes \cup {NoNode}] :
       \A s \in Batch(t) : target[s] \in Targets(s, request.policy)

CanEnd(t) ==
  /\ track[t] = "running" /\ LevelDone(t)
  /\ Among(t, "pending") = {} \/ ~MayGoOn(t)

CanReturn(s) == status[s] = "running" /\ MayReturn(s)

CanRespond == outcome # "none" /\ answer = "none"

(* While the caller waits, or a step runs, somebody can go on: the executor, *)
(* the router or the caller. *)
NeverStuck ==
  answer = "none" \/ (\E s \in Steps : status[s] = "running") =>
    \/ CanSubmit \/ CanRespond
    \/ \E t \in Tracks : CanStart(t) \/ CanEnd(t)
    \/ \E s \in Steps : CanReturn(s)

LEMMA BatchExists ==
  ASSUME IInv, NEW t \in Tracks, Among(t, "pending") # {} PROVE Batch(t) # {}
<1> DEFINE R == {k \in Nat : \E s \in Among(t, "pending") : k = rank[s]}
<1>1. rank \in [Steps -> Nat] /\ Among(t, "pending") \subseteq Steps
  BY DEF IInv, PlanTypeOK, Among, StepsOf
<1>2. R \in SUBSET Nat /\ R # {}
  BY <1>1
<1>3. PICK k \in R : \A l \in R : k <= l
  BY <1>2, LeastNumber
<1>4. PICK s \in Among(t, "pending") : k = rank[s]
  BY <1>3
<1>5. \A r \in Among(t, "pending") : rank[s] <= rank[r]
  BY <1>1, <1>3, <1>4
<1>6. s \in Batch(t)
  BY <1>4, <1>5 DEF Batch, Among
<1> QED
  BY <1>6

LEMMA NotStuck == IInv /\ PlanInHand => NeverStuck
<1> SUFFICES ASSUME IInv, PlanInHand,
                    answer = "none" \/ (\E s \in Steps : status[s] = "running")
             PROVE  \/ CanSubmit \/ CanRespond
                    \/ \E t \in Tracks : CanStart(t) \/ CanEnd(t)
                    \/ \E s \in Steps : CanReturn(s)
  BY DEF NeverStuck
<1>0. PlanTypeOK /\ TrackOrder
  BY DEF IInv
<1>1. CASE \E s \in Steps : status[s] = "running"
  BY <1>0, <1>1 DEF PlanTypeOK, CanReturn, MayReturn
<1>2. CASE outcome # "none" /\ answer = "none"
  BY <1>2 DEF CanRespond
<1>3. CASE outcome = "none" /\ plan = "pending"
  BY <1>3, PlacementExists DEF CanSubmit
<1>4. CASE plan = "running" /\ ~ \E s \in Steps : status[s] = "running"
  <2>1. PICK t \in Tracks : track[t] = "running"
    BY <1>4 DEF PlanInHand
  <2>2. LevelDone(t)
    BY <1>4 DEF LevelDone, Among, StepsOf
  <2>3. CASE Among(t, "pending") = {} \/ ~MayGoOn(t)
    BY <2>1, <2>2, <2>3 DEF CanEnd
  <2>4. CASE Among(t, "pending") # {} /\ MayGoOn(t)
    <3>1. Batch(t) # {} /\ Batch(t) \subseteq Steps
      BY <2>4, BatchExists DEF Batch, StepsOf
    <3>2. \A s \in Steps : \E n \in Nodes \cup {NoNode} : n \in Targets(s, request.policy)
      BY <1>0 DEF Targets, Candidates, PlanTypeOK
    <3> DEFINE target == [s \in Batch(t) |->
                 CHOOSE n \in Nodes \cup {NoNode} : n \in Targets(s, request.policy)]
    <3>3. /\ target \in [Batch(t) -> Nodes \cup {NoNode}]
          /\ \A s \in Batch(t) : target[s] \in Targets(s, request.policy)
      BY <3>1, <3>2
    <3> QED
      BY <2>1, <2>2, <2>4, <3>1, <3>3 DEF CanStart
  <2> QED
    BY <2>3, <2>4
<1> QED
  BY <1>0, <1>1, <1>2, <1>3, <1>4 DEF TrackOrder

(* No request is ever stuck, whatever nodes and steps do: with             *)
(* WorkAlwaysShrinks, it is answered and its steps end after finitely many *)
(* steps of those that can take one.                                       *)
THEOREM RequestsNeverStuck == Spec => []NeverStuck
<1>1. Init => PlanInHand
  BY DEF Init, PlanInHand
<1> QED
  BY <1>1, NextPlanInHand, NotStuck, SpecIInv, PTL DEF Spec

-----------------------------------------------------------------------------
(* Which completed plans are told *)

(* The callers a completed plan is not told to as a success: the endpoint, *)
(* of a composition; the endpoint whose audit event cannot be written; the *)
(* worker, of a result it does not accept.                                 *)
MayGoUntold ==
  \/ request.caller = "endpoint" /\ IsComposition
  \/ request.caller = "endpoint" /\ AuditMayFail /\ request.executor \in OfPlan
  \/ request.caller = "worker" /\ request.executor \notin OfPlan

(* Only a plan that failed makes its executor throw. *)
ToldSound ==
  /\ outcome = "thrown" => plan = "failed"
  /\ answer # "none" /\ plan = "completed" => answer = "success" \/ MayGoUntold

LEMMA TrackEndsTold ==
  ASSUME NEW t, NEW st \in {"completed", "failed"}, NEW how \in {"returned", "thrown"},
         how = "thrown" => st = "failed", outcome = "none",
         TrackEnds(t, st, how)
  PROVE  outcome' = "thrown" => plan' = "failed"
<1> DEFINE ended == [track EXCEPT ![t] = st]
<1>1. Begin(2, ended) => (outcome' = "thrown" => plan' = "failed")
  BY DEF Begin, Settled
<1> QED
  BY <1>1 DEF TrackEnds, Settled

LEMMA NextTold == IInv /\ ToldSound /\ [Next]_vars => ToldSound'
<1> SUFFICES ASSUME IInv, ToldSound, [Next]_vars PROVE ToldSound'
  OBVIOUS
<1>0. /\ request \in Requests /\ outcome \in {"none", "returned", "thrown"}
      /\ answer # "none" => outcome # "none"
      /\ plan \in {"pending", "running"} <=> outcome = "none"
      /\ \A t \in Tracks : track[t] = "running" => plan = "running"
      /\ plan \in {"pending", "running", "completed", "failed"}
  BY DEF IInv, PlanTypeOK, TrackOrder
<1>1. CASE UNCHANGED planVars
  BY <1>1 DEF planVars, ToldSound, MayGoUntold, IsComposition
<1>2. ASSUME UNCHANGED <<request, track, plan, outcome, answer>> PROVE ToldSound'
  BY <1>2 DEF ToldSound, MayGoUntold, IsComposition
<1>3. ASSUME outcome = "none", UNCHANGED <<request, answer>>,
             outcome' = "thrown" => plan' = "failed"
      PROVE  ToldSound'
  BY <1>0, <1>3 DEF ToldSound
<1>4. CASE Submit
  <2>1. outcome = "none" /\ UNCHANGED <<request, answer>>
    BY <1>0, <1>4 DEF Submit
  <2>2. outcome' = "thrown" => plan' = "failed"
    <3>1. CASE TrackEnds(1, "failed", "thrown")
      BY <2>1, <3>1, TrackEndsTold
    <3>2. CASE Begin(1, track)
      BY <2>1, <3>2 DEF Begin, Settled
    <3> QED
      BY <1>4, <3>1, <3>2 DEF Submit
  <2> QED
    BY <1>3, <2>1, <2>2
<1>5. CASE \E t \in Tracks : StartBatch(t)
  BY <1>2, <1>5 DEF StartBatch
<1>6. ASSUME NEW t \in Tracks, EndTrack(t) PROVE ToldSound'
  <2>1. outcome = "none" /\ UNCHANGED <<request, answer>>
    BY <1>0, <1>6 DEF EndTrack
  <2>2. \/ TrackEnds(t, "completed", "returned") \/ TrackEnds(t, "failed", "returned")
        \/ TrackEnds(t, "failed", "thrown")
    BY <1>6 DEF EndTrack
  <2>3. outcome' = "thrown" => plan' = "failed"
    BY <2>1, <2>2, TrackEndsTold
  <2> QED
    BY <1>3, <2>1, <2>3
<1>7. CASE \E s \in Steps : StepCompletes(s)
  BY <1>2, <1>7 DEF StepCompletes
<1>8. ASSUME NEW s \in Steps, StepFails(s) PROVE ToldSound'
  <2>1. CASE Rejects(s)
    <3>1. outcome = "none" /\ UNCHANGED <<request, answer>>
      BY <1>0, <1>8, <2>1, TrackOfType DEF StepFails, Rejects
    <3>2. TrackEnds(TrackOf(s), "failed", "thrown")
      BY <1>8, <2>1 DEF StepFails
    <3>3. outcome' = "thrown" => plan' = "failed"
      BY <3>1, <3>2, TrackEndsTold
    <3> QED
      BY <1>3, <3>1, <3>3
  <2>2. CASE ~Rejects(s)
    BY <1>2, <1>8, <2>2 DEF StepFails
  <2> QED
    BY <2>1, <2>2
<1>9. CASE Respond
  <2>1. /\ UNCHANGED <<request, plan, outcome>>
        /\ MayGoUntold' = MayGoUntold
    BY <1>9 DEF Respond, MayGoUntold, IsComposition
  <2>2. plan = "completed" => outcome = "returned"
    BY <1>0 DEF ToldSound
  <2>3. plan = "completed" /\ ~MayGoUntold => answer' = "success"
    BY <1>9, <2>2 DEF Respond, Reported, MayGoUntold
  <2> QED
    BY <2>1, <2>2, <2>3 DEF ToldSound
<1>10. CASE RegistryEvent
  BY <1>1, <1>10 DEF RegistryEvent
<1>11. CASE \E s \in Steps : Reroute(s)
  BY <1>1, <1>11 DEF Reroute
<1>12. CASE UNCHANGED vars
  BY <1>1, <1>12 DEF vars, planVars
<1> QED
  BY <1>4, <1>5, <1>6, <1>7, <1>8, <1>9, <1>10, <1>11, <1>12 DEF Next

(* A completed plan is answered as a success by every caller but those     *)
(* three: the endpoint of compositions (plan.steps), the endpoint that     *)
(* cannot write its audit event, and the worker with another executor's    *)
(* result.  No interleaving of steps, nodes and failures adds a fourth.    *)
THEOREM CompletedReportedElsewhere == Spec => [](MayGoUntold \/ CompletedIsReported)
<1>1. Init => ToldSound
  BY DEF Init, ToldSound
<1>2. ToldSound => MayGoUntold \/ CompletedIsReported
  BY DEF ToldSound, CompletedIsReported
<1> QED
  BY <1>1, <1>2, NextTold, SpecIInv, PTL DEF Spec

=============================================================================
