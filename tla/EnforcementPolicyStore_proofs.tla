------------------ MODULE EnforcementPolicyStore_proofs -------------------
(***************************************************************************)
(* The policy store's promises, for any tracks, models, roles and number   *)
(* of requests, with crashes, failing writes and damaged files.            *)
(***************************************************************************)
EXTENDS EnforcementPolicyStore, TLAPS

---------------------------------------------------------------------------
(* Types.                                                                  *)

\* A change of the policy is a policy.
LEMMA CandidateIsPolicy ==
  ASSUME policy \in Policies, NEW change \in Changes
  PROVE  Candidate(change) \in Policies
<1>1. change.track \in Tracks
  BY DEF Changes, SetChanges, ApprovalChanges, OverrideChanges
<1>2. policy.tracks \in [Tracks -> TrackRecords]
  BY DEF Policies
<1>3. policy.tracks[change.track] \in TrackRecords
  BY <1>1, <1>2
<1>4. ChangedRecord(policy.tracks[change.track], change) \in TrackRecords
  <2>1. CASE change.op = "set"
    <3>1. change.to \in TrackStates
      BY <2>1 DEF Changes, SetChanges, ApprovalChanges, OverrideChanges
    <3>2. QED
      BY <1>3, <2>1, <3>1 DEF ChangedRecord, TrackRecords
  <2>2. CASE change.op = "approve"
    BY <1>3, <2>2 DEF ChangedRecord, TrackRecords
  <2>3. CASE change.op = "revoke"
    <3>1. \A s \in TrackStates : Demoted(s) \in TrackStates
      BY DEF Demoted, TrackStates
    <3>2. QED
      BY <1>3, <2>3, <3>1 DEF ChangedRecord, TrackRecords
  <2>4. CASE change.op \notin {"set", "approve", "revoke"}
    BY <1>3, <2>4 DEF ChangedRecord
  <2>5. QED
    BY <2>1, <2>2, <2>3, <2>4
<1>5. ChangedOverrides(change) \in SUBSET (Tracks \X Capabilities)
  <2>1. policy.overrides \in SUBSET (Tracks \X Capabilities)
    BY DEF Policies
  <2>2. CASE change.op = "override"
    <3>1. change.cap \in Capabilities
      BY <2>2 DEF Changes, SetChanges, ApprovalChanges, OverrideChanges
    <3>2. QED
      BY <1>1, <2>1, <2>2, <3>1 DEF ChangedOverrides
  <2>3. CASE change.op # "override"
    BY <2>1, <2>3 DEF ChangedOverrides
  <2>4. QED
    BY <2>2, <2>3
<1>6. [policy.tracks EXCEPT ![change.track] = ChangedRecord(@, change)] \in [Tracks -> TrackRecords]
  BY <1>2, <1>4
<1>7. policy.revision + 1 \in Nat
  BY DEF Policies
<1>8. QED
  BY <1>5, <1>6, <1>7 DEF Candidate, Policies

\* Running a function keeps the types of the file and of the request table.
LEMMA ExecutionTypes ==
  ASSUME PolicyTypeOK,
         NEW rq \in [Requests -> RequestStates], NEW r \in Requests, rq[r] \in Entries,
         ExecuteMutation(r, rq)
  PROVE  /\ file' \in Files
         /\ req' \in [Requests -> RequestStates]
<1>1. rq[r].change \in Changes
  BY DEF Entries
<1>2. Candidate(rq[r].change) \in Policies
  BY <1>1, CandidateIsPolicy DEF PolicyTypeOK
<1>3. \A pc \in Phases : [rq EXCEPT ![r].pc = pc] \in [Requests -> RequestStates]
  BY DEF Entries, RequestStates
<1>4. "written" \in Phases /\ "settling" \in Phases
  BY DEF Phases
<1>5. QED
  BY <1>2, <1>3, <1>4 DEF ExecuteMutation, Written, Files, PolicyTypeOK

\* A function that enters the queue keeps the types.
LEMMA MutateTypes ==
  ASSUME PolicyTypeOK, NEW r \in Requests, NEW change \in Changes,
         NEW token \in Tokens \cup {NoToken}, Mutate(r, change, token)
  PROVE  /\ file' \in Files
         /\ req' \in [Requests -> RequestStates]
         /\ queue' \in Seq(Requests)
<1>. DEFINE entry == [pc |-> "pending", change |-> change, token |-> token]
            rq == [req EXCEPT ![r] = entry]
<1>1. entry \in Entries
  BY DEF Entries, Phases
<1>2. rq \in [Requests -> RequestStates] /\ rq[r] \in Entries
  BY <1>1 DEF PolicyTypeOK, RequestStates
<1>3. CASE Flushing
  BY <1>2, <1>3 DEF Mutate, PolicyTypeOK
<1>4. CASE ~Flushing
  <2>1. ExecuteMutation(r, rq) /\ queue' = queue
    BY <1>4 DEF Mutate
  <2>2. QED
    BY <1>2, <2>1, ExecutionTypes DEF PolicyTypeOK
<1>5. QED
  BY <1>3, <1>4

\* A request that is not idle holds an entry.
LEMMA ActiveHasEntry ==
  ASSUME PolicyTypeOK, NEW r \in Requests, req[r].pc # "idle"
  PROVE  req[r] \in Entries
BY DEF PolicyTypeOK, RequestStates, Idle

\* The default policy, and what the file holds, is a policy.
LEMMA FilesHoldPolicies == \A f \in Files : f.policy \in Policies
<1>1. DefaultPolicy \in Policies
  BY DEF DefaultPolicy, Policies, NoRecord, TrackRecords, TrackStates
<1>2. QED
  BY <1>1 DEF Files, Missing, Damaged

\* The request at the head of the queue waits, and is not the one that settles.
LEMMA HeadIsPending ==
  ASSUME PolicyTypeOK, OneMutationAtATime, queue # <<>>
  PROVE  /\ Head(queue) \in Requests
         /\ req[Head(queue)].pc = "pending"
         /\ req[Head(queue)] \in Entries
<1>1. Head(queue) = queue[1] /\ 1 \in 1..Len(queue) /\ Head(queue) \in Requests
  BY DEF PolicyTypeOK
<1>2. req[Head(queue)].pc = "pending"
  BY <1>1 DEF OneMutationAtATime
<1>3. QED
  BY <1>1, <1>2, ActiveHasEntry

\* Every step keeps the types.
LEMMA TypesKept == PolicyTypeOK /\ OneMutationAtATime /\ [Next]_vars => PolicyTypeOK'
<1>. SUFFICES ASSUME PolicyTypeOK, OneMutationAtATime, [Next]_vars
              PROVE  PolicyTypeOK'
  OBVIOUS
<1>1. ASSUME NEW r \in Requests, Request(r)
      PROVE  PolicyTypeOK'
  <2>1. PICK change \in Changes : Mutate(r, change, NoToken)
    BY <1>1 DEF Request
  <2>2. QED
    BY <1>1, <2>1, MutateTypes DEF Request, PolicyTypeOK
<1>2. ASSUME NEW r \in Requests, RequestEnforced(r)
      PROVE  PolicyTypeOK'
  <2>1. PICK t \in Tracks :
          /\ SetAllowed(t, "enforced")
          /\ req' = [req EXCEPT ![r] =
               [ pc |-> "gate",
                 change |-> [op |-> "set", track |-> t, to |-> "enforced"],
                 token |-> [revision |-> policy.revision, model |-> registry[t].cap.model] ]]
    BY <1>2 DEF RequestEnforced
  <2>2. registry[t].cap \in Capabilities
    BY <2>1 DEF SetAllowed, EnforcementGate, EligibilityGate, PolicyTypeOK, Qualifications, Unqualified
  <2>3. [revision |-> policy.revision, model |-> registry[t].cap.model] \in Tokens
    BY <2>2 DEF Capabilities, Tokens, PolicyTypeOK, Policies
  <2>4. [op |-> "set", track |-> t, to |-> "enforced"] \in Changes
    BY DEF Changes, SetChanges, TrackStates
  <2>5. req' \in [Requests -> RequestStates]
    BY <2>1, <2>3, <2>4 DEF PolicyTypeOK, RequestStates, Entries, Phases
  <2>6. QED
    BY <1>2, <2>5 DEF RequestEnforced, PolicyTypeOK
<1>3. ASSUME NEW r \in Requests, GatePasses(r)
      PROVE  PolicyTypeOK'
  <2>1. req[r] \in Entries
    BY <1>3, ActiveHasEntry DEF GatePasses
  <2>2. QED
    BY <1>3, <2>1, MutateTypes DEF GatePasses, PolicyTypeOK, Entries
<1>4. ASSUME NEW r \in Requests, GateRefuses(r)
      PROVE  PolicyTypeOK'
  BY <1>4 DEF GateRefuses, PolicyTypeOK, RequestStates
<1>5. ASSUME NEW r \in Requests, Publish(r)
      PROVE  PolicyTypeOK'
  <2>1. req[r] \in Entries
    BY <1>5, ActiveHasEntry DEF Publish
  <2>2. req' \in [Requests -> RequestStates]
    BY <1>5, <2>1 DEF Publish, PolicyTypeOK, RequestStates, Entries, Phases
  <2>3. QED
    BY <1>5, <2>2, FilesHoldPolicies DEF Publish, PolicyTypeOK
<1>6. ASSUME NEW r \in Requests, Settle(r)
      PROVE  PolicyTypeOK'
  <2>. DEFINE rq == [req EXCEPT ![r] = Idle]
  <2>1. rq \in [Requests -> RequestStates]
    BY DEF PolicyTypeOK, RequestStates
  <2>2. CASE queue = <<>>
    BY <1>6, <2>1, <2>2 DEF Settle, PolicyTypeOK
  <2>3. CASE queue # <<>>
    <3>1. rq[Head(queue)] \in Entries /\ Head(queue) \in Requests
      BY <1>6, <2>3, HeadIsPending DEF Settle, PolicyTypeOK
    <3>2. ExecuteMutation(Head(queue), rq) /\ queue' = Tail(queue)
      BY <1>6, <2>3 DEF Settle
    <3>3. file' \in Files /\ req' \in [Requests -> RequestStates]
      BY <2>1, <3>1, <3>2, ExecutionTypes
    <3>4. queue' \in Seq(Requests)
      BY <2>3, <3>2 DEF PolicyTypeOK
    <3>5. QED
      BY <1>6, <3>3, <3>4 DEF Settle, PolicyTypeOK
  <2>4. QED
    BY <2>2, <2>3
<1>7. ASSUME RegistryChanges
      PROVE  PolicyTypeOK'
  BY <1>7 DEF RegistryChanges, PolicyTypeOK
<1>8. ASSUME Restart
      PROVE  PolicyTypeOK'
  <2>1. file' \in Files
    BY <1>8 DEF Restart, PolicyTypeOK, Files
  <2>2. QED
    BY <1>8, <2>1, FilesHoldPolicies DEF Restart, Load, PolicyTypeOK, RequestStates
<1>9. CASE UNCHANGED vars
  BY <1>9 DEF vars, PolicyTypeOK
<1>10. QED
  BY <1>1, <1>2, <1>3, <1>4, <1>5, <1>6, <1>7, <1>8, <1>9 DEF Next, RequestStep

---------------------------------------------------------------------------
(* The queue serialises the mutations.                                     *)

Busy(pc) == pc \in {"written", "settling"}

\* What running a function changes in the request table.
LEMMA ExecutionPhases ==
  ASSUME NEW rq \in [Requests -> RequestStates], NEW r \in Requests, rq[r] \in Entries,
         ExecuteMutation(r, rq)
  PROVE  /\ Busy(req'[r].pc)
         /\ req'[r].change = rq[r].change
         /\ req'[r].token = rq[r].token
         /\ \A s \in Requests \ {r} : req'[s] = rq[s]
BY DEF ExecuteMutation, Busy, Entries

\* Every step keeps the serialisation.
LEMMA SerialKept == PolicyTypeOK /\ OneMutationAtATime /\ [Next]_vars => OneMutationAtATime'
<1>. SUFFICES ASSUME PolicyTypeOK, OneMutationAtATime, [Next]_vars
              PROVE  OneMutationAtATime'
  OBVIOUS
<1>1. ASSUME NEW r \in Requests, NEW change \in Changes, NEW token \in Tokens \cup {NoToken},
             req[r].pc \in {"idle", "gate"}, Mutate(r, change, token)
      PROVE  OneMutationAtATime'
  <2>. DEFINE entry == [pc |-> "pending", change |-> change, token |-> token]
              rq == [req EXCEPT ![r] = entry]
  <2>1. entry \in Entries /\ rq \in [Requests -> RequestStates]
    BY DEF Entries, Phases, PolicyTypeOK, RequestStates
  <2>2. CASE Flushing
    <3>1. req' = rq /\ queue' = Append(queue, r)
      BY <1>1, <2>2 DEF Mutate
    <3>2. \A s \in Requests : req'[s] = IF s = r THEN entry ELSE req[s]
      BY <3>1 DEF PolicyTypeOK
    <3>3. /\ Len(queue') = Len(queue) + 1
          /\ \A i \in 1..Len(queue') : queue'[i] = IF i = Len(queue) + 1 THEN r ELSE queue[i]
      BY <3>1 DEF PolicyTypeOK
    <3>4. \A i \in 1..Len(queue) : queue[i] # r
      BY <1>1 DEF OneMutationAtATime
    <3>5. Flushing'
      BY <1>1, <2>2, <3>2 DEF Flushing
    <3>6. \A s \in Requests : req'[s].pc = "pending" <=> \E i \in 1..Len(queue') : queue'[i] = s
      BY <3>2, <3>3 DEF OneMutationAtATime, PolicyTypeOK
    <3>7. \A i, j \in 1..Len(queue') : queue'[i] = queue'[j] => i = j
      BY <3>3, <3>4 DEF OneMutationAtATime, PolicyTypeOK
    <3>8. \A s, t \in Requests :
            {req'[s].pc, req'[t].pc} \subseteq {"written", "settling"} => s = t
      BY <3>2 DEF OneMutationAtATime
    <3>9. QED
      BY <3>5, <3>6, <3>7, <3>8 DEF OneMutationAtATime
  <2>3. CASE ~Flushing
    <3>1. ExecuteMutation(r, rq) /\ queue' = queue
      BY <1>1, <2>3 DEF Mutate
    <3>2. queue = <<>>
      BY <2>3 DEF OneMutationAtATime
    <3>3. \A s \in Requests \ {r} : req'[s] = req[s]
      BY <2>1, <3>1, ExecutionPhases DEF PolicyTypeOK
    <3>4. Busy(req'[r].pc)
      BY <2>1, <3>1, ExecutionPhases DEF PolicyTypeOK
    <3>5. \A s \in Requests \ {r} : ~Busy(req'[s].pc)
      BY <2>3, <3>3 DEF Flushing, Busy
    <3>6. \A s \in Requests : req'[s].pc # "pending"
      BY <3>2, <3>3, <3>4 DEF OneMutationAtATime, Busy
    <3>7. QED
      BY <3>1, <3>2, <3>4, <3>5, <3>6 DEF OneMutationAtATime, Busy
  <2>4. QED
    BY <2>2, <2>3
<1>2. ASSUME NEW r \in Requests, Request(r)
      PROVE  OneMutationAtATime'
  BY <1>1, <1>2 DEF Request
<1>3. ASSUME NEW r \in Requests, GatePasses(r)
      PROVE  OneMutationAtATime'
  <2>1. req[r] \in Entries
    BY <1>3, ActiveHasEntry DEF GatePasses
  <2>2. QED
    BY <1>1, <1>3, <2>1 DEF GatePasses, Entries
<1>4. ASSUME NEW r \in Requests, RequestEnforced(r) \/ GateRefuses(r)
      PROVE  OneMutationAtATime'
  <2>1. \A s \in Requests \ {r} : req'[s] = req[s]
    BY <1>4 DEF RequestEnforced, GateRefuses, PolicyTypeOK
  <2>2. {req[r].pc, req'[r].pc} \subseteq {"idle", "gate"} /\ queue' = queue
    BY <1>4 DEF RequestEnforced, GateRefuses, PolicyTypeOK, Idle
  <2>3. Flushing => Flushing'
    BY <2>1, <2>2 DEF Flushing
  <2>4. \A s \in Requests : req'[s].pc = "pending" <=> req[s].pc = "pending"
    BY <2>1, <2>2
  <2>5. \A s \in Requests : Busy(req'[s].pc) <=> Busy(req[s].pc)
    BY <2>1, <2>2 DEF Busy
  <2>6. QED
    BY <2>2, <2>3, <2>4, <2>5 DEF OneMutationAtATime, Busy
<1>5. ASSUME NEW r \in Requests, Publish(r)
      PROVE  OneMutationAtATime'
  <2>1. req[r] \in Entries
    BY <1>5, ActiveHasEntry DEF Publish
  <2>2. \A s \in Requests \ {r} : req'[s] = req[s]
    BY <1>5 DEF Publish, PolicyTypeOK
  <2>3. req[r].pc = "written" /\ req'[r].pc = "settling" /\ queue' = queue
    BY <1>5, <2>1 DEF Publish, PolicyTypeOK, Entries
  <2>4. Flushing'
    BY <2>3 DEF Flushing
  <2>5. \A s \in Requests : req'[s].pc = "pending" <=> req[s].pc = "pending"
    BY <2>2, <2>3
  <2>6. \A s \in Requests : Busy(req'[s].pc) <=> Busy(req[s].pc)
    BY <2>2, <2>3 DEF Busy
  <2>7. QED
    BY <2>3, <2>4, <2>5, <2>6 DEF OneMutationAtATime, Busy
<1>6. ASSUME NEW r \in Requests, Settle(r)
      PROVE  OneMutationAtATime'
  <2>. DEFINE rq == [req EXCEPT ![r] = Idle]
  <2>1. rq \in [Requests -> RequestStates]
    BY DEF PolicyTypeOK, RequestStates
  <2>2. \A s \in Requests \ {r} : ~Busy(req[s].pc)
    BY <1>6 DEF Settle, OneMutationAtATime, Busy
  <2>3. CASE queue = <<>>
    <3>1. req' = rq /\ queue' = queue
      BY <1>6, <2>3 DEF Settle
    <3>2. \A s \in Requests : req'[s].pc # "pending" /\ ~Busy(req'[s].pc)
      BY <2>2, <2>3, <3>1 DEF OneMutationAtATime, Idle, Busy, PolicyTypeOK
    <3>3. QED
      BY <2>3, <3>1, <3>2 DEF OneMutationAtATime, Busy
  <2>4. CASE queue # <<>>
    <3>. DEFINE h == Head(queue)
    <3>1. h \in Requests /\ req[h].pc = "pending" /\ req[h] \in Entries
      BY <2>4, HeadIsPending
    <3>2. h # r /\ rq[h] \in Entries
      BY <1>6, <3>1 DEF Settle, PolicyTypeOK
    <3>3. ExecuteMutation(h, rq) /\ queue' = Tail(queue)
      BY <1>6, <2>4 DEF Settle
    <3>4. Busy(req'[h].pc)
      BY <2>1, <3>1, <3>2, <3>3, ExecutionPhases
    <3>5. \A s \in Requests \ {h} : req'[s] = IF s = r THEN Idle ELSE req[s]
      BY <2>1, <3>1, <3>2, <3>3, ExecutionPhases DEF PolicyTypeOK
    <3>6. \A s \in Requests \ {h} : ~Busy(req'[s].pc)
      BY <2>2, <3>5 DEF Busy, Idle
    <3>7. /\ Len(queue') = Len(queue) - 1
          /\ \A i \in 1..Len(queue') : queue'[i] = queue[i + 1]
          /\ h = queue[1]
          /\ Len(queue) \in Nat \ {0}
      BY <2>4, <3>3 DEF PolicyTypeOK
    <3>8. ASSUME NEW i \in 1..Len(queue'), NEW j \in 1..Len(queue'), queue'[i] = queue'[j]
          PROVE  i = j
      <4>1. i + 1 \in 1..Len(queue) /\ j + 1 \in 1..Len(queue)
        BY <3>7
      <4>2. queue[i + 1] = queue[j + 1]
        BY <3>7, <3>8
      <4>3. i + 1 = j + 1
        BY <4>1, <4>2 DEF OneMutationAtATime
      <4>4. QED
        BY <4>3
    <3>9. \A s \in Requests : req'[s].pc = "pending" <=> \E i \in 1..Len(queue') : queue'[i] = s
      <4>1. ASSUME NEW s \in Requests, req'[s].pc = "pending"
            PROVE  \E i \in 1..Len(queue') : queue'[i] = s
        <5>1. s # h /\ s # r /\ req[s].pc = "pending"
          BY <3>4, <3>5, <4>1 DEF Busy, Idle
        <5>2. PICK i \in 1..Len(queue) : queue[i] = s
          BY <5>1 DEF OneMutationAtATime
        <5>3. i # 1 /\ i - 1 \in 1..Len(queue')
          BY <3>7, <5>1, <5>2
        <5>4. queue'[i - 1] = s
          BY <3>7, <5>2, <5>3
        <5>5. QED
          BY <5>3, <5>4
      <4>2. ASSUME NEW s \in Requests, NEW i \in 1..Len(queue'), queue'[i] = s
            PROVE  req'[s].pc = "pending"
        <5>1. queue[i + 1] = s /\ i + 1 \in 1..Len(queue)
          BY <3>7, <4>2
        <5>2. req[s].pc = "pending"
          BY <5>1 DEF OneMutationAtATime
        <5>3. s # h
          BY <3>7, <5>1 DEF OneMutationAtATime
        <5>4. s # r
          BY <1>6, <5>2 DEF Settle
        <5>5. QED
          BY <3>5, <5>2, <5>3, <5>4
      <4>3. QED
        BY <4>1, <4>2
    <3>10. QED
      BY <3>1, <3>4, <3>6, <3>8, <3>9 DEF OneMutationAtATime, Busy, Flushing
  <2>5. QED
    BY <2>3, <2>4
<1>7. CASE RegistryChanges \/ UNCHANGED vars
  BY <1>7 DEF RegistryChanges, vars, OneMutationAtATime, Flushing
<1>8. CASE Restart
  <2>1. queue' = <<>> /\ \A s \in Requests : req'[s].pc = "idle"
    BY <1>8 DEF Restart, Load, Idle
  <2>2. QED
    BY <2>1 DEF OneMutationAtATime
<1>9. QED
  BY <1>2, <1>3, <1>4, <1>5, <1>6, <1>7, <1>8 DEF Next, RequestStep

---------------------------------------------------------------------------
(* The file and the policy in memory.                                      *)

\* Every step keeps the file at most one commit ahead.
LEMMA FileKept ==
  PolicyTypeOK /\ OneMutationAtATime /\ FileLeadsByOneCommit /\ [Next]_vars => FileLeadsByOneCommit'
<1>. SUFFICES ASSUME PolicyTypeOK, OneMutationAtATime, FileLeadsByOneCommit, [Next]_vars
              PROVE  FileLeadsByOneCommit'
  OBVIOUS
<1>1. ASSUME NEW rq \in [Requests -> RequestStates], NEW r \in Requests, rq[r] \in Entries,
             \A s \in Requests : rq[s].pc # "written",
             file.policy = policy, policy' = policy, ExecuteMutation(r, rq)
      PROVE  FileLeadsByOneCommit'
  <2>1. CASE file' = Written(Candidate(rq[r].change)) /\ req' = [rq EXCEPT ![r].pc = "written"]
    <3>1. req'[r].pc = "written"
      BY <1>1, <2>1 DEF Entries
    <3>2. file'.kind = "policy" /\ file'.policy.revision = policy'.revision + 1
      BY <1>1, <2>1 DEF Written, Candidate
    <3>3. QED
      BY <3>1, <3>2 DEF FileLeadsByOneCommit
  <2>2. CASE file' = file /\ req' = [rq EXCEPT ![r].pc = "settling"]
    <3>1. \A s \in Requests : req'[s].pc # "written"
      BY <1>1, <2>2 DEF Entries
    <3>2. QED
      BY <1>1, <2>2, <3>1 DEF FileLeadsByOneCommit
  <2>3. QED
    BY <1>1, <2>1, <2>2 DEF ExecuteMutation
<1>2. ASSUME NEW r \in Requests, NEW change \in Changes, NEW token \in Tokens \cup {NoToken},
             req[r].pc \in {"idle", "gate"}, Mutate(r, change, token), policy' = policy
      PROVE  FileLeadsByOneCommit'
  <2>. DEFINE entry == [pc |-> "pending", change |-> change, token |-> token]
              rq == [req EXCEPT ![r] = entry]
  <2>1. entry \in Entries /\ rq \in [Requests -> RequestStates]
    BY DEF Entries, Phases, PolicyTypeOK, RequestStates
  <2>2. \A s \in Requests : rq[s].pc = "written" <=> req[s].pc = "written"
    BY <1>2 DEF PolicyTypeOK
  <2>3. CASE Flushing
    BY <1>2, <2>2, <2>3 DEF Mutate, FileLeadsByOneCommit
  <2>4. CASE ~Flushing
    <3>1. \A s \in Requests : rq[s].pc # "written"
      BY <2>2, <2>4 DEF Flushing
    <3>2. file.policy = policy
      BY <2>2, <3>1 DEF FileLeadsByOneCommit
    <3>3. ExecuteMutation(r, rq)
      BY <1>2, <2>4 DEF Mutate
    <3>4. rq[r] \in Entries
      BY <2>1 DEF PolicyTypeOK
    <3>5. QED
      BY <1>1, <1>2, <2>1, <3>1, <3>2, <3>3, <3>4
  <2>5. QED
    BY <2>3, <2>4
<1>3. ASSUME NEW r \in Requests, Request(r)
      PROVE  FileLeadsByOneCommit'
  BY <1>2, <1>3 DEF Request
<1>4. ASSUME NEW r \in Requests, GatePasses(r)
      PROVE  FileLeadsByOneCommit'
  <2>1. req[r] \in Entries
    BY <1>4, ActiveHasEntry DEF GatePasses
  <2>2. QED
    BY <1>2, <1>4, <2>1 DEF GatePasses, Entries
<1>5. ASSUME NEW r \in Requests, RequestEnforced(r) \/ GateRefuses(r)
      PROVE  FileLeadsByOneCommit'
  <2>1. \A s \in Requests : req'[s].pc = "written" <=> req[s].pc = "written"
    BY <1>5 DEF RequestEnforced, GateRefuses, PolicyTypeOK, Idle
  <2>2. QED
    BY <1>5, <2>1 DEF RequestEnforced, GateRefuses, FileLeadsByOneCommit
<1>6. ASSUME NEW r \in Requests, Publish(r)
      PROVE  FileLeadsByOneCommit'
  <2>1. req[r] \in Entries
    BY <1>6, ActiveHasEntry DEF Publish
  <2>2. \A s \in Requests : req'[s].pc # "written"
    BY <1>6, <2>1 DEF Publish, PolicyTypeOK, OneMutationAtATime, Entries
  <2>3. file'.policy = policy'
    BY <1>6 DEF Publish
  <2>4. QED
    BY <2>2, <2>3 DEF FileLeadsByOneCommit
<1>7. ASSUME NEW r \in Requests, Settle(r)
      PROVE  FileLeadsByOneCommit'
  <2>. DEFINE rq == [req EXCEPT ![r] = Idle]
  <2>1. rq \in [Requests -> RequestStates]
    BY DEF PolicyTypeOK, RequestStates
  <2>2. \A s \in Requests : req[s].pc # "written" /\ rq[s].pc # "written"
    BY <1>7 DEF Settle, OneMutationAtATime, PolicyTypeOK, Idle
  <2>3. file.policy = policy /\ policy' = policy
    BY <1>7, <2>2 DEF FileLeadsByOneCommit, Settle
  <2>4. CASE queue = <<>>
    <3>1. req' = rq /\ file' = file
      BY <1>7, <2>4 DEF Settle
    <3>2. QED
      BY <2>2, <2>3, <3>1 DEF FileLeadsByOneCommit
  <2>5. CASE queue # <<>>
    <3>1. rq[Head(queue)] \in Entries /\ Head(queue) \in Requests
      BY <1>7, <2>5, HeadIsPending DEF Settle, PolicyTypeOK
    <3>2. ExecuteMutation(Head(queue), rq)
      BY <1>7, <2>5 DEF Settle
    <3>3. QED
      BY <1>1, <2>1, <2>2, <2>3, <3>1, <3>2
  <2>6. QED
    BY <2>4, <2>5
<1>8. CASE RegistryChanges \/ UNCHANGED vars
  BY <1>8 DEF RegistryChanges, vars, FileLeadsByOneCommit
<1>9. CASE Restart
  <2>1. file'.policy = policy' /\ \A s \in Requests : req'[s].pc # "written"
    BY <1>9 DEF Restart, Load, Idle
  <2>2. QED
    BY <2>1 DEF FileLeadsByOneCommit
<1>10. QED
  BY <1>3, <1>4, <1>5, <1>6, <1>7, <1>8, <1>9 DEF Next, RequestStep

---------------------------------------------------------------------------
(* The inductive invariant.                                                *)

InProgress(r) == req[r].pc # "idle"

\* Only a move to enforced awaits the gate.  Its token is not ahead of the
\* policy; while it is not behind either, the policy is the one the gate saw.
TokensSound ==
  \A r \in Requests :
    InProgress(r) =>
      /\ req[r].pc = "gate" => Enforces(req[r].change)
      /\ Enforces(req[r].change) =>
           /\ req[r].token \in Tokens
           /\ req[r].token.revision <= policy.revision
           /\ req[r].token.revision = policy.revision =>
                /\ policy.tracks[req[r].change.track].state = "eligible"
                /\ \E cap \in Capabilities :
                     /\ cap.model = req[r].token.model
                     /\ ~Blocked(req[r].change.track, cap)

\* While the store is locked no request in progress escalates a track.
LockedRequests ==
  locked => \A r \in Requests :
              InProgress(r) /\ req[r].change.op = "set" =>
                req[r].change.to \notin EscalatedStates

Disables(change, t) == change.op = "set" /\ change.to = "disabled" /\ change.track = t

\* A waiting request to disable a track comes before one to enforce it whose
\* token is up to date.
DisableGoesFirst ==
  \A r \in Requests, i \in 1..Len(queue) :
    /\ InProgress(r) /\ Enforces(req[r].change)
    /\ req[r].token.revision = policy.revision
    /\ Disables(req[queue[i]].change, req[r].change.track)
    => req[r].pc = "gate" \/ \E j \in 1..Len(queue) : i < j /\ queue[j] = r

\* While a track is enforced, or about to be, no request to disable it waits.
EnforcedUndisturbed ==
  \A t \in Tracks :
    CommittedState(t) = "enforced" =>
      /\ policy.tracks[t].state \in EscalatedStates
      /\ \A i \in 1..Len(queue) : ~Disables(req[queue[i]].change, t)

PolicyInv ==
  /\ PolicyTypeOK
  /\ OneMutationAtATime
  /\ FileLeadsByOneCommit
  /\ EnforcedIsApproved
  /\ TokensSound
  /\ LockedRequests /\ LockedNeverEscalates
  /\ DisableGoesFirst
  /\ EnforcedUndisturbed

---------------------------------------------------------------------------
(* What the steps that run a function do.                                  *)

\* What every step starts from.
BaseInv == PolicyTypeOK /\ OneMutationAtATime /\ FileLeadsByOneCommit

\* Request r, whose function was not running, writes its change.
Commits(r) ==
  /\ ~Busy(req[r].pc)
  /\ req'[r].pc = "written"
  /\ req'[r].change \in Changes
  /\ Admits(req'[r].change, req'[r].token)
  /\ file.policy = policy
  /\ file' = Written(Candidate(req'[r].change))

\* The outcome of running a function: it is written, or nothing is.
LEMMA ExecutionEffect ==
  ASSUME NEW rq \in [Requests -> RequestStates], NEW r \in Requests, rq[r] \in Entries,
         ~Busy(req[r].pc), file.policy = policy, ExecuteMutation(r, rq)
  PROVE  file' = file \/ Commits(r)
<1>1. CASE /\ Admits(rq[r].change, rq[r].token)
           /\ file' = Written(Candidate(rq[r].change))
           /\ req' = [rq EXCEPT ![r].pc = "written"]
  <2>1. req'[r].pc = "written" /\ req'[r].change = rq[r].change /\ req'[r].token = rq[r].token
    BY <1>1 DEF Entries
  <2>2. rq[r].change \in Changes
    BY DEF Entries
  <2>3. QED
    BY <1>1, <2>1, <2>2 DEF Commits
<1>2. CASE file' = file
  BY <1>2
<1>3. QED
  BY <1>1, <1>2 DEF ExecuteMutation

\* A request joins the queue, or runs because the queue is empty.
LEMMA MutateEffect ==
  ASSUME BaseInv, NEW r \in Requests, NEW change \in Changes,
         NEW token \in Tokens \cup {NoToken},
         req[r].pc \in {"idle", "gate"}, Mutate(r, change, token)
  PROVE  /\ req'[r].change = change /\ req'[r].token = token
         /\ \A s \in Requests \ {r} : req'[s] = req[s]
         /\ file' = file \/ Commits(r)
         /\ \/ queue' = Append(queue, r) /\ req'[r].pc = "pending"
            \/ queue = <<>> /\ queue' = <<>> /\ Busy(req'[r].pc)
<1>. DEFINE entry == [pc |-> "pending", change |-> change, token |-> token]
            rq == [req EXCEPT ![r] = entry]
<1>1. entry \in Entries /\ rq \in [Requests -> RequestStates] /\ rq[r] = entry
  BY DEF Entries, Phases, BaseInv, PolicyTypeOK, RequestStates
<1>2. \A s \in Requests \ {r} : rq[s] = req[s]
  BY DEF BaseInv, PolicyTypeOK
<1>3. CASE Flushing
  BY <1>1, <1>2, <1>3 DEF Mutate
<1>4. CASE ~Flushing
  <2>1. ExecuteMutation(r, rq) /\ queue' = queue /\ queue = <<>>
    BY <1>4 DEF Mutate, BaseInv, OneMutationAtATime
  <2>2. file.policy = policy
    BY <1>4 DEF Flushing, BaseInv, FileLeadsByOneCommit
  <2>3. ~Busy(req[r].pc)
    BY DEF Busy
  <2>4. QED
    BY <1>1, <1>2, <2>1, <2>2, <2>3, ExecutionEffect, ExecutionPhases
<1>5. QED
  BY <1>3, <1>4

\* A request is answered; the one at the head of the queue runs.
LEMMA SettleEffect ==
  ASSUME BaseInv, NEW r \in Requests, Settle(r)
  PROVE  /\ req'[r] = Idle
         /\ \/ /\ queue = <<>> /\ queue' = <<>> /\ file' = file
               /\ \A s \in Requests \ {r} : req'[s] = req[s]
            \/ \E h \in Requests :
                 /\ queue # <<>> /\ h = Head(queue) /\ h # r /\ queue' = Tail(queue)
                 /\ req[h].pc = "pending" /\ Busy(req'[h].pc)
                 /\ req'[h].change = req[h].change /\ req'[h].token = req[h].token
                 /\ \A s \in Requests \ {r, h} : req'[s] = req[s]
                 /\ file' = file \/ Commits(h)
<1>. DEFINE rq == [req EXCEPT ![r] = Idle]
            h == Head(queue)
<1>1. rq \in [Requests -> RequestStates] /\ rq[r] = Idle
  BY DEF BaseInv, PolicyTypeOK, RequestStates
<1>2. \A s \in Requests \ {r} : rq[s] = req[s]
  BY DEF BaseInv, PolicyTypeOK
<1>3. file.policy = policy
  BY DEF Settle, BaseInv, OneMutationAtATime, FileLeadsByOneCommit
<1>4. CASE queue = <<>>
  BY <1>1, <1>2, <1>4 DEF Settle
<1>5. CASE queue # <<>>
  <2>1. h \in Requests /\ req[h].pc = "pending" /\ req[h] \in Entries
    BY <1>5, HeadIsPending DEF BaseInv
  <2>2. h # r /\ rq[h] = req[h]
    BY <1>2, <2>1 DEF Settle
  <2>3. ExecuteMutation(h, rq) /\ queue' = Tail(queue)
    BY <1>5 DEF Settle
  <2>4. /\ Busy(req'[h].pc)
        /\ req'[h].change = req[h].change /\ req'[h].token = req[h].token
        /\ \A s \in Requests \ {h} : req'[s] = rq[s]
    BY <1>1, <2>1, <2>2, <2>3, ExecutionPhases
  <2>5. file' = file \/ Commits(h)
    <3>1. ~Busy(req[h].pc)
      BY <2>1 DEF Busy
    <3>2. QED
      BY <1>1, <1>3, <2>1, <2>2, <2>3, <3>1, ExecutionEffect
  <2>6. QED
    BY <1>1, <1>2, <1>5, <2>1, <2>2, <2>3, <2>4, <2>5
<1>6. QED
  BY <1>4, <1>5

\* The policy and the file after a step.
LEMMA StepEffect ==
  ASSUME BaseInv, Next
  PROVE  \/ Restart
         \/ /\ file' = file /\ locked' = locked
            /\ \/ policy' = policy
               \/ policy' = file.policy /\ \E r \in Requests : Publish(r)
         \/ /\ UNCHANGED <<policy, locked, registry>>
            /\ \E r \in Requests : Commits(r)
<1>1. ASSUME NEW r \in Requests, Request(r)
      PROVE  UNCHANGED <<policy, locked, registry>> /\ (file' = file \/ Commits(r))
  BY <1>1, MutateEffect DEF Request
<1>2. ASSUME NEW r \in Requests, GatePasses(r)
      PROVE  UNCHANGED <<policy, locked, registry>> /\ (file' = file \/ Commits(r))
  <2>1. req[r] \in Entries
    BY <1>2, ActiveHasEntry DEF GatePasses, BaseInv
  <2>2. QED
    BY <1>2, <2>1, MutateEffect DEF GatePasses, Entries
<1>3. ASSUME NEW r \in Requests, Settle(r)
      PROVE  UNCHANGED <<policy, locked, registry>> /\ (file' = file \/ \E h \in Requests : Commits(h))
  BY <1>3, SettleEffect DEF Settle
<1>4. ASSUME NEW r \in Requests, RequestEnforced(r) \/ GateRefuses(r) \/ Publish(r)
      PROVE  /\ file' = file /\ locked' = locked
             /\ policy' = policy \/ (policy' = file.policy /\ Publish(r))
  BY <1>4 DEF RequestEnforced, GateRefuses, Publish
<1>5. ASSUME RegistryChanges
      PROVE  file' = file /\ locked' = locked /\ policy' = policy
  BY <1>5 DEF RegistryChanges
<1>6. QED
  BY <1>1, <1>2, <1>3, <1>4, <1>5 DEF Next, RequestStep

\* A request passes the checks made on its arrival.
Arrives(r) ==
  /\ req[r].pc = "idle"
  /\ ~Enforces(req'[r].change)
  /\ Allowed(req'[r].change)
  /\ req'[r].pc # "gate"

\* A request for enforced does, and awaits the gate.
ArrivesAtGate(r) ==
  /\ req[r].pc = "idle"
  /\ req'[r].pc = "gate"
  /\ \E t \in Tracks :
       /\ SetAllowed(t, "enforced")
       /\ req'[r].change = [op |-> "set", track |-> t, to |-> "enforced"]
       /\ req'[r].token = [revision |-> policy.revision, model |-> registry[t].cap.model]

\* A request stays in progress, with the same change and token.
Remains(r) ==
  /\ InProgress(r)
  /\ req'[r].change = req[r].change
  /\ req'[r].token = req[r].token
  /\ req'[r].pc = "gate" => req[r].pc = "gate"
  /\ req'[r].pc = "pending" => req[r].pc \in {"gate", "pending"}

\* A request in progress after a step was so before, or has just arrived.
LEMMA EntriesPersist ==
  ASSUME BaseInv, Next, ~Restart, NEW s \in Requests, req'[s].pc # "idle"
  PROVE  Remains(s) \/ Arrives(s) \/ ArrivesAtGate(s)
<1>1. ASSUME req'[s] = req[s]
      PROVE  Remains(s)
  BY <1>1 DEF Remains, InProgress
<1>2. ASSUME NEW r \in Requests, Request(r)
      PROVE  Remains(s) \/ Arrives(s)
  <2>1. PICK change \in Changes : ~Enforces(change) /\ Allowed(change) /\ Mutate(r, change, NoToken)
    BY <1>2 DEF Request
  <2>2. CASE s = r
    <3>1. req[s].pc = "idle" /\ req'[s].change = change /\ req'[s].pc # "gate"
      BY <1>2, <2>1, <2>2, MutateEffect DEF Request, Busy
    <3>2. QED
      BY <2>1, <3>1 DEF Arrives
  <2>3. CASE s # r
    BY <1>1, <1>2, <2>1, <2>3, MutateEffect DEF Request
  <2>4. QED
    BY <2>2, <2>3
<1>3. ASSUME NEW r \in Requests, RequestEnforced(r)
      PROVE  Remains(s) \/ ArrivesAtGate(s)
  <2>1. CASE s = r
    BY <1>3, <2>1 DEF RequestEnforced, ArrivesAtGate, BaseInv, PolicyTypeOK
  <2>2. CASE s # r
    BY <1>1, <1>3, <2>2 DEF RequestEnforced, BaseInv, PolicyTypeOK
  <2>3. QED
    BY <2>1, <2>2
<1>4. ASSUME NEW r \in Requests, GatePasses(r)
      PROVE  Remains(s)
  <2>1. req[r] \in Entries
    BY <1>4, ActiveHasEntry DEF GatePasses, BaseInv
  <2>2. req[r].pc = "gate" /\ req'[r].change = req[r].change /\ req'[r].token = req[r].token
    BY <1>4, <2>1, MutateEffect DEF GatePasses, Entries
  <2>3. s # r => req'[s] = req[s]
    BY <1>4, <2>1, MutateEffect DEF GatePasses, Entries
  <2>4. QED
    BY <1>1, <2>2, <2>3 DEF Remains, InProgress
<1>5. ASSUME NEW r \in Requests, GateRefuses(r)
      PROVE  Remains(s)
  <2>1. s # r
    BY <1>5 DEF GateRefuses, BaseInv, PolicyTypeOK, Idle
  <2>2. QED
    BY <1>1, <1>5, <2>1 DEF GateRefuses, BaseInv, PolicyTypeOK
<1>6. ASSUME NEW r \in Requests, Publish(r)
      PROVE  Remains(s)
  <2>1. req[r] \in Entries
    BY <1>6, ActiveHasEntry DEF Publish, BaseInv
  <2>2. s # r => req'[s] = req[s]
    BY <1>6 DEF Publish, BaseInv, PolicyTypeOK
  <2>3. /\ req'[r].pc = "settling" /\ req[r].pc = "written"
        /\ req'[r].change = req[r].change /\ req'[r].token = req[r].token
    BY <1>6, <2>1 DEF Publish, BaseInv, PolicyTypeOK, Entries
  <2>4. QED
    BY <1>1, <2>2, <2>3 DEF Remains, InProgress
<1>7. ASSUME NEW r \in Requests, Settle(r)
      PROVE  Remains(s)
  <2>1. s # r
    BY <1>7, SettleEffect DEF Idle
  <2>2. CASE req'[s] = req[s]
    BY <1>1, <2>2
  <2>3. CASE /\ req[s].pc = "pending" /\ Busy(req'[s].pc)
             /\ req'[s].change = req[s].change /\ req'[s].token = req[s].token
    BY <2>3 DEF Remains, InProgress, Busy
  <2>4. QED
    BY <1>7, <2>1, <2>2, <2>3, SettleEffect
<1>8. ASSUME RegistryChanges
      PROVE  Remains(s)
  BY <1>1, <1>8 DEF RegistryChanges
<1>9. QED
  BY <1>2, <1>3, <1>4, <1>5, <1>6, <1>7, <1>8 DEF Next, RequestStep

---------------------------------------------------------------------------
(* What a written change does to a track.                                  *)

\* The record of a track in a candidate.
LEMMA CandidateRecord ==
  ASSUME policy \in Policies, NEW change \in Changes, NEW t \in Tracks
  PROVE  Candidate(change).tracks[t] =
           IF t = change.track THEN ChangedRecord(policy.tracks[t], change) ELSE policy.tracks[t]
BY DEF Candidate, Policies

\* The state a candidate gives to a track.
LEMMA CandidateState ==
  ASSUME policy \in Policies, NEW change \in Changes, NEW t \in Tracks
  PROVE  LET new == Candidate(change).tracks[t]
             old == policy.tracks[t]
         IN  \/ new.state = old.state /\ (old.approved => new.approved)
             \/ change.op = "set" /\ change.track = t /\ new.state = change.to
                /\ new.approved = old.approved
             \/ new.state = Demoted(old.state) /\ new.state # "enforced" /\ new.state # "eligible"
<1>1. policy.tracks[t] \in TrackRecords
  BY DEF Policies
<1>2. CASE t # change.track
  BY <1>2, CandidateRecord
<1>3. CASE t = change.track
  <2>1. Candidate(change).tracks[t] = ChangedRecord(policy.tracks[t], change)
    BY <1>3, CandidateRecord
  <2>2. CASE change.op = "set"
    BY <1>1, <1>3, <2>1, <2>2 DEF ChangedRecord, TrackRecords
  <2>3. CASE change.op = "approve"
    BY <1>1, <2>1, <2>3 DEF ChangedRecord, TrackRecords
  <2>4. CASE change.op = "revoke"
    <3>1. \A x \in TrackStates : Demoted(x) \notin {"enforced", "eligible"}
      BY DEF Demoted, TrackStates
    <3>2. QED
      BY <1>1, <2>1, <2>4, <3>1 DEF ChangedRecord, TrackRecords
  <2>5. CASE change.op \notin {"set", "approve", "revoke"}
    BY <2>1, <2>5 DEF ChangedRecord
  <2>6. QED
    BY <2>2, <2>3, <2>4, <2>5
<1>4. QED
  BY <1>2, <1>3

\* A track that is enforced in a candidate was enforced, or passes the checks.
LEMMA CandidateEnforced ==
  ASSUME policy \in Policies, NEW change \in Changes, NEW token, Admits(change, token),
         NEW t \in Tracks, Candidate(change).tracks[t].state = "enforced"
  PROVE  /\ policy.tracks[t].approved => Candidate(change).tracks[t].approved
         /\ \/ policy.tracks[t].state = "enforced"
            \/ Enforces(change) /\ change.track = t /\ StillGated(t, token)
<1>1. CASE /\ Candidate(change).tracks[t].state = policy.tracks[t].state
           /\ policy.tracks[t].approved => Candidate(change).tracks[t].approved
  BY <1>1
<1>2. CASE /\ change.op = "set" /\ change.track = t
           /\ Candidate(change).tracks[t].state = change.to
           /\ Candidate(change).tracks[t].approved = policy.tracks[t].approved
  BY <1>2 DEF Admits, Enforces
<1>3. QED
  BY <1>1, <1>2, CandidateState

---------------------------------------------------------------------------
(* The parts of the invariant.                                             *)

\* Every step keeps enforced tracks approved.
LEMMA ApprovedKept == BaseInv /\ EnforcedIsApproved /\ [Next]_vars => EnforcedIsApproved'
<1>. SUFFICES ASSUME BaseInv, EnforcedIsApproved, [Next]_vars
              PROVE  EnforcedIsApproved'
  OBVIOUS
<1>1. CASE Restart
  <2>1. file'.policy \in {file.policy, DefaultPolicy} /\ policy' = file'.policy
    BY <1>1 DEF Restart, Load, Damaged
  <2>2. \A t \in Tracks : DefaultPolicy.tracks[t].state # "enforced"
    BY DEF DefaultPolicy, NoRecord
  <2>3. QED
    BY <2>1, <2>2 DEF EnforcedIsApproved
<1>2. ASSUME NEW r \in Requests, Commits(r), policy' = policy
      PROVE  EnforcedIsApproved'
  <2>1. file'.policy = Candidate(req'[r].change) /\ req'[r].change \in Changes
    BY <1>2 DEF Commits, Written
  <2>2. ASSUME NEW t \in Tracks, Candidate(req'[r].change).tracks[t].state = "enforced"
        PROVE  Candidate(req'[r].change).tracks[t].approved
    <3>1. policy.tracks[t].approved
      BY <1>2, <2>1, <2>2, CandidateEnforced
         DEF Commits, BaseInv, PolicyTypeOK, EnforcedIsApproved, StillGated
    <3>2. QED
      BY <1>2, <2>1, <2>2, <3>1, CandidateEnforced DEF Commits, BaseInv, PolicyTypeOK
  <2>3. QED
    BY <1>2, <2>1, <2>2 DEF EnforcedIsApproved
<1>3. CASE file' = file /\ policy' \in {policy, file.policy}
  BY <1>3 DEF EnforcedIsApproved
<1>4. CASE UNCHANGED vars
  BY <1>3, <1>4 DEF vars
<1>5. QED
  BY <1>1, <1>2, <1>3, <1>4, StepEffect

\* Every step keeps the tokens sound: publishing a revision makes them stale.
LEMMA TokensKept == BaseInv /\ TokensSound /\ [Next]_vars => TokensSound'
<1>. SUFFICES ASSUME BaseInv, TokensSound, [Next]_vars
              PROVE  TokensSound'
  OBVIOUS
<1>1. CASE Restart
  <2>1. \A s \in Requests : req'[s].pc = "idle"
    BY <1>1 DEF Restart, Load, Idle
  <2>2. QED
    BY <2>1 DEF TokensSound, InProgress
<1>2. CASE UNCHANGED vars
  BY <1>2 DEF vars, TokensSound, InProgress, Enforces, Blocked
<1>3. CASE Next /\ ~Restart
  <2>1. policy.revision \in Nat
    BY DEF BaseInv, PolicyTypeOK, Policies
  <2>2. policy' = policy \/ policy'.revision = policy.revision + 1
    <3>1. ASSUME NEW r \in Requests, Publish(r)
          PROVE  policy'.revision = policy.revision + 1
      BY <3>1 DEF Publish, BaseInv, FileLeadsByOneCommit
    <3>2. QED
      BY <1>3, <3>1, StepEffect
  <2>3. ASSUME NEW s \in Requests, req'[s].pc # "idle"
        PROVE  /\ req'[s].pc = "gate" => Enforces(req'[s].change)
               /\ Enforces(req'[s].change) =>
                    /\ req'[s].token \in Tokens
                    /\ req'[s].token.revision <= policy.revision
                    /\ req'[s].token.revision = policy.revision =>
                         /\ policy.tracks[req'[s].change.track].state = "eligible"
                         /\ \E cap \in Capabilities :
                              /\ cap.model = req'[s].token.model
                              /\ ~Blocked(req'[s].change.track, cap)
    <3>1. CASE Remains(s)
      BY <3>1 DEF Remains, TokensSound
    <3>2. CASE Arrives(s)
      BY <3>2 DEF Arrives
    <3>3. CASE ArrivesAtGate(s)
      <4>1. PICK t \in Tracks :
              /\ SetAllowed(t, "enforced")
              /\ req'[s].change = [op |-> "set", track |-> t, to |-> "enforced"]
              /\ req'[s].token = [revision |-> policy.revision, model |-> registry[t].cap.model]
        BY <3>3 DEF ArrivesAtGate
      <4>2. registry[t].cap \in Capabilities
        BY <4>1 DEF SetAllowed, EnforcementGate, EligibilityGate,
                    BaseInv, PolicyTypeOK, Qualifications, Unqualified
      <4>3. policy.tracks[t].state = "eligible" /\ ~Blocked(t, registry[t].cap)
        BY <4>1 DEF SetAllowed, EnforcementGate
      <4>4. req'[s].token \in Tokens
        BY <2>1, <4>1, <4>2 DEF Capabilities, Tokens
      <4>5. QED
        BY <2>1, <4>1, <4>2, <4>3, <4>4 DEF Enforces
    <3>4. QED
      BY <1>3, <2>3, <3>1, <3>2, <3>3, EntriesPersist
  <2>4. CASE policy' = policy
    BY <2>3, <2>4 DEF TokensSound, InProgress, Enforces, Blocked
  <2>5. CASE policy'.revision = policy.revision + 1
    <3>1. ASSUME NEW s \in Requests, req'[s].pc # "idle", Enforces(req'[s].change)
          PROVE  /\ req'[s].token.revision <= policy'.revision
                 /\ req'[s].token.revision # policy'.revision
      <4>1. req'[s].token.revision \in Nat /\ req'[s].token.revision <= policy.revision
        BY <2>3, <3>1 DEF Tokens
      <4>2. QED
        BY <2>1, <2>5, <4>1
    <3>2. QED
      BY <2>3, <3>1 DEF TokensSound, InProgress, Enforces
  <2>6. QED
    BY <2>2, <2>4, <2>5
<1>4. QED
  BY <1>1, <1>2, <1>3

\* Every step of a locked store leaves it without an escalated track.
LEMMA LockKept ==
  BaseInv /\ LockedRequests /\ LockedNeverEscalates /\ [Next]_vars
    => LockedRequests' /\ LockedNeverEscalates'
<1>. SUFFICES ASSUME BaseInv, LockedRequests, LockedNeverEscalates, [Next]_vars
              PROVE  LockedRequests' /\ LockedNeverEscalates'
  OBVIOUS
<1>1. CASE Restart
  <2>1. \A s \in Requests : req'[s].pc = "idle"
    BY <1>1 DEF Restart, Load, Idle
  <2>2. ASSUME locked'
        PROVE  policy' = DefaultPolicy /\ file'.policy = DefaultPolicy
    <3>1. file' \in Files
      BY <1>1 DEF Restart, BaseInv, PolicyTypeOK, Files
    <3>2. file'.kind = "damaged" /\ policy' = file'.policy
      BY <1>1, <2>2 DEF Restart, Load
    <3>3. QED
      BY <3>1, <3>2 DEF Files, Missing, Damaged
  <2>3. \A t \in Tracks : DefaultPolicy.tracks[t].state \notin EscalatedStates
    BY DEF DefaultPolicy, NoRecord, EscalatedStates
  <2>4. QED
    BY <2>1, <2>2, <2>3 DEF LockedRequests, LockedNeverEscalates, InProgress
<1>2. CASE UNCHANGED vars
  BY <1>2 DEF vars, LockedRequests, LockedNeverEscalates, InProgress
<1>3. CASE Next /\ ~Restart
  <2>1. locked' = locked
    BY <1>3, StepEffect
  <2>2. ASSUME locked, NEW s \in Requests, req'[s].pc # "idle", req'[s].change.op = "set"
        PROVE  req'[s].change.to \notin EscalatedStates
    <3>1. CASE Remains(s)
      BY <2>2, <3>1 DEF Remains, LockedRequests
    <3>2. CASE Arrives(s)
      BY <2>2, <3>2 DEF Arrives, Allowed, SetAllowed
    <3>3. CASE ArrivesAtGate(s)
      BY <2>2, <3>3 DEF ArrivesAtGate, SetAllowed, EscalatedStates
    <3>4. QED
      BY <1>3, <2>2, <3>1, <3>2, <3>3, EntriesPersist
  <2>3. LockedRequests'
    BY <2>1, <2>2 DEF LockedRequests, InProgress
  <2>4. ASSUME locked, NEW r \in Requests, Commits(r), policy' = policy
        PROVE  LockedRequests' /\ LockedNeverEscalates'
    <3>1. file'.policy = Candidate(req'[r].change) /\ req'[r].change \in Changes
      BY <2>4 DEF Commits, Written
    <3>2. req'[r].change.op = "set" => req'[r].change.to \notin EscalatedStates
      BY <2>2, <2>4 DEF Commits
    <3>3. \A t \in Tracks : Candidate(req'[r].change).tracks[t].state \notin EscalatedStates
      BY <2>4, <3>1, <3>2, CandidateState DEF EscalatedStates, LockedNeverEscalates, BaseInv, PolicyTypeOK
    <3>4. QED
      BY <2>3, <2>4, <3>1, <3>3 DEF LockedNeverEscalates
  <2>5. CASE file' = file /\ policy' \in {policy, file.policy}
    BY <2>1, <2>3, <2>5 DEF LockedNeverEscalates
  <2>6. CASE ~locked
    BY <2>1, <2>3, <2>6 DEF LockedNeverEscalates
  <2>7. QED
    BY <1>3, <2>3, <2>4, <2>5, <2>6, StepEffect
<1>4. QED
  BY <1>1, <1>2, <1>3

\* A request to disable an enforced or eligible track is refused on arrival.
LEMMA DisableRefused ==
  ASSUME NEW t \in Tracks, policy.tracks[t].state \in EscalatedStates,
         NEW change \in Changes, Disables(change, t)
  PROVE  ~Allowed(change)
BY DEF Disables, Allowed, SetAllowed, ValidTransition, AllowedTransitions, EscalatedStates

\* A waiting request to disable an escalated track was waiting before the step.
LEMMA DisableWaited ==
  ASSUME BaseInv, TokensSound, PolicyTypeOK', OneMutationAtATime', Next, ~Restart,
         NEW t \in Tracks, policy.tracks[t].state \in EscalatedStates,
         NEW i \in 1..Len(queue'), Disables(req'[queue'[i]].change, t)
  PROVE  /\ queue'[i] \in Requests
         /\ req[queue'[i]].pc = "pending"
         /\ req[queue'[i]].change = req'[queue'[i]].change
<1>. DEFINE d == queue'[i]
<1>1. d \in Requests
  BY DEF PolicyTypeOK
<1>2. req'[d].pc = "pending"
  BY <1>1 DEF OneMutationAtATime
<1>3. req'[d].change \in Changes
  BY <1>1, <1>2 DEF PolicyTypeOK, RequestStates, Entries, Idle
<1>4. ~Arrives(d)
  BY <1>3, DisableRefused DEF Arrives
<1>5. ~ArrivesAtGate(d)
  BY <1>2 DEF ArrivesAtGate
<1>6. Remains(d)
  BY <1>1, <1>2, <1>4, <1>5, EntriesPersist
<1>7. req[d].pc # "gate"
  BY <1>1, <1>6 DEF Remains, TokensSound, Enforces, Disables
<1>8. QED
  BY <1>1, <1>2, <1>6, <1>7 DEF Remains

\* Every step keeps waiting requests to disable ahead of current tokens.
LEMMA DisableFirstKept ==
  ASSUME BaseInv, TokensSound, DisableGoesFirst, PolicyTypeOK', OneMutationAtATime', Next, ~Restart
  PROVE  DisableGoesFirst'
<1>. SUFFICES ASSUME NEW r \in Requests, NEW i \in 1..Len(queue'),
                     req'[r].pc # "idle", Enforces(req'[r].change),
                     req'[r].token.revision = policy'.revision,
                     Disables(req'[queue'[i]].change, req'[r].change.track)
              PROVE  req'[r].pc = "gate" \/ \E j \in 1..Len(queue') : i < j /\ queue'[j] = r
  BY DEF DisableGoesFirst, InProgress, Enforces, Disables
<1>. DEFINE d == queue'[i]
            t == req'[r].change.track
<1>1. policy.revision \in Nat
  BY DEF BaseInv, PolicyTypeOK, Policies
<1>2. CASE ArrivesAtGate(r)
  BY <1>2 DEF ArrivesAtGate
<1>3. CASE Remains(r)
  <2>1. /\ InProgress(r) /\ req[r].change = req'[r].change /\ req[r].token = req'[r].token
        /\ req[r].token \in Tokens /\ req[r].token.revision <= policy.revision
    BY <1>3 DEF Remains, TokensSound
  <2>2. ASSUME NEW p \in Requests
        PROVE  ~Publish(p)
    <3>1. SUFFICES ASSUME Publish(p)
                   PROVE  FALSE
      OBVIOUS
    <3>2. policy'.revision = policy.revision + 1
      BY <3>1 DEF Publish, BaseInv, FileLeadsByOneCommit
    <3>3. QED
      BY <1>1, <2>1, <3>2
  <2>3. policy' = policy
    BY <2>2, StepEffect
  <2>4. policy.tracks[t].state = "eligible" /\ t \in Tracks
    <3>1. req[r].change \in Changes
      BY <2>1, ActiveHasEntry DEF InProgress, BaseInv, Entries
    <3>2. QED
      BY <2>1, <2>3, <3>1 DEF TokensSound, Changes, SetChanges, ApprovalChanges, OverrideChanges
  <2>5. d \in Requests /\ req[d].pc = "pending" /\ req[d].change = req'[d].change
    BY <2>4, DisableWaited DEF EscalatedStates
  <2>6. ASSUME NEW k \in 1..Len(queue), queue[k] = d
        PROVE  req[r].pc = "gate" \/ \E j \in 1..Len(queue) : k < j /\ queue[j] = r
    BY <2>1, <2>3, <2>5, <2>6 DEF DisableGoesFirst
  <2>7. queue # <<>> /\ queue \in Seq(Requests)
    BY <2>5 DEF BaseInv, OneMutationAtATime, PolicyTypeOK
  <2>8. ASSUME queue' = queue, req'[r] = req[r]
        PROVE  req'[r].pc = "gate" \/ \E j \in 1..Len(queue') : i < j /\ queue'[j] = r
    BY <2>6, <2>8
  <2>9. ASSUME NEW x \in Requests, req[x].pc \in {"idle", "gate"},
               queue' = Append(queue, x), req'[x].pc = "pending",
               \A s \in Requests \ {x} : req'[s] = req[s]
        PROVE  req'[r].pc = "gate" \/ \E j \in 1..Len(queue') : i < j /\ queue'[j] = r
    <3>1. /\ Len(queue') = Len(queue) + 1 /\ Len(queue) \in Nat
          /\ \A k \in 1..Len(queue) : queue'[k] = queue[k] /\ k \in 1..Len(queue')
          /\ queue'[Len(queue) + 1] = x /\ Len(queue) + 1 \in 1..Len(queue')
      BY <2>7, <2>9
    <3>2. i # Len(queue) + 1
      BY <2>5, <2>9, <3>1
    <3>3. i \in 1..Len(queue) /\ queue[i] = d
      BY <3>1, <3>2
    <3>4. CASE x = r
      BY <3>1, <3>3, <3>4
    <3>5. CASE x # r
      <4>1. req'[r] = req[r]
        BY <2>9, <3>5
      <4>2. CASE req[r].pc = "gate"
        BY <4>1, <4>2
      <4>3. ASSUME NEW j \in 1..Len(queue), i < j, queue[j] = r
            PROVE  j \in 1..Len(queue') /\ i < j /\ queue'[j] = r
        BY <3>1, <4>3
      <4>4. QED
        BY <2>6, <3>3, <4>2, <4>3
    <3>6. QED
      BY <3>4, <3>5
  <2>10. ASSUME NEW x \in Requests, Request(x)
         PROVE  req'[r].pc = "gate" \/ \E j \in 1..Len(queue') : i < j /\ queue'[j] = r
    <3>1. PICK change \in Changes : Mutate(x, change, NoToken)
      BY <2>10 DEF Request
    <3>2. req[x].pc = "idle"
      BY <2>10 DEF Request
    <3>3. QED
      BY <2>7, <2>9, <3>1, <3>2, MutateEffect
  <2>11. ASSUME NEW x \in Requests, GatePasses(x)
         PROVE  req'[r].pc = "gate" \/ \E j \in 1..Len(queue') : i < j /\ queue'[j] = r
    <3>1. req[x] \in Entries
      BY <2>11, ActiveHasEntry DEF GatePasses, BaseInv
    <3>2. req[x].change \in Changes /\ req[x].token \in Tokens \cup {NoToken}
      BY <3>1 DEF Entries
    <3>3. req[x].pc = "gate" /\ Mutate(x, req[x].change, req[x].token)
      BY <2>11 DEF GatePasses
    <3>4. QED
      BY <2>7, <2>9, <3>2, <3>3, MutateEffect
  <2>12. ASSUME NEW x \in Requests, RequestEnforced(x) \/ GateRefuses(x)
         PROVE  req'[r].pc = "gate" \/ \E j \in 1..Len(queue') : i < j /\ queue'[j] = r
    <3>1. queue' = queue
      BY <2>12 DEF RequestEnforced, GateRefuses
    <3>2. CASE x = r
      BY <2>1, <2>12, <3>2 DEF RequestEnforced, GateRefuses, InProgress, Idle, BaseInv, PolicyTypeOK
    <3>3. CASE x # r
      BY <2>8, <2>12, <3>1, <3>3 DEF RequestEnforced, GateRefuses, BaseInv, PolicyTypeOK
    <3>4. QED
      BY <3>2, <3>3
  <2>13. ASSUME NEW x \in Requests, Settle(x)
         PROVE  req'[r].pc = "gate" \/ \E j \in 1..Len(queue') : i < j /\ queue'[j] = r
    <3>1. PICK h \in Requests :
            /\ h = Head(queue) /\ queue' = Tail(queue)
            /\ req[h].pc = "pending"
            /\ \A s \in Requests \ {x, h} : req'[s] = req[s]
      BY <2>7, <2>13, SettleEffect
    <3>2. r # x
      BY <2>13, SettleEffect DEF Idle
    <3>3. /\ Len(queue') = Len(queue) - 1 /\ Len(queue) \in Nat
          /\ \A k \in 1..Len(queue') : queue'[k] = queue[k + 1] /\ k + 1 \in 1..Len(queue)
      BY <2>7, <3>1
    <3>4. i + 1 \in 1..Len(queue) /\ queue[i + 1] = d
      BY <3>3
    <3>5. CASE req[r].pc = "gate"
      BY <3>1, <3>2, <3>5
    <3>6. ASSUME NEW j \in 1..Len(queue), i + 1 < j, queue[j] = r
          PROVE  j - 1 \in 1..Len(queue') /\ i < j - 1 /\ queue'[j - 1] = r
      <4>1. j - 1 \in 1..Len(queue') /\ i < j - 1
        BY <3>3, <3>6
      <4>2. queue'[j - 1] = queue[(j - 1) + 1] /\ (j - 1) + 1 = j
        BY <3>3, <4>1
      <4>3. QED
        BY <3>6, <4>1, <4>2
    <3>7. QED
      BY <2>6, <3>4, <3>5, <3>6
  <2>14. CASE RegistryChanges
    BY <2>8, <2>14 DEF RegistryChanges
  <2>15. QED
    BY <2>2, <2>10, <2>11, <2>12, <2>13, <2>14 DEF Next, RequestStep
<1>4. ~Arrives(r)
  BY DEF Arrives
<1>5. QED
  BY <1>2, <1>3, <1>4, EntriesPersist

\* Every step keeps requests to disable away from enforced tracks.
LEMMA UndisturbedKept ==
  ASSUME BaseInv, TokensSound, EnforcedUndisturbed,
         PolicyTypeOK', OneMutationAtATime', DisableGoesFirst', Next, ~Restart
  PROVE  EnforcedUndisturbed'
<1>. SUFFICES ASSUME NEW t \in Tracks, file'.policy.tracks[t].state = "enforced"
              PROVE  /\ policy'.tracks[t].state \in EscalatedStates
                     /\ \A i \in 1..Len(queue') : ~Disables(req'[queue'[i]].change, t)
  BY DEF EnforcedUndisturbed, CommittedState, Disables
<1>1. CASE file.policy.tracks[t].state = "enforced"
  <2>1. policy.tracks[t].state \in EscalatedStates
    BY <1>1 DEF EnforcedUndisturbed, CommittedState
  <2>2. policy'.tracks[t].state \in EscalatedStates
    <3>1. policy' \in {policy, file.policy}
      BY StepEffect
    <3>2. QED
      BY <1>1, <2>1, <3>1 DEF EscalatedStates
  <2>3. ASSUME NEW i \in 1..Len(queue'), Disables(req'[queue'[i]].change, t)
        PROVE  FALSE
    <3>1. /\ queue'[i] \in Requests /\ req[queue'[i]].pc = "pending"
          /\ req[queue'[i]].change = req'[queue'[i]].change
      BY <2>1, <2>3, DisableWaited
    <3>2. PICK k \in 1..Len(queue) : queue[k] = queue'[i]
      BY <3>1 DEF BaseInv, OneMutationAtATime
    <3>3. Disables(req[queue[k]].change, t)
      BY <2>3, <3>1, <3>2
    <3>4. QED
      BY <1>1, <3>3 DEF EnforcedUndisturbed, CommittedState
  <2>4. QED
    BY <2>2, <2>3
<1>2. CASE file.policy.tracks[t].state # "enforced"
  <2>1. PICK r \in Requests : policy' = policy /\ Commits(r)
    BY <1>2, StepEffect
  <2>2. policy.tracks[t].state # "enforced"
    BY <1>2, <2>1 DEF Commits
  <2>3. /\ Enforces(req'[r].change) /\ req'[r].change.track = t
        /\ StillGated(t, req'[r].token)
    BY <2>1, <2>2, CandidateEnforced DEF Commits, Written, BaseInv, PolicyTypeOK
  <2>4. policy'.tracks[t].state \in EscalatedStates
    BY <2>1, <2>3 DEF StillGated, EscalatedStates
  <2>5. ASSUME NEW i \in 1..Len(queue'), Disables(req'[queue'[i]].change, t)
        PROVE  FALSE
    <3>1. req'[r].pc = "written" /\ req'[r].token.revision = policy'.revision
      BY <2>1, <2>3 DEF Commits, StillGated
    <3>2. PICK j \in 1..Len(queue') : queue'[j] = r
      BY <2>3, <2>5, <3>1 DEF DisableGoesFirst, InProgress, Enforces, Disables
    <3>3. QED
      BY <3>1, <3>2 DEF OneMutationAtATime
  <2>6. QED
    BY <2>4, <2>5
<1>3. QED
  BY <1>1, <1>2

---------------------------------------------------------------------------
(* The invariant, and the theorems.                                        *)

\* It holds of the server as it starts without a file.
LEMMA InvInitially == Init => PolicyInv
<1>. SUFFICES ASSUME Init
              PROVE  PolicyInv
  OBVIOUS
<1>1. Missing \in Files /\ DefaultPolicy \in Policies /\ Missing.policy = DefaultPolicy
  <2>1. Missing \in Files
    BY DEF Files
  <2>2. Missing.policy = DefaultPolicy
    BY DEF Missing
  <2>3. QED
    BY <2>1, <2>2, FilesHoldPolicies
<1>2. Unqualified \in Qualifications /\ Idle \in RequestStates
  BY DEF Qualifications, RequestStates
<1>3. PolicyTypeOK
  <2>1. policy \in Policies /\ file \in Files
    BY <1>1 DEF Init
  <2>2. req \in [Requests -> RequestStates] /\ registry \in [Tracks -> Qualifications]
    BY <1>2 DEF Init
  <2>3. queue = <<>> /\ locked = FALSE /\ restarts = 0
    BY DEF Init
  <2>4. queue \in Seq(Requests)
    BY <2>3
  <2>5. QED
    BY <2>1, <2>2, <2>3, <2>4 DEF PolicyTypeOK
<1>4. queue = <<>> /\ (\A r \in Requests : req[r].pc = "idle") /\ ~locked
  BY DEF Init, Idle
<1>5. OneMutationAtATime
  BY <1>4 DEF OneMutationAtATime
<1>6. FileLeadsByOneCommit
  BY <1>1, <1>4 DEF Init, FileLeadsByOneCommit
<1>7. \A t \in Tracks : DefaultPolicy.tracks[t].state # "enforced"
  BY DEF DefaultPolicy, NoRecord
<1>8. EnforcedIsApproved /\ EnforcedUndisturbed
  BY <1>1, <1>7 DEF Init, EnforcedIsApproved, EnforcedUndisturbed, CommittedState
<1>9. TokensSound /\ LockedRequests /\ LockedNeverEscalates /\ DisableGoesFirst
  BY <1>4 DEF TokensSound, LockedRequests, LockedNeverEscalates, DisableGoesFirst, InProgress
<1>10. QED
  BY <1>3, <1>5, <1>6, <1>8, <1>9 DEF PolicyInv

\* Every step keeps it.
LEMMA InvKept == PolicyInv /\ [Next]_vars => PolicyInv'
<1>. SUFFICES ASSUME PolicyInv, [Next]_vars
              PROVE  PolicyInv'
  OBVIOUS
<1>1. BaseInv
  BY DEF PolicyInv, BaseInv
<1>2. /\ PolicyTypeOK' /\ OneMutationAtATime' /\ FileLeadsByOneCommit'
      /\ EnforcedIsApproved' /\ TokensSound' /\ LockedRequests' /\ LockedNeverEscalates'
  BY <1>1, TypesKept, SerialKept, FileKept, ApprovedKept, TokensKept, LockKept DEF PolicyInv
<1>3. CASE UNCHANGED vars
  <2>1. DisableGoesFirst' /\ EnforcedUndisturbed'
    BY <1>3 DEF vars, PolicyInv, DisableGoesFirst, EnforcedUndisturbed, CommittedState,
                InProgress, Enforces, Disables
  <2>2. QED
    BY <1>2, <2>1 DEF PolicyInv
<1>4. CASE Restart
  <2>1. queue' = <<>> /\ file'.policy = policy'
    BY <1>4 DEF Restart, Load
  <2>2. DisableGoesFirst' /\ EnforcedUndisturbed'
    BY <2>1 DEF DisableGoesFirst, EnforcedUndisturbed, CommittedState, EscalatedStates
  <2>3. QED
    BY <1>2, <2>2 DEF PolicyInv
<1>5. CASE Next /\ ~Restart
  <2>1. DisableGoesFirst'
    BY <1>1, <1>2, <1>5, DisableFirstKept DEF PolicyInv
  <2>2. EnforcedUndisturbed'
    BY <1>1, <1>2, <1>5, <2>1, UndisturbedKept DEF PolicyInv
  <2>3. QED
    BY <1>2, <2>1, <2>2 DEF PolicyInv
<1>6. QED
  BY <1>3, <1>4, <1>5

\* The invariant holds throughout.
LEMMA InvHolds == Spec => []PolicyInv
BY InvInitially, InvKept, PTL DEF Spec

\* The types are correct.
THEOREM PolicyTypeCorrect == Spec => []PolicyTypeOK
BY InvHolds, PTL DEF PolicyInv

\* One mutation runs at a time, and a waiting one is behind one that will go on.
THEOREM MutationsAreSerial == Spec => []OneMutationAtATime
BY InvHolds, PTL DEF PolicyInv

\* The file is the policy in memory, or one commit ahead of it.
THEOREM FileStaysInStep == Spec => []FileLeadsByOneCommit
BY InvHolds, PTL DEF PolicyInv

\* No track is enforced without approval, in memory or on disk.
THEOREM EnforcedStaysApproved == Spec => []EnforcedIsApproved
BY InvHolds, PTL DEF PolicyInv

\* A store that found a damaged file escalates no track.
THEOREM LockHolds == Spec => []LockedNeverEscalates
BY InvHolds, PTL DEF PolicyInv

\* A step that enforces a track is the commit of a request that is still gated.
LEMMA EnforcingStep ==
  ASSUME PolicyInv, [Next]_vars, NEW t \in Tracks,
         CommittedState(t) # "enforced", CommittedState(t)' = "enforced"
  PROVE  /\ file.policy = policy
         /\ \E r \in Requests : /\ Remains(r)
                              /\ Enforces(req[r].change) /\ req[r].change.track = t
                              /\ StillGated(t, req[r].token)
<1>1. BaseInv
  BY DEF PolicyInv, BaseInv
<1>2. ~Restart
  <2>1. DefaultPolicy.tracks[t].state # "enforced"
    BY DEF DefaultPolicy, NoRecord
  <2>2. QED
    BY <2>1 DEF Restart, Damaged, CommittedState
<1>3. file' # file
  BY DEF CommittedState
<1>4. Next
  BY <1>3 DEF vars
<1>5. PICK r \in Requests : Commits(r)
  BY <1>1, <1>2, <1>3, <1>4, StepEffect
<1>6. Enforces(req'[r].change) /\ req'[r].change.track = t /\ StillGated(t, req'[r].token)
  BY <1>5, CandidateEnforced DEF Commits, Written, CommittedState, PolicyInv, PolicyTypeOK
<1>7. Remains(r)
  BY <1>1, <1>2, <1>4, <1>5, <1>6, EntriesPersist DEF Commits, Arrives, ArrivesAtGate
<1>8. QED
  BY <1>5, <1>6, <1>7 DEF Commits, Remains

\* A track is enforced only from eligible, approved and well enough qualified,
\* whatever happened while the request awaited the runtime and the queue.
THEOREM EnforcedThroughGate == Spec => EnforcedOnlyWhenGated
<1>1. PolicyInv /\ [Next]_vars =>
        [ \A t \in Tracks :
            CommittedState(t) # "enforced" /\ CommittedState(t)' = "enforced" =>
              /\ CommittedState(t) = "eligible"
              /\ file.policy.tracks[t].approved
              /\ registry[t].cap # NoCapability
              /\ registry[t].enough ]_vars
  BY EnforcingStep DEF StillGated, CommittedState
<1>2. QED
  BY <1>1, InvHolds, PTL DEF Spec, EnforcedOnlyWhenGated

\* If a model is qualified in one role, no override blocks the capability that
\* is enforced: an override set in the meantime changes the revision.
THEOREM EnforcedWithoutOverride ==
  ASSUME \A a, b \in Roles : a = b
  PROVE  Spec => EnforcedIsUnblocked
<1>1. ASSUME PolicyInv, [Next]_vars, NEW t \in Tracks,
             CommittedState(t) # "enforced", CommittedState(t)' = "enforced"
      PROVE  <<t, registry[t].cap>> \notin file.policy.overrides
  <2>1. file.policy = policy
    BY <1>1, EnforcingStep
  <2>2. PICK r \in Requests : /\ Remains(r)
                              /\ Enforces(req[r].change) /\ req[r].change.track = t
                              /\ StillGated(t, req[r].token)
    BY <1>1, EnforcingStep
  <2>3. PICK cap \in Capabilities : cap.model = req[r].token.model /\ ~Blocked(t, cap)
    BY <1>1, <2>2 DEF PolicyInv, TokensSound, Remains, StillGated
  <2>4. registry[t].cap \in Capabilities /\ registry[t].cap.model = req[r].token.model
    BY <1>1, <2>2 DEF StillGated, PolicyInv, PolicyTypeOK, Qualifications, Unqualified
  <2>5. registry[t].cap = cap
    BY <2>3, <2>4 DEF Capabilities
  <2>6. QED
    BY <2>1, <2>3, <2>5 DEF Blocked
<1>2. PolicyInv /\ [Next]_vars =>
        [ \A t \in Tracks :
            CommittedState(t) # "enforced" /\ CommittedState(t)' = "enforced" =>
              <<t, registry[t].cap>> \notin file.policy.overrides ]_vars
  BY <1>1
<1>3. QED
  BY <1>2, InvHolds, PTL DEF Spec, EnforcedIsUnblocked

\* A track leaves enforced by the transitions of the table only: no request to
\* disable it is in the queue.
LEMMA EnforcedLeaves ==
  ASSUME PolicyInv, [Next]_vars, NEW t \in Tracks, CommittedState(t) = "enforced"
  PROVE  ValidTransition(CommittedState(t), CommittedState(t)')
<1>1. BaseInv
  BY DEF PolicyInv, BaseInv
<1>2. CASE file' = file
  BY <1>2 DEF CommittedState, ValidTransition
<1>3. CASE Restart
  <2>1. DefaultPolicy.tracks[t].state = "shadow"
    BY DEF DefaultPolicy, NoRecord
  <2>2. QED
    BY <1>2, <1>3, <2>1
       DEF Restart, Damaged, CommittedState, ValidTransition, AllowedTransitions
<1>4. ASSUME Next, ~Restart, NEW r \in Requests, Commits(r)
      PROVE  ValidTransition(CommittedState(t), CommittedState(t)')
  <2>1. /\ policy.tracks[t].state = "enforced"
        /\ file'.policy = Candidate(req'[r].change) /\ req'[r].change \in Changes
    BY <1>4 DEF Commits, Written, CommittedState
  <2>2. CommittedState(t)' \in TrackStates
    <3>1. file'.policy \in Policies
      BY <2>1, CandidateIsPolicy DEF PolicyInv, PolicyTypeOK
    <3>2. QED
      BY <3>1 DEF CommittedState, Policies, TrackRecords
  <2>3. CommittedState(t)' # "disabled"
    <3>1. Demoted("enforced") = "suspended"
      BY DEF Demoted
    <3>2. ~Disables(req'[r].change, t)
      <4>1. CASE Remains(r)
        <5>1. CASE req[r].pc = "pending"
          <6>1. PICK i \in 1..Len(queue) : queue[i] = r
            BY <5>1 DEF PolicyInv, OneMutationAtATime
          <6>2. QED
            BY <4>1, <6>1 DEF PolicyInv, EnforcedUndisturbed, Remains
        <5>2. CASE req[r].pc = "gate"
          BY <4>1, <5>2 DEF PolicyInv, TokensSound, Remains, Enforces, Disables
        <5>3. QED
          <6>1. req[r] \in Entries
            BY <4>1, ActiveHasEntry DEF PolicyInv, Remains, InProgress
          <6>2. req[r].pc \in {"gate", "pending"}
            BY <1>4, <6>1 DEF Commits, Busy, Entries, Phases
          <6>3. QED
            BY <5>1, <5>2, <6>2
      <4>2. CASE Arrives(r)
        BY <2>1, <4>2, DisableRefused DEF Arrives, EscalatedStates
      <4>3. CASE ArrivesAtGate(r)
        BY <1>4, <4>3 DEF ArrivesAtGate, Commits
      <4>4. QED
        BY <1>1, <1>4, <4>1, <4>2, <4>3, EntriesPersist DEF Commits
    <3>3. QED
      BY <2>1, <3>1, <3>2, CandidateState
         DEF CommittedState, Disables, PolicyInv, PolicyTypeOK
  <2>4. QED
    BY <2>2, <2>3 DEF ValidTransition, AllowedTransitions, TrackStates
<1>5. QED
  BY <1>1, <1>2, <1>3, <1>4, StepEffect DEF vars

\* A track leaves enforced by the transitions of the table only, although the
\* commit of a change to another state checks nothing.
THEOREM EnforcedLeftByTheTable == Spec => EnforcedIsLeftByTheTable
<1>1. PolicyInv /\ [Next]_vars =>
        [ \A t \in Tracks :
            CommittedState(t) = "enforced" =>
              ValidTransition(CommittedState(t), CommittedState(t)') ]_vars
  BY EnforcedLeaves
<1>2. QED
  BY <1>1, InvHolds, PTL DEF Spec, EnforcedIsLeftByTheTable

---------------------------------------------------------------------------
(* The file implements the ledger.                                         *)

\* A change that keeps the overrides is a new record of its track.
LEMMA CandidateRecords ==
  ASSUME file.policy = policy,
         NEW change \in Changes, change.op \in {"set", "approve", "revoke"},
         NEW state, NEW approved,
         ChangedRecord(policy.tracks[change.track], change)
           = [state |-> state, approved |-> approved, recorded |-> TRUE],
         file' = Written(Candidate(change))
  PROVE  Ledger!Record(change.track, state, approved)
<1>1. ChangedOverrides(change) = policy.overrides
  BY DEF ChangedOverrides
<1>2. QED
  BY <1>1 DEF Candidate, Written, Ledger!Record, Ledger!Version

\* A change of the overrides keeps the records.
LEMMA CandidateOverrides ==
  ASSUME policy \in Policies, file.policy = policy,
         NEW change \in Changes, change.op \in {"override", "clear"},
         file' = Written(Candidate(change))
  PROVE  Ledger!Override(ChangedOverrides(change))
<1>1. policy.tracks \in [Tracks -> TrackRecords]
  BY DEF Policies
<1>2. [policy.tracks EXCEPT ![change.track] = ChangedRecord(@, change)] = policy.tracks
  BY <1>1 DEF ChangedRecord
<1>3. QED
  BY <1>2 DEF Candidate, Written, Ledger!Override, Ledger!Version

\* A commit that enforces a track enforces it in the ledger.
LEMMA CommitEnforces ==
  ASSUME PolicyInv, PolicyInv', Next, ~Restart, NEW r \in Requests, Commits(r),
         UNCHANGED <<policy, locked, registry>>, Enforces(req'[r].change)
  PROVE  Ledger!Enforce(req'[r].change.track)
<1>. DEFINE change == req'[r].change
            t == change.track
            token == req'[r].token
<1>1. /\ file.policy = policy /\ file' = Written(Candidate(change))
      /\ change \in Changes /\ policy \in Policies
  BY DEF Commits, PolicyInv, PolicyTypeOK
<1>2. t \in Tracks /\ change.op = "set" /\ change.to = "enforced"
  BY <1>1 DEF Changes, SetChanges, ApprovalChanges, OverrideChanges, Enforces
<1>3. StillGated(t, token)
  BY <1>2 DEF Commits, Admits
<1>4. policy.tracks[t] \in TrackRecords
  BY <1>1, <1>2 DEF Policies
<1>5. ChangedRecord(policy.tracks[t], change)
        = [state |-> "enforced", approved |-> TRUE, recorded |-> TRUE]
  BY <1>2, <1>3, <1>4 DEF ChangedRecord, StillGated, TrackRecords
<1>6. Ledger!Record(t, "enforced", TRUE)
  BY <1>1, <1>2, <1>5, CandidateRecords
<1>7. ~locked
  <2>1. file'.policy.tracks[t].state = "enforced"
    BY <1>1, <1>2, <1>5, CandidateRecord DEF Written
  <2>2. QED
    BY <1>2, <2>1 DEF PolicyInv, LockedNeverEscalates, EscalatedStates
<1>8. Remains(r)
  BY EntriesPersist DEF Commits, Arrives, ArrivesAtGate, PolicyInv, BaseInv
<1>9. PICK cap \in Capabilities : cap.model = token.model /\ ~Blocked(t, cap)
  BY <1>3, <1>8 DEF PolicyInv, TokensSound, Remains, StillGated
<1>10. cap.role \in Roles /\ cap = [model |-> registry[t].cap.model, role |-> cap.role]
  BY <1>3, <1>9 DEF Capabilities, StillGated
<1>11. QED
  BY <1>1, <1>3, <1>6, <1>7, <1>9, <1>10 DEF Ledger!Enforce, StillGated, Blocked

\* A commit that moves a track elsewhere does so in the ledger.
LEMMA CommitMoves ==
  ASSUME PolicyInv, PolicyInv', Next, NEW r \in Requests, Commits(r),
         UNCHANGED <<policy, locked, registry>>,
         NEW change, req'[r].change = change, change.op = "set", change.to # "enforced"
  PROVE  Ledger!Move(change.track)
<1>. DEFINE t == change.track
<1>1. /\ file.policy = policy /\ file' = Written(Candidate(change))
      /\ change \in Changes /\ policy \in Policies
  BY DEF Commits, PolicyInv, PolicyTypeOK
<1>2. t \in Tracks /\ change.to \in TrackStates
  BY <1>1 DEF Changes, SetChanges, ApprovalChanges, OverrideChanges
<1>3. policy.tracks[t] \in TrackRecords
  BY <1>1, <1>2 DEF Policies
<1>4. ChangedRecord(policy.tracks[t], change)
        = [state |-> change.to, approved |-> policy.tracks[t].approved, recorded |-> TRUE]
  BY <1>3 DEF ChangedRecord, TrackRecords
<1>5. Ledger!Record(t, change.to, file.policy.tracks[t].approved)
  BY <1>1, <1>4, CandidateRecords
<1>6. CommittedState(t)' = change.to
  BY <1>1, <1>2, <1>4, CandidateRecord DEF Written, CommittedState
<1>7. change.to = "eligible" => ~locked
  BY <1>2, <1>6 DEF PolicyInv, LockedNeverEscalates, EscalatedStates, CommittedState
<1>8. file.policy.tracks[t].state = "enforced" => change.to # "disabled"
  <2>1. SUFFICES ASSUME CommittedState(t) = "enforced"
                 PROVE  change.to # "disabled"
    BY DEF CommittedState
  <2>2. ValidTransition("enforced", change.to)
    BY <1>2, <1>6, <2>1, EnforcedLeaves
  <2>3. QED
    BY <2>2 DEF ValidTransition, AllowedTransitions
<1>9. change.to \in Ledger!TrackStates \ {"enforced"}
  BY <1>2 DEF TrackStates, Ledger!TrackStates
<1>10. QED
  BY <1>5, <1>7, <1>8, <1>9 DEF Ledger!Move

\* Every commit is a change of the ledger.
LEMMA CommitIsChange ==
  ASSUME PolicyInv, PolicyInv', Next, ~Restart, NEW r \in Requests, Commits(r),
         UNCHANGED <<policy, locked, registry>>
  PROVE  Ledger!Change
<1>. DEFINE change == req'[r].change
            t == change.track
<1>1. /\ file.policy = policy /\ file' = Written(Candidate(change))
      /\ change \in Changes /\ policy \in Policies
      /\ Admits(change, req'[r].token)
  BY DEF Commits, PolicyInv, PolicyTypeOK
<1>2. t \in Tracks
  BY <1>1 DEF Changes, SetChanges, ApprovalChanges, OverrideChanges
<1>3. policy.tracks[t] \in TrackRecords
  BY <1>1, <1>2 DEF Policies
<1>4. CASE change.op = "set"
  BY <1>2, <1>4, CommitEnforces, CommitMoves DEF Enforces, Ledger!Change
<1>5. CASE change.op = "approve"
  <2>1. ChangedRecord(policy.tracks[t], change)
          = [state |-> policy.tracks[t].state, approved |-> TRUE, recorded |-> TRUE]
    BY <1>3, <1>5 DEF ChangedRecord, TrackRecords
  <2>2. Ledger!Approve(t)
    BY <1>1, <1>5, <2>1, CandidateRecords DEF Ledger!Approve
  <2>3. QED
    BY <1>2, <2>2 DEF Ledger!Change
<1>6. CASE change.op = "revoke"
  <2>1. policy.tracks[t].recorded = TRUE
    BY <1>1, <1>3, <1>6 DEF Admits, TrackRecords
  <2>2. ChangedRecord(policy.tracks[t], change)
          = [state |-> Demoted(policy.tracks[t].state), approved |-> FALSE, recorded |-> TRUE]
    BY <1>3, <1>6, <2>1 DEF ChangedRecord, TrackRecords
  <2>3. Ledger!Record(t, Demoted(policy.tracks[t].state), FALSE)
    BY <1>1, <1>6, <2>2, CandidateRecords
  <2>4. Ledger!Revoke(t)
    BY <1>1, <2>1, <2>3 DEF Ledger!Revoke, Demoted
  <2>5. QED
    BY <1>2, <2>4 DEF Ledger!Change
<1>7. CASE change.op \in {"override", "clear"}
  <2>1. change.cap \in Ledger!Capabilities
    BY <1>1, <1>7 DEF Changes, SetChanges, ApprovalChanges, OverrideChanges,
                      Capabilities, Ledger!Capabilities
  <2>2. Ledger!Override(ChangedOverrides(change))
    BY <1>1, <1>7, CandidateOverrides
  <2>3. Ledger!Block(t, change.cap) \/ Ledger!Unblock(t, change.cap)
    BY <1>1, <1>7, <2>2
       DEF Admits, Blocked, ChangedOverrides, Ledger!Block, Ledger!Unblock
  <2>4. QED
    BY <1>2, <2>1, <2>3 DEF Ledger!Change
<1>8. change.op \in {"set", "approve", "revoke", "override", "clear"}
  BY <1>1 DEF Changes, SetChanges, ApprovalChanges, OverrideChanges
<1>9. QED
  BY <1>4, <1>5, <1>6, <1>7, <1>8

\* A restart reopens the ledger or starts a new one.
LEMMA RestartIsLedgerStep ==
  ASSUME PolicyTypeOK, Restart
  PROVE  Ledger!Reopen \/ Ledger!Lose
<1>1. Ledger!EmptyLedger = DefaultPolicy
  BY DEF Ledger!EmptyLedger, DefaultPolicy, NoRecord
<1>2. locked' = (file'.kind = "damaged") /\ registry' = registry
  BY DEF Restart, Load
<1>3. CASE file'.kind = "damaged"
  <2>1. file' = Damaged
    BY <1>3 DEF Restart, PolicyTypeOK, Files, Missing, Damaged
  <2>2. QED
    BY <1>1, <1>2, <1>3, <2>1 DEF Damaged, Ledger!Lose
<1>4. CASE file'.kind # "damaged"
  <2>1. file' = file
    BY <1>4 DEF Restart, Damaged
  <2>2. QED
    BY <1>2, <1>4, <2>1 DEF Ledger!Reopen
<1>5. QED
  BY <1>3, <1>4

\* The file keeps the ledger's promise, for any tracks, models, roles and
\* requests, whatever fails: what a request saw before it awaited still holds
\* in the version its change is applied to, and no version is lost or skipped.
THEOREM StoreImplementsLedger == Spec => ImplementsLedger
<1>1. Init => Ledger!Init
  BY DEF Init, Missing, DefaultPolicy, NoRecord, Unqualified, Ledger!Init, Ledger!EmptyLedger
<1>2. ASSUME PolicyInv, PolicyInv', [Next]_vars
      PROVE  [Ledger!Next]_(Ledger!vars)
  <2>1. CASE Restart
    BY <1>2, <2>1, RestartIsLedgerStep DEF PolicyInv, Ledger!Next
  <2>2. CASE UNCHANGED vars
    BY <2>2 DEF vars, Ledger!vars
  <2>3. CASE Next /\ ~Restart
    <3>1. CASE \E r \in Requests : Commits(r) /\ UNCHANGED <<policy, locked, registry>>
      BY <1>2, <2>3, <3>1, CommitIsChange DEF Ledger!Next
    <3>2. CASE file' = file /\ locked' = locked
      <4>1. registry' \in [Tracks -> Qualifications]
        BY <1>2 DEF PolicyInv, PolicyTypeOK
      <4>2. Qualifications = Ledger!Qualifications
        BY DEF Qualifications, Unqualified, Capabilities,
               Ledger!Qualifications, Ledger!Capabilities
      <4>3. QED
        BY <3>2, <4>1, <4>2 DEF Ledger!Next, Ledger!Requalify
    <3>3. QED
      BY <1>2, <2>3, <3>1, <3>2, StepEffect DEF PolicyInv, BaseInv
  <2>4. QED
    BY <1>2, <2>1, <2>2, <2>3
<1>3. QED
  BY <1>1, <1>2, InvHolds, PTL DEF Spec, ImplementsLedger, Ledger!Spec

---------------------------------------------------------------------------
(* How long a request waits.                                               *)

\* Request r has handed its function to the queue.
HandedOver(r) == req[r].pc \in {"pending", "written", "settling"}

\* Where it waits, from 1.
Place(r) == CHOOSE i \in 1..Len(queue) : queue[i] = r

\* What is left of the request that runs: to publish and to settle.
RunningTurns == IF \E s \in Requests : req[s].pc = "written" THEN 2 ELSE 1

\* How many steps of the store there are at most until r is answered: those
\* of the request that runs, and two for each one in the queue up to r.
Turns(r) ==
  CASE req[r].pc = "written"  -> 2
    [] req[r].pc = "settling" -> 1
    [] req[r].pc = "pending"  -> RunningTurns + 2 * Place(r)

\* The store takes a step in its queue.
QueueStep == \E s \in Requests : Publish(s) \/ Settle(s)

\* A waiting request has one place.
LEMMA PlaceOf ==
  ASSUME BaseInv, NEW r \in Requests, req[r].pc = "pending"
  PROVE  /\ Place(r) \in 1..Len(queue) /\ queue[Place(r)] = r
         /\ \A i \in 1..Len(queue) : queue[i] = r => i = Place(r)
<1>1. \E i \in 1..Len(queue) : queue[i] = r
  BY DEF BaseInv, OneMutationAtATime
<1>2. Place(r) \in 1..Len(queue) /\ queue[Place(r)] = r
  BY <1>1 DEF Place
<1>3. QED
  BY <1>2 DEF BaseInv, OneMutationAtATime

\* While a request waits, another one runs.
LEMMA SomebodyRuns ==
  ASSUME BaseInv, NEW r \in Requests, req[r].pc = "pending"
  PROVE  \E s \in Requests : Busy(req[s].pc)
<1>1. queue # <<>>
  BY PlaceOf DEF BaseInv, PolicyTypeOK
<1>2. QED
  BY <1>1 DEF BaseInv, OneMutationAtATime, Flushing, Busy

\* The turns are a number, bounded by the length of the queue.
LEMMA TurnsBounded ==
  ASSUME BaseInv, NEW r \in Requests, HandedOver(r)
  PROVE  Turns(r) \in 1..(2 * Len(queue) + 2)
<1>1. Len(queue) \in Nat /\ RunningTurns \in 1..2
  BY DEF BaseInv, PolicyTypeOK, RunningTurns
<1>2. CASE req[r].pc = "pending"
  <2>1. Place(r) \in 1..Len(queue)
    BY <1>2, PlaceOf
  <2>2. Turns(r) = RunningTurns + 2 * Place(r)
    BY <1>2 DEF Turns
  <2>3. QED
    BY <1>1, <2>1, <2>2
<1>3. CASE req[r].pc = "written"
  BY <1>1, <1>3 DEF Turns
<1>4. CASE req[r].pc = "settling"
  BY <1>1, <1>4 DEF Turns
<1>5. QED
  BY <1>2, <1>3, <1>4 DEF HandedOver

\* A step that keeps the queue's beginning and what runs keeps the turns.
LEMMA TurnsKept ==
  ASSUME BaseInv, BaseInv', NEW r \in Requests, HandedOver(r), req'[r] = req[r],
         \/ queue' = queue
         \/ \E s \in Requests : queue' = Append(queue, s),
         req[r].pc = "pending" => \A s \in Requests : Busy(req[s].pc) => req'[s] = req[s]
  PROVE  Turns(r)' = Turns(r)
<1>1. CASE req[r].pc = "pending"
  <2>1. Place(r) \in 1..Len(queue) /\ queue[Place(r)] = r
    BY <1>1, PlaceOf
  <2>2. Place(r) \in 1..Len(queue') /\ queue'[Place(r)] = r
    BY <2>1 DEF BaseInv, PolicyTypeOK
  <2>3. \A i \in 1..Len(queue') : queue'[i] = r => i = Place(r)
    BY <2>2 DEF BaseInv, OneMutationAtATime
  <2>4. Place(r)' = Place(r)
    BY <2>2, <2>3 DEF Place
  <2>5. PICK b \in Requests : Busy(req[b].pc)
    BY <1>1, SomebodyRuns
  <2>6. req'[b] = req[b]
    BY <1>1, <2>5
  <2>7. \A s \in Requests : req[s].pc = "written" <=> req'[s].pc = "written"
    BY <2>5, <2>6 DEF BaseInv, OneMutationAtATime, Busy
  <2>8. RunningTurns' = RunningTurns
    BY <2>7 DEF RunningTurns
  <2>9. QED
    BY <1>1, <2>4, <2>8 DEF Turns
<1>2. CASE req[r].pc = "written"
  BY <1>2 DEF Turns
<1>3. CASE req[r].pc = "settling"
  BY <1>3 DEF Turns
<1>4. QED
  BY <1>1, <1>2, <1>3 DEF HandedOver

\* What publishing does to the turns.
LEMMA PublishTurns ==
  ASSUME BaseInv, BaseInv', NEW s \in Requests, Publish(s), NEW r \in Requests, HandedOver(r)
  PROVE  Turns(r)' < Turns(r)
<1>1. /\ req[s].pc = "written" /\ req'[s].pc = "settling" /\ queue' = queue
      /\ \A q \in Requests \ {s} : req'[q] = req[q]
  <2>1. req[s] \in Entries
    BY ActiveHasEntry DEF Publish, BaseInv
  <2>2. QED
    BY <2>1 DEF Publish, BaseInv, PolicyTypeOK, Entries
<1>2. \A q \in Requests \ {s} : ~Busy(req[q].pc)
  BY <1>1 DEF BaseInv, OneMutationAtATime, Busy
<1>3. CASE r = s
  BY <1>1, <1>3 DEF Turns
<1>4. CASE r # s
  <2>1. req[r].pc = "pending" /\ req'[r] = req[r]
    BY <1>1, <1>2, <1>4 DEF HandedOver, Busy
  <2>2. Place(r)' = Place(r)
    BY <1>1 DEF Place
  <2>3. RunningTurns = 2 /\ RunningTurns' = 1
    BY <1>1, <1>2 DEF RunningTurns, Busy
  <2>4. Turns(r)' = RunningTurns' + 2 * Place(r) /\ Turns(r) = RunningTurns + 2 * Place(r)
    BY <2>1, <2>2 DEF Turns
  <2>5. Place(r) \in Nat
    BY <2>1, PlaceOf DEF BaseInv, PolicyTypeOK
  <2>6. QED
    BY <2>3, <2>4, <2>5
<1>5. QED
  BY <1>3, <1>4

\* What an answer does to them.
LEMMA SettleTurns ==
  ASSUME BaseInv, BaseInv', NEW s \in Requests, Settle(s), NEW r \in Requests, HandedOver(r), r # s
  PROVE  Turns(r)' < Turns(r)
<1>1. req[s].pc = "settling" /\ \A q \in Requests \ {s} : ~Busy(req[q].pc)
  BY DEF Settle, BaseInv, OneMutationAtATime, Busy
<1>2. req[r].pc = "pending"
  BY <1>1 DEF HandedOver, Busy
<1>3. Place(r) \in 1..Len(queue) /\ queue[Place(r)] = r /\ queue \in Seq(Requests)
  BY <1>2, PlaceOf DEF BaseInv, PolicyTypeOK
<1>4. PICK h \in Requests :
        /\ queue # <<>> /\ h = Head(queue) /\ h # s /\ queue' = Tail(queue)
        /\ req[h].pc = "pending" /\ Busy(req'[h].pc)
        /\ \A q \in Requests \ {s, h} : req'[q] = req[q]
  BY <1>3, SettleEffect
<1>5. RunningTurns = 1
  BY <1>1 DEF RunningTurns, Busy
<1>6. Turns(r) = 1 + 2 * Place(r)
  BY <1>2, <1>5 DEF Turns
<1>7. CASE r = h
  <2>1. Turns(r)' \in 1..2
    BY <1>4, <1>7 DEF Turns, Busy
  <2>2. QED
    BY <1>3, <1>6, <2>1
<1>8. CASE r # h
  <2>1. req'[r] = req[r]
    BY <1>4, <1>8
  <2>2. Place(r) # 1
    BY <1>3, <1>4, <1>8
  <2>3. Place(r) - 1 \in 1..Len(queue') /\ queue'[Place(r) - 1] = r
    BY <1>3, <1>4, <2>2
  <2>4. \A i \in 1..Len(queue') : queue'[i] = r => i = Place(r) - 1
    BY <2>3 DEF BaseInv, OneMutationAtATime
  <2>5. Place(r)' = Place(r) - 1
    BY <2>3, <2>4 DEF Place
  <2>6. RunningTurns' \in 1..2
    BY DEF RunningTurns
  <2>7. Turns(r)' = RunningTurns' + 2 * (Place(r) - 1)
    BY <1>2, <2>1, <2>5 DEF Turns
  <2>8. QED
    BY <1>3, <1>6, <2>6, <2>7
<1>9. QED
  BY <1>7, <1>8

\* What the other steps of the server do.
LEMMA OtherTurns ==
  ASSUME BaseInv, BaseInv', Next, ~Restart, ~QueueStep, NEW r \in Requests, HandedOver(r)
  PROVE  Turns(r)' = Turns(r)
<1>1. ASSUME NEW s \in Requests, Request(s)
      PROVE  Turns(r)' = Turns(r)
  <2>1. PICK change \in Changes : Mutate(s, change, NoToken)
    BY <1>1 DEF Request
  <2>2. req[s].pc = "idle"
    BY <1>1 DEF Request
  <2>3. /\ \A q \in Requests \ {s} : req'[q] = req[q]
        /\ queue' = Append(queue, s) \/ queue' = queue
    BY <2>1, <2>2, MutateEffect
  <2>4. QED
    BY <2>2, <2>3, TurnsKept DEF HandedOver, Busy
<1>2. ASSUME NEW s \in Requests, RequestEnforced(s) \/ GateRefuses(s)
      PROVE  Turns(r)' = Turns(r)
  <2>1. /\ req[s].pc \in {"idle", "gate"} /\ queue' = queue
        /\ \A q \in Requests \ {s} : req'[q] = req[q]
    BY <1>2 DEF RequestEnforced, GateRefuses, BaseInv, PolicyTypeOK
  <2>2. QED
    BY <2>1, TurnsKept DEF HandedOver, Busy
<1>3. ASSUME NEW s \in Requests, GatePasses(s)
      PROVE  Turns(r)' = Turns(r)
  <2>1. req[s] \in Entries /\ req[s].pc = "gate"
    BY <1>3, ActiveHasEntry DEF GatePasses, BaseInv
  <2>2. /\ \A q \in Requests \ {s} : req'[q] = req[q]
        /\ queue' = Append(queue, s) \/ queue' = queue
    BY <1>3, <2>1, MutateEffect DEF GatePasses, Entries
  <2>3. QED
    BY <2>1, <2>2, TurnsKept DEF HandedOver, Busy
<1>4. ASSUME RegistryChanges
      PROVE  Turns(r)' = Turns(r)
  BY <1>4, TurnsKept DEF RegistryChanges
<1>5. QED
  BY <1>1, <1>2, <1>3, <1>4 DEF Next, RequestStep, QueueStep

\* A request in the queue is overtaken by nobody: its turns are bounded by the
\* queue it sees, each step of the queue lowers them or answers it, and no
\* other step of the server changes them, however many requests arrive.
THEOREM WaitingAdvances ==
  Spec =>
    /\ [](\A r \in Requests : HandedOver(r) =>
            /\ Turns(r) \in 1..(2 * Len(queue) + 2)
            /\ \E s \in Requests : Busy(req[s].pc))
    /\ [][ \A r \in Requests : HandedOver(r) =>
             \/ req'[r].pc = "idle"
             \/ HandedOver(r)' /\ (IF QueueStep THEN Turns(r)' < Turns(r) ELSE Turns(r)' = Turns(r)) ]_vars
<1>1. PolicyInv => BaseInv
  BY DEF PolicyInv, BaseInv
<1>2. PolicyInv => \A r \in Requests : HandedOver(r) =>
                     /\ Turns(r) \in 1..(2 * Len(queue) + 2)
                     /\ \E s \in Requests : Busy(req[s].pc)
  BY <1>1, TurnsBounded, SomebodyRuns DEF HandedOver, Busy
<1>3. ASSUME PolicyInv, PolicyInv', Next, NEW r \in Requests, HandedOver(r), req'[r].pc # "idle"
      PROVE  HandedOver(r)' /\ (IF QueueStep THEN Turns(r)' < Turns(r) ELSE Turns(r)' = Turns(r))
  <2>1. BaseInv /\ BaseInv'
    BY <1>1, <1>3 DEF PolicyInv, BaseInv
  <2>2. ~Restart
    BY <1>3 DEF Restart, Load, Idle
  <2>3. HandedOver(r)'
    <3>1. Remains(r)
      BY <1>3, <2>1, <2>2, EntriesPersist DEF HandedOver, Arrives, ArrivesAtGate
    <3>2. req'[r] \in Entries
      BY <1>3, <2>1, ActiveHasEntry DEF BaseInv, PolicyTypeOK, RequestStates, Idle
    <3>3. QED
      BY <1>3, <3>1, <3>2 DEF Remains, HandedOver, Entries, Phases
  <2>4. ASSUME QueueStep
        PROVE  Turns(r)' < Turns(r)
    <3>1. PICK s \in Requests : Publish(s) \/ Settle(s)
      BY <2>4 DEF QueueStep
    <3>2. CASE Publish(s)
      BY <1>3, <2>1, <3>2, PublishTurns
    <3>3. CASE Settle(s)
      <4>1. r # s
        BY <1>3, <2>1, <3>3, SettleEffect DEF Idle
      <4>2. QED
        BY <1>3, <2>1, <3>3, <4>1, SettleTurns
    <3>4. QED
      BY <3>1, <3>2, <3>3
  <2>5. ASSUME ~QueueStep
        PROVE  Turns(r)' = Turns(r)
    BY <1>3, <2>1, <2>2, <2>5, OtherTurns
  <2>6. QED
    BY <2>3, <2>4, <2>5
<1>4. PolicyInv /\ PolicyInv' /\ [Next]_vars =>
        [ \A r \in Requests : HandedOver(r) =>
            \/ req'[r].pc = "idle"
            \/ HandedOver(r)' /\ (IF QueueStep THEN Turns(r)' < Turns(r) ELSE Turns(r)' = Turns(r)) ]_vars
  BY <1>3
<1>5. QED
  BY <1>2, <1>4, InvHolds, PTL DEF Spec

===========================================================================
