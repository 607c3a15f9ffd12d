---------------------- MODULE EnforcementPolicyStore ----------------------
(***************************************************************************)
(* The enforcement policy store, core/enforcement-policy-store.js, behind  *)
(* its wrapper core/enforcement-policy.js and the /enforcement endpoints.  *)
(*                                                                         *)
(* The policy gives every track a rollout state, an approval and overrides *)
(* that block a capability on the track.  It lives in memory and in one    *)
(* file, and has a revision number.  A request reads the policy in memory, *)
(* may be refused at once, and otherwise enters a queue with a function    *)
(* that changes a copy of the policy.  One function runs at a time: the    *)
(* copy is checked and written to the file by rename, becomes the policy   *)
(* in memory, and an audit event is appended before the next one runs.  A  *)
(* request for `enforced' awaits the runtime and the evidence store before *)
(* it enters the queue, and carries a token of what it has seen.           *)
(*                                                                         *)
(* A step is what runs between two awaits.  A refused request changes      *)
(* nothing and has no step.                                                *)
(***************************************************************************)
EXTENDS Naturals, Sequences, FiniteSets

CONSTANTS
  Tracks,        \* track ids
  Models,        \* model ids
  Roles,         \* model roles
  NoCapability,  \* no qualified capability
  Requests,      \* HTTP requests in progress at one time
  MaxRevision,   \* bound on the revisions of a behaviour
  MaxRestarts,   \* bound on the restarts of the server
  MayFail,       \* a candidate may be unfit for its schema, or its write fail
  MayBeDamaged   \* a restarted server may find a file it cannot read

ASSUME PolicyAssumption ==
  /\ MaxRevision \in Nat
  /\ MaxRestarts \in Nat
  /\ MayFail \in BOOLEAN
  /\ MayBeDamaged \in BOOLEAN

VARIABLES
  policy,    \* the policy in memory
  locked,    \* enforcementLocked
  file,      \* data/policy/enforcement-policy.json
  queue,     \* pending: the requests whose function waits, oldest first
  req,       \* what each request is doing
  registry,  \* registry[t]: getBestQualifiedCapability for the track
  restarts   \* how often the server was restarted

vars == <<policy, locked, file, queue, req, registry, restarts>>

---------------------------------------------------------------------------
(* Policies.                                                               *)

TrackStates == {"disabled", "shadow", "eligible", "enforced", "suspended"}
EscalatedStates == {"eligible", "enforced"}

AllowedTransitions ==
  [ disabled  |-> {"shadow"},
    shadow    |-> {"disabled", "eligible"},
    eligible  |-> {"shadow", "enforced", "suspended"},
    enforced  |-> {"suspended", "eligible", "shadow"},
    suspended |-> {"shadow", "eligible", "disabled"} ]

ValidTransition(from, to) == from = to \/ to \in AllowedTransitions[from]

Capabilities == [model : Models, role : Roles]

\* The best qualified capability of a track, and whether its score reaches
\* the policy's threshold.
Unqualified == [cap |-> NoCapability, enough |-> FALSE]
Qualifications == [cap : Capabilities, enough : BOOLEAN] \cup {Unqualified}

\* A track without a record reads as one in the default state.
NoRecord == [state |-> "shadow", approved |-> FALSE, recorded |-> FALSE]
TrackRecords == [state : TrackStates, approved : BOOLEAN, recorded : BOOLEAN]

DefaultPolicy == [revision |-> 0, tracks |-> [t \in Tracks |-> NoRecord], overrides |-> {}]
Policies ==
  [ revision  : Nat,
    tracks    : [Tracks -> TrackRecords],
    overrides : SUBSET (Tracks \X Capabilities) ]

\* A file that is missing or cannot be read yields the default policy.
Missing == [kind |-> "missing", policy |-> DefaultPolicy]
Damaged == [kind |-> "damaged", policy |-> DefaultPolicy]
Written(p) == [kind |-> "policy", policy |-> p]
Files == [kind : {"policy"}, policy : Policies] \cup {Missing, Damaged}

---------------------------------------------------------------------------
(* What a request asks for, and what it holds while it is in progress.     *)

SetChanges == [op : {"set"}, track : Tracks, to : TrackStates]
ApprovalChanges == [op : {"approve", "revoke"}, track : Tracks]
OverrideChanges == [op : {"override", "clear"}, track : Tracks, cap : Capabilities]
Changes == SetChanges \cup ApprovalChanges \cup OverrideChanges
NoChange == [op |-> "none"]

Enforces(change) == change.op = "set" /\ change.to = "enforced"

\* gateToken: the state is always `eligible' and the track approved, or the
\* gate would have refused the request.
Tokens == [revision : Nat, model : Models]
NoToken == [revision |-> 0]

\* gate: awaits the runtime and the evidence; pending: in the queue;
\* written: awaits atomicWrite, which has renamed the file; settling: awaits
\* the audit, or has returned without one.
Phases == {"gate", "pending", "written", "settling"}

Idle == [pc |-> "idle", change |-> NoChange, token |-> NoToken]
Entries == [pc : Phases, change : Changes, token : Tokens \cup {NoToken}]
RequestStates == Entries \cup {Idle}

Active == {r \in Requests : req[r].pc # "idle"}

\* flushing
Flushing == \E r \in Requests : req[r].pc \in {"written", "settling"}

---------------------------------------------------------------------------
(* The checks made when a request arrives, on the policy in memory.        *)

Blocked(t, cap) == <<t, cap>> \in policy.overrides

\* checkEligibilityGate
EligibilityGate(t) == policy.tracks[t].approved /\ registry[t].cap # NoCapability

\* The synchronous part of checkEnforcementGateAsync.
EnforcementGate(t) ==
  /\ EligibilityGate(t)
  /\ registry[t].enough
  /\ ~Blocked(t, registry[t].cap)

\* Mutant of SetAllowed: the lock is not consulted.
SetAllowedUnlocked(t, to) ==
  /\ ValidTransition(policy.tracks[t].state, to)
  /\ to = "eligible" => EligibilityGate(t)
  /\ to = "enforced" => policy.tracks[t].state = "eligible" /\ EnforcementGate(t)

SetAllowed(t, to) ==
  /\ ~(locked /\ to \in EscalatedStates)
  /\ ValidTransition(policy.tracks[t].state, to)
  /\ to = "eligible" => EligibilityGate(t)
  /\ to = "enforced" => policy.tracks[t].state = "eligible" /\ EnforcementGate(t)

\* The wrapper refuses an override that exists; the other requests are
\* first checked when their function runs.
Allowed(change) ==
  CASE change.op = "set"      -> SetAllowed(change.track, change.to)
    [] change.op = "override" -> ~Blocked(change.track, change.cap)
    [] OTHER                  -> TRUE

---------------------------------------------------------------------------
(* The function a request puts into the queue.                             *)

\* Mutants of StillGated: the revision is not compared; nothing else is.
StillGatedAnyRevision(t, token) ==
  /\ policy.tracks[t].state = "eligible"
  /\ policy.tracks[t].approved
  /\ registry[t].cap # NoCapability
  /\ registry[t].cap.model = token.model
  /\ registry[t].enough
StillGatedByRevision(t, token) == policy.revision = token.revision

\* Its checks on the candidate.  Only a move to `enforced' is checked again.
StillGated(t, token) ==
  /\ policy.tracks[t].state = "eligible"
  /\ policy.revision = token.revision
  /\ policy.tracks[t].approved
  /\ registry[t].cap # NoCapability
  /\ registry[t].cap.model = token.model
  /\ registry[t].enough

Admits(change, token) ==
  CASE change.op = "set"      -> change.to = "enforced" => StillGated(change.track, token)
    [] change.op = "approve"  -> TRUE
    [] change.op = "revoke"   -> policy.tracks[change.track].recorded
    [] change.op = "override" -> ~Blocked(change.track, change.cap)
    [] change.op = "clear"    -> Blocked(change.track, change.cap)

\* Mutant of Demoted: an enforced track stays enforced.
DemotedEligibleOnly(state) == IF state = "eligible" THEN "shadow" ELSE state

\* And one in which it is disabled.
DemotedToDisabled(state) == IF state \in EscalatedStates THEN "disabled" ELSE state

\* The state of a track whose approval is revoked.
Demoted(state) ==
  CASE state = "enforced" -> "suspended"
    [] state = "eligible" -> "shadow"
    [] OTHER              -> state

ChangedRecord(rec, change) ==
  CASE change.op = "set"     -> [rec EXCEPT !.state = change.to, !.recorded = TRUE]
    [] change.op = "approve" -> [rec EXCEPT !.approved = TRUE, !.recorded = TRUE]
    [] change.op = "revoke"  -> [rec EXCEPT !.approved = FALSE, !.state = Demoted(@)]
    [] OTHER                 -> rec

ChangedOverrides(change) ==
  CASE change.op = "override" -> policy.overrides \cup {<<change.track, change.cap>>}
    [] change.op = "clear"    -> policy.overrides \ {<<change.track, change.cap>>}
    [] OTHER                  -> policy.overrides

\* Mutant of Candidate: the revision is not counted.
CandidateSameRevision(change) ==
  [ revision  |-> policy.revision,
    tracks    |-> [policy.tracks EXCEPT ![change.track] = ChangedRecord(@, change)],
    overrides |-> ChangedOverrides(change) ]

Candidate(change) ==
  [ revision  |-> policy.revision + 1,
    tracks    |-> [policy.tracks EXCEPT ![change.track] = ChangedRecord(@, change)],
    overrides |-> ChangedOverrides(change) ]

---------------------------------------------------------------------------
(* The queue.                                                              *)

\* executeMutation up to its first await, for request r of the table rq.
ExecuteMutation(r, rq) ==
  LET change == rq[r].change
      admitted == Admits(change, rq[r].token)
  IN  \/ /\ admitted
         /\ file' = Written(Candidate(change))
         /\ req' = [rq EXCEPT ![r].pc = "written"]
      \/ /\ ~admitted \/ MayFail
         /\ file' = file
         /\ req' = [rq EXCEPT ![r].pc = "settling"]

\* Mutant of Mutate: the function does not wait for the one in progress.
MutateAtOnce(r, change, token) ==
  /\ ExecuteMutation(r, [req EXCEPT ![r] = [pc |-> "pending", change |-> change, token |-> token]])
  /\ queue' = queue

\* mutate: the function runs at once unless another one is in progress.
Mutate(r, change, token) ==
  LET entry == [pc |-> "pending", change |-> change, token |-> token]
      rq == [req EXCEPT ![r] = entry]
  IN  IF Flushing
        THEN req' = rq /\ queue' = Append(queue, r) /\ file' = file
        ELSE ExecuteMutation(r, rq) /\ queue' = queue

\* A request whose function can enter the queue at once.
Request(r) ==
  /\ req[r].pc = "idle"
  /\ policy.revision + Cardinality(Active) < MaxRevision
  /\ \E change \in Changes :
       /\ ~Enforces(change) /\ Allowed(change)
       /\ Mutate(r, change, NoToken)
  /\ UNCHANGED <<policy, locked, registry, restarts>>

\* setTrackState(t, "enforced"), up to the await of the runtime.
RequestEnforced(r) ==
  /\ req[r].pc = "idle"
  /\ policy.revision + Cardinality(Active) < MaxRevision
  /\ \E t \in Tracks :
       /\ SetAllowed(t, "enforced")
       /\ req' = [req EXCEPT ![r] =
            [ pc |-> "gate",
              change |-> [op |-> "set", track |-> t, to |-> "enforced"],
              token |-> [revision |-> policy.revision, model |-> registry[t].cap.model] ]]
  /\ UNCHANGED <<policy, locked, file, queue, registry, restarts>>

\* The runtime is available, the model ready, the evidence sufficient.
GatePasses(r) ==
  /\ req[r].pc = "gate"
  /\ Mutate(r, req[r].change, req[r].token)
  /\ UNCHANGED <<policy, locked, registry, restarts>>

\* Mutant of GateRefuses: the refused request keeps its change and token.
GateRefusesKeepingToken(r) ==
  /\ req[r].pc = "gate"
  /\ req' = [req EXCEPT ![r].pc = "idle"]
  /\ UNCHANGED <<policy, locked, file, queue, registry, restarts>>

\* One of them is not.
GateRefuses(r) ==
  /\ req[r].pc = "gate"
  /\ req' = [req EXCEPT ![r] = Idle]
  /\ UNCHANGED <<policy, locked, file, queue, registry, restarts>>

\* policy = candidate: what the rename has put into the file.
Publish(r) ==
  /\ req[r].pc = "written"
  /\ policy' = file.policy
  /\ req' = [req EXCEPT ![r].pc = "settling"]
  /\ UNCHANGED <<locked, file, queue, registry, restarts>>

\* Mutant of Settle: the queue is left waiting.
SettleAlone(r) ==
  /\ req[r].pc = "settling"
  /\ req' = [req EXCEPT ![r] = Idle]
  /\ UNCHANGED <<policy, locked, file, queue, registry, restarts>>

\* The request is answered, and processQueue goes on in the same turn.
Settle(r) ==
  /\ req[r].pc = "settling"
  /\ LET rq == [req EXCEPT ![r] = Idle]
     IN  IF queue = <<>>
           THEN req' = rq /\ UNCHANGED <<queue, file>>
           ELSE ExecuteMutation(Head(queue), rq) /\ queue' = Tail(queue)
  /\ UNCHANGED <<policy, locked, registry, restarts>>

\* Qualification records are added, expire or change.
RegistryChanges ==
  /\ \E t \in Tracks, q \in Qualifications : registry' = [registry EXCEPT ![t] = q]
  /\ UNCHANGED <<policy, locked, file, queue, req, restarts>>

\* initializeSync, in a new process.
Load ==
  /\ policy' = file'.policy
  /\ locked' = (file'.kind = "damaged")
  /\ queue' = <<>>
  /\ req' = [r \in Requests |-> Idle]

\* The server goes down at any point and comes back.
Restart ==
  /\ restarts < MaxRestarts
  /\ restarts' = restarts + 1
  /\ \/ file' = file
     \/ MayBeDamaged /\ file.kind = "policy" /\ file' = Damaged
  /\ Load
  /\ UNCHANGED registry

Init ==
  /\ file = Missing
  /\ policy = DefaultPolicy
  /\ locked = FALSE
  /\ queue = <<>>
  /\ req = [r \in Requests |-> Idle]
  /\ registry = [t \in Tracks |-> Unqualified]
  /\ restarts = 0

RequestStep(r) ==
  \/ Request(r)
  \/ RequestEnforced(r)
  \/ GatePasses(r)
  \/ GateRefuses(r)
  \/ Publish(r)
  \/ Settle(r)

Next == (\E r \in Requests : RequestStep(r)) \/ RegistryChanges \/ Restart

Spec == Init /\ [][Next]_vars

\* Promises settle: the file write and the audit by the file system, the
\* runtime check by its abort timer, the evidence store by its reads.
Fairness ==
  \A r \in Requests :
    /\ WF_vars(GatePasses(r) \/ GateRefuses(r))
    /\ WF_vars(Publish(r))
    /\ WF_vars(Settle(r))

FairSpec == Spec /\ Fairness

---------------------------------------------------------------------------
(* Properties.                                                             *)

\* Every variable has its type.
PolicyTypeOK ==
  /\ policy \in Policies
  /\ locked \in BOOLEAN
  /\ file \in Files
  /\ queue \in Seq(Requests)
  /\ req \in [Requests -> RequestStates]
  /\ registry \in [Tracks -> Qualifications]
  /\ restarts \in Nat

\* The queue serialises the mutations (processQueue): one function at most
\* is between its start and its answer, and a waiting request is in the
\* queue once, behind one that will go on to it.
OneMutationAtATime ==
  /\ \A r, s \in Requests :
       {req[r].pc, req[s].pc} \subseteq {"written", "settling"} => r = s
  /\ \A r \in Requests : req[r].pc = "pending" <=> \E i \in 1..Len(queue) : queue[i] = r
  /\ \A i, j \in 1..Len(queue) : queue[i] = queue[j] => i = j
  /\ queue # <<>> => Flushing

\* Between executeMutation's awaits the file is the policy in memory; while
\* atomicWrite is awaited it is the next revision; a file that is missing or
\* damaged stands behind the default policy.
FileLeadsByOneCommit ==
  IF \E r \in Requests : req[r].pc = "written"
    THEN file.kind = "policy" /\ file.policy.revision = policy.revision + 1
    ELSE file.policy = policy

\* Whatever is queued when an approval is revoked, no policy, in memory or on
\* disk, enforces a track that is not approved.
EnforcedIsApproved ==
  \A p \in {policy, file.policy}, t \in Tracks :
    p.tracks[t].state = "enforced" => p.tracks[t].approved

\* A store that found a damaged file at start (handleCorruptFileSync) never
\* escalates a track until it is restarted.
LockedNeverEscalates ==
  locked => \A p \in {policy, file.policy}, t \in Tracks :
              p.tracks[t].state \notin EscalatedStates

CommittedState(t) == file.policy.tracks[t].state

\* A track is enforced only from eligible, while it is approved and its best
\* capability reaches the threshold: what the gate saw before it awaited the
\* runtime still holds when the change is written.
EnforcedOnlyWhenGated ==
  [][ \A t \in Tracks :
        CommittedState(t) # "enforced" /\ CommittedState(t)' = "enforced" =>
          /\ CommittedState(t) = "eligible"
          /\ file.policy.tracks[t].approved
          /\ registry[t].cap # NoCapability
          /\ registry[t].enough ]_vars

\* When a track is enforced, no override blocks its best capability, although
\* overrides are looked at before the awaits only.
EnforcedIsUnblocked ==
  [][ \A t \in Tracks :
        CommittedState(t) # "enforced" /\ CommittedState(t)' = "enforced" =>
          <<t, registry[t].cap>> \notin file.policy.overrides ]_vars

\* Although only the request checks a transition to a state other than
\* enforced, a track leaves enforced by the transitions the table allows.
EnforcedIsLeftByTheTable ==
  [][ \A t \in Tracks :
        CommittedState(t) = "enforced" =>
          ValidTransition(CommittedState(t), CommittedState(t)') ]_vars

\* The promise of PolicyLedger, about the file.
Ledger == INSTANCE PolicyLedger WITH ledger <- file.policy

ImplementsLedger == Ledger!Spec

\* A request that was taken up is answered, unless the server goes down.
RequestsAreAnswered ==
  \A r \in Requests : req[r].pc # "idle" ~> req[r].pc = "idle"
===========================================================================
