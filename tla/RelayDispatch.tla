--------------------------- MODULE RelayDispatch ---------------------------
(***************************************************************************)
(* The relay of the companion server: the registry of nodes that offer to  *)
(* execute model steps (companion/relay/registry.js), the placement of a   *)
(* track's steps on healthy nodes (placement.js), and the router, which    *)
(* sends one step to one node and falls back to the local executor         *)
(* (router.js, connector.js).  The module has no next-state relation of    *)
(* its own: PlanExecution starts the dispatches and owns the steps.        *)
(*                                                                         *)
(* Left out: dispatch and failure counts (any capable node may be picked), *)
(* labels, hardware, base URLs, authentication and the audit records.      *)
(***************************************************************************)
EXTENDS Naturals, FiniteSets

CONSTANTS Nodes,        \* the relay nodes that may register
          NoNode,       \* the absence of a node
          N,            \* the number of steps, in file order
          Declares,     \* Declares[n]: the steps whose role node n offers
          MaxRegistryChanges  \* bound on registrations, heartbeats, ...

Steps == 1 .. N

ASSUME RelayAssumption ==
  /\ NoNode \notin Nodes
  /\ N \in Nat
  /\ Declares \in [Nodes -> SUBSET Steps]
  /\ MaxRegistryChanges \in Nat

VARIABLES
  registry,  \* registry[n]: the status of n's record, "absent" without one
  stale,     \* the nodes last seen more than HEALTH_STALE_MS ago
  assigned,  \* assigned[s]: the node the placement gave to step s
  at,        \* at[s]: where the router executes step s
  node,      \* node[s]: the node step s was dispatched to
  changes    \* registry changes so far

relayVars == <<registry, stale, assigned, at, node, changes>>

(* "inTry" is the local execution inside the try of the router's function: *)
(* what it throws is caught and taken for a failure of the node.           *)
Places == {"idle", "remote", "inTry", "local", "done"}
Standings == {"absent", "unknown", "healthy", "unhealthy"}

(* The nodes of the configuration are registered at the start. *)
RelayInit ==
  /\ registry = [n \in Nodes |-> "unknown"]
  /\ stale = {}
  /\ assigned = [s \in Steps |-> NoNode]
  /\ at = [s \in Steps |-> "idle"]
  /\ node = [s \in Steps |-> NoNode]
  /\ changes = 0

-----------------------------------------------------------------------------
(* The registry *)

IsHealthy(n) == registry[n] \notin {"absent", "unhealthy"} /\ n \notin stale

(* The nodes a step can be sent to: healthy, and declaring its role. *)
Candidates(s) == {n \in Nodes : IsHealthy(n) /\ s \in Declares[n]}

RegistryChange == changes < MaxRegistryChanges /\ changes' = changes + 1

(* A known node is replaced only with overwrite: true, and is then healthy. *)
Register(n) ==
  /\ RegistryChange
  /\ registry' = [registry EXCEPT ![n] =
                    IF registry[n] = "absent" THEN "unknown" ELSE "healthy"]
  /\ stale' = stale \ {n}
  /\ UNCHANGED <<assigned, at, node>>

Unregister(n) ==
  /\ RegistryChange
  /\ registry[n] # "absent"
  /\ registry' = [registry EXCEPT ![n] = "absent"]
  /\ stale' = stale \ {n}
  /\ UNCHANGED <<assigned, at, node>>

Heartbeat(n) ==
  /\ RegistryChange
  /\ registry[n] # "absent"
  /\ registry' = [registry EXCEPT ![n] = "healthy"]
  /\ stale' = stale \ {n}
  /\ UNCHANGED <<assigned, at, node>>

(* HEALTH_STALE_MS pass without a word from n. *)
GoesSilent(n) ==
  /\ RegistryChange
  /\ registry[n] # "absent" /\ n \notin stale
  /\ stale' = stale \cup {n}
  /\ UNCHANGED <<registry, assigned, at, node>>

(* A record that has gone in the meantime is not created again. *)
Marked(n) ==
  [registry EXCEPT ![n] = IF @ = "absent" THEN @ ELSE "unhealthy"]

-----------------------------------------------------------------------------
(* Placement: in file order, each step to a least loaded candidate. *)

Load(nodes, n) == Cardinality({i \in DOMAIN nodes : nodes[i] = n})

LeastLoaded(s, nodes) ==
  IF Candidates(s) = {} THEN {NoNode}
  ELSE {n \in Candidates(s) :
          \A m \in Candidates(s) : Load(nodes, n) <= Load(nodes, m)}

IsPlacement(nodes) ==
  \A s \in Steps : nodes[s] \in LeastLoaded(s, [i \in 1 .. s - 1 |-> nodes[i]])

-----------------------------------------------------------------------------
(* The router *)

(* Where a step may go.  "prefer": any candidate, none means local.        *)
(* "distribute": the assigned node, if it is still healthy; a step without *)
(* an assignment stays local, as every step does under the other policies  *)
(* (the server runs nothing unless the local runtime is ready).            *)
Targets(s, policy) ==
  CASE policy = "prefer" /\ Candidates(s) # {} -> Candidates(s)
    [] policy = "distribute" /\ assigned[s] # NoNode /\ IsHealthy(assigned[s])
         -> {assigned[s]}
    [] OTHER -> {NoNode}

Dispatch(S, target) ==
  /\ at' = [s \in Steps |-> IF s \notin S THEN at[s]
                           ELSE IF target[s] = NoNode THEN "local" ELSE "remote"]
  /\ node' = [s \in Steps |-> IF s \in S THEN target[s] ELSE node[s]]
  /\ UNCHANGED <<registry, stale, assigned, changes>>

Answered(s) ==
  /\ at' = [at EXCEPT ![s] = "done"]
  /\ UNCHANGED <<registry, stale, assigned, node, changes>>

(* The node answers ok: false. *)
Refused(s) ==
  /\ at[s] = "remote"
  /\ registry' = Marked(node[s])
  /\ at' = [at EXCEPT ![s] = "inTry"]
  /\ UNCHANGED <<stale, assigned, node, changes>>

(* The node answers, with an output that fails the step's schema. *)
Unusable(s) ==
  /\ at[s] = "remote"
  /\ at' = [at EXCEPT ![s] = "inTry"]
  /\ UNCHANGED <<registry, stale, assigned, node, changes>>

(* Mutant of FallsBack: the step is put back instead. *)
PutBack(s) ==
  /\ at[s] \in {"remote", "inTry"}
  /\ registry' = Marked(node[s])
  /\ at' = [at EXCEPT ![s] = "idle"]
  /\ UNCHANGED <<stale, assigned, node, changes>>

(* Timeout, no connection, a bad or an error response; or the local        *)
(* execution inside the try has thrown: the step is executed locally (in   *)
(* the second case once more).                                             *)
FallsBack(s) ==
  /\ at[s] \in {"remote", "inTry"}
  /\ registry' = Marked(node[s])
  /\ at' = [at EXCEPT ![s] = "local"]
  /\ UNCHANGED <<stale, assigned, node, changes>>

(* What the router returns: a remote or a local output. *)
MayReturn(s) == at[s] \in {"remote", "inTry", "local"}

(* Mutant of MayThrow: a failed dispatch is rethrown. *)
MayThrowAlways(s) == at[s] \in {"remote", "local"}

(* What the router throws: only what the last local execution throws. *)
MayThrow(s) == at[s] = "local"

=============================================================================
