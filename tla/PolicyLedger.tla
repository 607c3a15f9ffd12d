--------------------------- MODULE PolicyLedger ---------------------------
(***************************************************************************)
(* What the enforcement policy store promises about the policy that        *)
(* survives it: a ledger to which one change is applied at a time, each    *)
(* to the version before it, each counted, and none lost but by damage.    *)
(* There is no copy in memory here, no queue, no request that awaits and   *)
(* no write that fails: EnforcementPolicyStore is shown to implement this  *)
(* specification in its file.                                              *)
(*                                                                         *)
(* A track is enforced by a single step that sees everything it rests on,  *)
(* although the store looks at it before it awaits the runtime and again   *)
(* when the change is applied.                                             *)
(***************************************************************************)
EXTENDS Naturals

CONSTANTS
  Tracks,        \* track ids
  Models,        \* model ids
  Roles,         \* model roles
  NoCapability   \* no qualified capability

VARIABLES
  ledger,    \* revision, tracks and overrides of the policy
  locked,    \* no track may be escalated
  registry   \* the best qualified capability of every track

vars == <<ledger, locked, registry>>

TrackStates == {"disabled", "shadow", "eligible", "enforced", "suspended"}

Capabilities == [model : Models, role : Roles]

Qualifications ==
  [cap : Capabilities, enough : BOOLEAN] \cup {[cap |-> NoCapability, enough |-> FALSE]}

EmptyLedger ==
  [ revision  |-> 0,
    tracks    |-> [t \in Tracks |-> [state |-> "shadow", approved |-> FALSE, recorded |-> FALSE]],
    overrides |-> {} ]

Init ==
  /\ ledger = EmptyLedger
  /\ locked = FALSE
  /\ registry = [t \in Tracks |-> [cap |-> NoCapability, enough |-> FALSE]]

---------------------------------------------------------------------------
(* Changes.                                                                *)

\* The next version.
Version(tracks, overrides) ==
  ledger' = [revision |-> ledger.revision + 1, tracks |-> tracks, overrides |-> overrides]

\* With the record of one track changed.
Record(t, state, approved) ==
  LET record == [state |-> state, approved |-> approved, recorded |-> TRUE]
  IN  Version([ledger.tracks EXCEPT ![t] = record], ledger.overrides)

\* With other overrides.
Override(overrides) == Version(ledger.tracks, overrides)

\* Enforced from eligible, approved, unlocked, by a qualified model that is
\* not blocked in all its roles.
Enforce(t) ==
  /\ ledger.tracks[t].state = "eligible" /\ ledger.tracks[t].approved
  /\ ~locked
  /\ registry[t].cap # NoCapability /\ registry[t].enough
  /\ \E role \in Roles :
       <<t, [model |-> registry[t].cap.model, role |-> role]>> \notin ledger.overrides
  /\ Record(t, "enforced", TRUE)

\* Other moves are bound to the table only where a track leaves `enforced'.
Move(t) ==
  \E to \in TrackStates \ {"enforced"} :
    /\ to = "eligible" => ~locked
    /\ ledger.tracks[t].state = "enforced" => to # "disabled"
    /\ Record(t, to, ledger.tracks[t].approved)

Approve(t) == Record(t, ledger.tracks[t].state, TRUE)

\* The track does not stay escalated.
Revoke(t) ==
  /\ ledger.tracks[t].recorded
  /\ LET state == ledger.tracks[t].state
     IN  Record(t, CASE state = "enforced" -> "suspended"
                     [] state = "eligible" -> "shadow"
                     [] OTHER              -> state, FALSE)

Block(t, cap) ==
  <<t, cap>> \notin ledger.overrides /\ Override(ledger.overrides \cup {<<t, cap>>})

Unblock(t, cap) ==
  <<t, cap>> \in ledger.overrides /\ Override(ledger.overrides \ {<<t, cap>>})

Change ==
  /\ \E t \in Tracks :
       \/ Enforce(t) \/ Move(t) \/ Approve(t) \/ Revoke(t)
       \/ \E cap \in Capabilities : Block(t, cap) \/ Unblock(t, cap)
  /\ UNCHANGED <<locked, registry>>

---------------------------------------------------------------------------
\* A restart that can read the ledger unlocks it.
Reopen == locked' = FALSE /\ UNCHANGED <<ledger, registry>>

\* One that cannot starts a new one, which is locked.
Lose == ledger' = EmptyLedger /\ locked' = TRUE /\ UNCHANGED registry

Requalify == registry' \in [Tracks -> Qualifications] /\ UNCHANGED <<ledger, locked>>

Next == Change \/ Reopen \/ Lose \/ Requalify

Spec == Init /\ [][Next]_vars
===========================================================================
