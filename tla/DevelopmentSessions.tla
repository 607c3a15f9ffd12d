------------------------ MODULE DevelopmentSessions ------------------------
(***************************************************************************)
(* Sessions of the development memory (companion/memory/events): a         *)
(* manifest per session, the pointer to the active one, and the events     *)
(* captured meanwhile, all of them files.  The command line and the        *)
(* objective sequencer start, close and rebuild sessions, each in a        *)
(* process of its own; the server's capture processor recovers, closes,    *)
(* rebuilds and reports on them; recorders stamp events with the active    *)
(* session.  There are no locks: any two processes interleave between two  *)
(* accesses to the files, and each may be killed there.                    *)
(*                                                                         *)
(* A file is replaced as a whole (temporary file, rename).  Of an event    *)
(* only its session matters: that it occurred before the session's end, a  *)
(* session's scope (objective, run), its summary and what is extracted     *)
(* from it are left out.                                                   *)
(***************************************************************************)
EXTENDS Naturals, FiniteSets

CONSTANTS Sessions,     \* session ids
          NoSession,    \* no active session
          Events,       \* events that may be captured in a session
          Operators,    \* processes of the command line and of the sequencer
          Processor,    \* the server's capture processor
          MaxCommands,  \* bound on the commands operators give
          MaxCrashes    \* bound on the processes killed

Actors == Operators \cup {Processor}

ASSUME SessionsAssumption ==
  /\ NoSession \notin Sessions /\ Processor \notin Operators
  /\ Events \cap (Sessions \cup {NoSession}) = {}
  /\ MaxCommands \in Nat /\ MaxCrashes \in Nat

VARIABLES
  manifest,  \* manifests/<s>.json
  pointer,   \* active-session.json
  stored,    \* the event files; the marker event of session s is named s
  stamp,     \* the session an event was captured in
  reported,  \* the sessions with an extraction report
  op,        \* what a process is doing
  todo,      \* the sessions the processor's loop has still to visit
  rebuilt,   \* the sessions an operator has ever asked to rebuild
  commands,  \* how many commands operators have given
  crashes    \* how often a process was killed

files == <<manifest, pointer, stored, stamp, reported>>
bounds == <<rebuilt, commands, crashes>>
vars == <<files, op, todo, bounds>>

Ended == {"interrupted", "closed"}

NoManifest == [status |-> "none", refs |-> {}]

Known == {s \in Sessions : manifest[s].status # "none"}

(* op[a].at is the next access of a to the files, and then where a goes    *)
(* when it has closed a session; status and refs are what it is about to   *)
(* save.                                                                   *)
Idle == [at |-> "idle", then |-> "idle", session |-> NoSession,
         status |-> "none", refs |-> {}]

Init ==
  /\ manifest = [s \in Sessions |-> NoManifest]
  /\ pointer = NoSession
  /\ stored = {}
  /\ stamp = [e \in Events |-> "none"]
  /\ reported = {}
  /\ op = [a \in Actors |-> Idle]
  /\ todo = {}
  /\ rebuilt = {} /\ commands = 0 /\ crashes = 0

-----------------------------------------------------------------------------
(* Operators *)

(* gatherSessionEvents: what is stored and belongs to s. *)
Gathered(s) ==
  ({s} \cap stored) \cup {e \in stored \cap Events : stamp[e] = s}

At(at, s) == [Idle EXCEPT !.at = at, !.session = s]
Done(a) == op' = [op EXCEPT ![a] = Idle]

(* a stays with its session. *)
Holds(a, at, status, refs) ==
  op' = [op EXCEPT ![a] = [at |-> at, then |-> op[a].then, session |-> op[a].session,
                           status |-> status, refs |-> refs]]
Goes(a, at) == Holds(a, at, op[a].status, op[a].refs)
Continues(a, at) == Holds(a, at, "none", {})

(* closeSession up to the await of the events: the manifest it has read is *)
(* overwritten whatever its status was.                                    *)
Closing(s, status, then) ==
  [Idle EXCEPT !.at = "gather", !.then = then, !.session = s, !.status = status]

(* rebuildSession up to the await of the events. *)
Rebuilding(s) ==
  [Idle EXCEPT !.at = "regather", !.session = s, !.status = manifest[s].status]

(* Mutant of Pending: open sessions are reported on, too. *)
PendingAny == Known \ reported

(* listClosedSessionsPendingExtraction *)
Pending == {s \in Known : manifest[s].status \in Ended} \ reported

(* Mutant of IsActive: any pointer will do. *)
SomeActive(s) == pointer # NoSession

IsActive(s) == pointer = s

-----------------------------------------------------------------------------
(* startSession *)

(* A command is a process of its own: which of the free names it gets does *)
(* not matter, and neither does the fresh id of a session.                 *)
Command(a) ==
  /\ op[a] = Idle /\ a = CHOOSE o \in Operators : op[o] = Idle
  /\ commands < MaxCommands /\ commands' = commands + 1
  /\ UNCHANGED <<files, todo, crashes>>

(* markInterruptedIfNeeded reads the pointer ... *)
BeginStart(a) ==
  /\ Command(a)
  /\ op' = [op EXCEPT ![a] =
              At(IF pointer = NoSession THEN "marker" ELSE "readOld", pointer)]
  /\ UNCHANGED rebuilt

(* ... and the manifest it points to, which is ended with the references   *)
(* it has got.                                                             *)
ReadOld(a) ==
  LET old == manifest[op[a].session]
  IN  /\ op[a].at = "readOld"
      /\ IF old.status = "open"
         THEN Holds(a, "saveOld", "interrupted", old.refs)
         ELSE Goes(a, "unpointOld")
      /\ UNCHANGED <<files, todo, bounds>>

(* The marker event of the new session is appended. *)
AppendMarker(a) ==
  /\ op[a].at = "marker"
  /\ Sessions \ stored # {}
  /\ LET s == CHOOSE s \in Sessions \ stored : TRUE
     IN  /\ stored' = stored \cup {s}
         /\ op' = [op EXCEPT ![a] = At("create", s)]
  /\ UNCHANGED <<manifest, pointer, stamp, reported, todo, bounds>>

(* Mutant of CreateManifest: the pointer is written first. *)
CreatePointer(a) ==
  /\ op[a].at = "create"
  /\ pointer' = op[a].session
  /\ Goes(a, "point")
  /\ UNCHANGED <<manifest, stored, stamp, reported, todo, bounds>>

CreateManifest(a) ==
  LET s == op[a].session
  IN  /\ op[a].at = "create"
      /\ manifest' = [manifest EXCEPT ![s] =
                        [status |-> "open", refs |-> {s}]]
      /\ Goes(a, "point")
      /\ UNCHANGED <<pointer, stored, stamp, reported, todo, bounds>>

WritePointer(a) ==
  /\ op[a].at = "point"
  /\ pointer' = op[a].session
  /\ Done(a)
  /\ UNCHANGED <<manifest, stored, stamp, reported, todo, bounds>>

-----------------------------------------------------------------------------
(* closeSession and rebuildSession *)

(* The sequencer may say interrupted instead, to the same effect.          *)
BeginClose(a, s) ==
  /\ s \in Known
  /\ Command(a)
  /\ op' = [op EXCEPT ![a] = Closing(s, "closed", "idle")]
  /\ UNCHANGED rebuilt

(* Mutant of BeginRebuild: a session without a manifest is rebuilt. *)
RebuildUnknown(a, s) ==
  /\ Command(a)
  /\ op' = [op EXCEPT ![a] = Rebuilding(s)]
  /\ rebuilt' = rebuilt \cup {s}

BeginRebuild(a, s) ==
  /\ s \in Known
  /\ Command(a)
  /\ op' = [op EXCEPT ![a] = Rebuilding(s)]
  /\ rebuilt' = rebuilt \cup {s}

(* The events have been read. *)
Gather(a) ==
  /\ op[a].at \in {"gather", "regather"}
  /\ Holds(a, IF op[a].at = "gather" THEN "save" ELSE "resave",
           op[a].status, Gathered(op[a].session))
  /\ UNCHANGED <<files, todo, bounds>>

(* saveManifest; what has been saved meanwhile is overwritten. *)
Save(a) ==
  /\ \/ op[a].at = "saveOld" /\ Continues(a, "unpointOld")
     \/ op[a].at = "save" /\ Continues(a, "check")
     \/ op[a].at = "resave" /\ a \in Operators /\ Done(a)
     \/ op[a].at = "resave" /\ a = Processor /\ Continues(a, "extract")
  /\ manifest' = [manifest EXCEPT ![op[a].session] =
                    [status |-> op[a].status, refs |-> op[a].refs]]
  /\ UNCHANGED <<pointer, stored, stamp, reported, todo, bounds>>

Closed(a) == op' = [op EXCEPT ![a] = At(op[a].then, NoSession)]

(* getActiveSessionId: only the pointer to the closed session is removed. *)
CheckPointer(a) ==
  /\ op[a].at = "check"
  /\ IF IsActive(op[a].session) THEN Goes(a, "unpoint") ELSE Closed(a)
  /\ UNCHANGED <<files, todo, bounds>>

(* clearActiveSessionPointer, whomever it points to by now. *)
ClearPointer(a) ==
  /\ \/ op[a].at = "unpoint" /\ Closed(a)
     \/ op[a].at = "unpointOld" /\ op' = [op EXCEPT ![a] = At("marker", NoSession)]
  /\ pointer' = NoSession
  /\ UNCHANGED <<manifest, stored, stamp, reported, todo, bounds>>

-----------------------------------------------------------------------------
(* processOnce; consecutive reads are one step where only the last counts *)

BeginPass ==
  /\ op[Processor] = Idle
  /\ todo' = Known
  /\ Goes(Processor, "recover")
  /\ UNCHANGED <<files, bounds>>

(* recoverInterruptedSessions reads the next manifest ... *)
RecoverNext ==
  /\ op[Processor].at = "recover" /\ todo # {}
  /\ \E s \in todo :
       /\ todo' = todo \ {s}
       /\ IF manifest[s].status = "open"
          THEN op' = [op EXCEPT ![Processor] = At("orphan", s)]
          ELSE UNCHANGED op
  /\ UNCHANGED <<files, bounds>>

(* ... and the pointer: an open session that is not the active one is      *)
(* closed as interrupted.                                                  *)
CheckOrphan ==
  LET s == op[Processor].session
  IN  /\ op[Processor].at = "orphan"
      /\ op' = [op EXCEPT ![Processor] =
                  IF IsActive(s) THEN At("recover", NoSession)
                  ELSE Closing(s, "interrupted", "recover")]
      /\ UNCHANGED <<files, todo, bounds>>

(* closeIdleOpenSessions reads the pointer, *)
ReadIdlePointer ==
  /\ op[Processor].at = "recover" /\ todo = {}
  /\ op' = [op EXCEPT ![Processor] =
              IF pointer \in Known THEN At("idleManifest", pointer)
              ELSE At("list", NoSession)]
  /\ UNCHANGED <<files, todo, bounds>>

(* the manifest, *)
ReadIdleManifest ==
  /\ op[Processor].at = "idleManifest"
  /\ IF manifest[op[Processor].session].status = "open" THEN Goes(Processor, "idleEvents")
     ELSE op' = [op EXCEPT ![Processor] = At("list", NoSession)]
  /\ UNCHANGED <<files, todo, bounds>>

(* and, after an await, closes the session if its last event is old. *)
CloseIdle ==
  /\ op[Processor].at = "idleEvents"
  /\ \E then \in {Closing(op[Processor].session, "interrupted", "list"),
                  At("list", NoSession)} :
       op' = [op EXCEPT ![Processor] = then]
  /\ UNCHANGED <<files, todo, bounds>>

ListPending ==
  /\ op[Processor].at = "list"
  /\ todo' = Pending
  /\ Goes(Processor, IF Pending = {} THEN "idle" ELSE "rebuild")
  /\ UNCHANGED <<files, bounds>>

(* Every pending session is rebuilt ... *)
RebuildNext ==
  /\ op[Processor].at = "rebuild"
  /\ \E s \in todo :
       /\ todo' = todo \ {s}
       /\ op' = [op EXCEPT ![Processor] = Rebuilding(s)]
  /\ UNCHANGED <<files, bounds>>

NextOrDone ==
  op' = [op EXCEPT ![Processor] = At(IF todo = {} THEN "idle" ELSE "rebuild", NoSession)]

(* ... and read again by extractFromSession, which refuses an open one. *)
ReadExtracted ==
  /\ op[Processor].at = "extract"
  /\ IF manifest[op[Processor].session].status = "open"
     THEN NextOrDone
     ELSE Goes(Processor, "report")
  /\ UNCHANGED <<files, todo, bounds>>

SaveReport ==
  /\ op[Processor].at = "report"
  /\ reported' = reported \cup {op[Processor].session}
  /\ NextOrDone
  /\ UNCHANGED <<manifest, pointer, stored, stamp, todo, bounds>>

-----------------------------------------------------------------------------
(* Recorders, and processes that die *)

(* buildBaseEvent stamps the event with the active session ... *)
Capture(e) ==
  /\ stamp[e] = "none" /\ pointer # NoSession
  /\ stamp' = [stamp EXCEPT ![e] = pointer]
  /\ UNCHANGED <<manifest, pointer, stored, reported, op, todo, bounds>>

(* ... and the file follows later, or never. *)
StoreEvent(e) ==
  /\ stamp[e] # "none" /\ e \notin stored
  /\ stored' = stored \cup {e}
  /\ UNCHANGED <<manifest, pointer, stamp, reported, op, todo, bounds>>

Kill(a) ==
  /\ op[a] # Idle
  /\ crashes < MaxCrashes /\ crashes' = crashes + 1
  /\ Done(a)
  /\ todo' = IF a = Processor THEN {} ELSE todo
  /\ UNCHANGED <<files, rebuilt, commands>>

-----------------------------------------------------------------------------
StartStep(a) ==
  \/ ReadOld(a) \/ AppendMarker(a) \/ CreateManifest(a) \/ WritePointer(a)

SessionStep(a) ==
  \/ Gather(a) \/ Save(a) \/ CheckPointer(a) \/ ClearPointer(a)

ProcessorStep ==
  \/ BeginPass \/ RecoverNext \/ CheckOrphan
  \/ ReadIdlePointer \/ ReadIdleManifest \/ CloseIdle
  \/ ListPending \/ RebuildNext \/ ReadExtracted \/ SaveReport

Next ==
  \/ \E a \in Operators :
       BeginStart(a) \/ \E s \in Sessions : BeginClose(a, s) \/ BeginRebuild(a, s)
  \/ \E a \in Actors : StartStep(a) \/ SessionStep(a) \/ Kill(a)
  \/ ProcessorStep
  \/ \E e \in Events : Capture(e) \/ StoreEvent(e)

Spec == Init /\ [][Next]_vars

(* A process that has begun goes on, and the capture worker polls.         *)
Fairness ==
  /\ \A a \in Operators : WF_vars(StartStep(a) \/ SessionStep(a))
  /\ WF_vars(ProcessorStep \/ SessionStep(Processor))

FairSpec == Spec /\ Fairness

-----------------------------------------------------------------------------
(* Properties *)

Places == {"idle", "readOld", "saveOld", "unpointOld", "marker", "create", "point",
           "gather", "regather", "save", "resave", "check", "unpoint",
           "recover", "orphan", "idleManifest", "idleEvents",
           "list", "rebuild", "extract", "report"}

Ops == [at : Places, then : {"idle", "recover", "list"},
        session : Sessions \cup {NoSession}, status : Ended \cup {"none", "open"},
        refs : SUBSET (Sessions \cup Events)]

(* The values of the files and of the processes' registers; in particular  *)
(* nobody is about to save a manifest without a status.                    *)
SessionsTypeOK ==
  /\ manifest \in [Sessions -> [status : Ended \cup {"none", "open"},
                                refs : SUBSET (Sessions \cup Events)]]
  /\ pointer \in Sessions \cup {NoSession}
  /\ stored \subseteq Sessions \cup Events
  /\ stamp \in [Events -> Sessions \cup {"none"}]
  /\ reported \subseteq Sessions /\ todo \subseteq Sessions /\ rebuilt \subseteq Sessions
  /\ commands \in 0..MaxCommands /\ crashes \in 0..MaxCrashes
  /\ op \in [Actors -> Ops]
  /\ \A a \in Actors : op[a].at \in {"saveOld", "save", "resave"} => op[a].status # "none"

(* Wherever a process dies, no file refers to one that is missing: the     *)
(* active session has a manifest, a manifest its marker event and the      *)
(* events it lists, a report its manifest.                                 *)
ReferencesExist ==
  /\ pointer \in Known \cup {NoSession}
  /\ \A s \in Known : s \in stored /\ manifest[s].refs \subseteq stored
  /\ reported \subseteq Known

(* The processor never opens a session that has ended, although it saves   *)
(* manifests it read before an await: only sessions an operator asked to   *)
(* rebuild may come back.                                                  *)
EndedStaysEnded ==
  [][\A s \in Sessions \ rebuilt :
       manifest[s].status \in Ended => manifest'[s].status \in Ended]_vars

(* Once operators have stopped, no session is left behind, whoever was     *)
(* killed: every open session is the active one, and every session that    *)
(* has ended has its report.                                               *)
TidyInTheEnd ==
  <>[](\A s \in Known : s = pointer \/ s \in reported)

=============================================================================
