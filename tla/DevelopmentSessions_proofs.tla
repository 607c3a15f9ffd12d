--------------------- MODULE DevelopmentSessions_proofs ---------------------
(***************************************************************************)
(* What holds of DevelopmentSessions for any sessions, events, operators   *)
(* and bounds: the type invariant, that no file refers to a missing one,   *)
(* that only a rebuild an operator asked for opens a session again, that   *)
(* every command and pass comes to an end, and that an undisturbed pass    *)
(* leaves no session behind.                                               *)
(***************************************************************************)
EXTENDS DevelopmentSessions, FiniteSetTheorems, TLAPS

(* Where a process works on a session that has a manifest. *)
OnKnown == {"point", "readOld", "saveOld", "gather", "regather", "save", "resave",
            "check", "orphan", "idleManifest", "idleEvents", "extract", "report"}

(* What a process is about to write refers to files that exist already. *)
OpsSound ==
  /\ \A a \in Actors :
       /\ op[a].refs \subseteq stored
       /\ op[a].at \in OnKnown => op[a].session \in Known
       /\ op[a].at = "create" => op[a].session \in stored \ Known
  /\ todo \subseteq Known
  /\ Known \subseteq Sessions

(* Two starts that are under way have drawn different ids. *)
StartsDiffer ==
  \A a, b \in Actors :
    op[a].at = "create" /\ op[b].at = "create" /\ op[a].session = op[b].session => a = b

(* Closing saves an end; rebuilding saves an open session only if an       *)
(* operator has asked for it, the processor having listed ended ones.      *)
OpensRebuiltOnly ==
  /\ \A a \in Actors :
       /\ op[a].at \in {"saveOld", "gather", "save"} => op[a].status \in Ended
       /\ op[a].at \in {"regather", "resave"} =>
            \/ op[a].status \in Ended
            \/ op[a].status = "open" /\ op[a].session \in rebuilt
  /\ op[Processor].at \in {"rebuild", "regather", "resave", "extract", "report"} =>
       \A s \in todo : manifest[s].status \in Ended \/ s \in rebuilt

FilesInv == SessionsTypeOK /\ ReferencesExist /\ OpsSound

SInv == FilesInv /\ StartsDiffer /\ OpensRebuiltOnly

-----------------------------------------------------------------------------
(* Lemmas *)

(* The registers of a process that does nothing. *)
LEMMA IdleType == Idle \in Ops /\ Processor \in Actors
  BY SessionsAssumption DEF Idle, Ops, Places, Actors

(* The registers of a process that turns to session s. *)
LEMMA AtType ==
  ASSUME NEW at \in Places, NEW s \in Sessions \cup {NoSession}
  PROVE  /\ At(at, s) \in Ops /\ At(at, s).at = at /\ At(at, s).session = s
         /\ At(at, s).then = "idle" /\ At(at, s).status = "none" /\ At(at, s).refs = {}
  BY DEF At, Idle, Ops

(* A process that only reads, and goes on as o. *)
LEMMA Reading ==
  ASSUME SInv, UNCHANGED files,
         NEW a \in Actors, NEW o \in Ops, op' = [op EXCEPT ![a] = o],
         o.refs \subseteq stored, o.at # "create",
         o.at \in OnKnown => o.session \in Known,
         o.at \in {"saveOld", "gather", "save"} => o.status \in Ended,
         o.at \in {"regather", "resave"} =>
           \/ o.status \in Ended
           \/ o.status = "open" /\ o.session \in rebuilt',
         rebuilt \subseteq rebuilt', rebuilt' \subseteq Sessions,
         commands' \in 0 .. MaxCommands, crashes' \in 0 .. MaxCrashes,
         todo' \subseteq Known, todo' = todo \/ a = Processor,
         a = Processor /\ o.at \in {"rebuild", "regather", "resave", "extract", "report"} =>
           \A s \in todo' : manifest[s].status \in Ended \/ s \in rebuilt'
  PROVE  SInv'
<1>1. /\ manifest' = manifest /\ pointer' = pointer /\ stored' = stored
      /\ stamp' = stamp /\ reported' = reported /\ Known' = Known
  BY DEF files, Known
<1>2. op \in [Actors -> Ops] /\ op' \in [Actors -> Ops] /\ op'[a] = o
      /\ \A b \in Actors \ {a} : op'[b] = op[b]
  BY DEF SInv, FilesInv, SessionsTypeOK
<1>3. SessionsTypeOK'
  <2>1. \A b \in Actors : op'[b].at \in {"saveOld", "save", "resave"} => op'[b].status # "none"
    BY <1>2 DEF SInv, FilesInv, SessionsTypeOK, Ended
  <2> QED
    BY <1>1, <1>2, <2>1 DEF SInv, FilesInv, SessionsTypeOK, OpsSound
<1>4. ReferencesExist'
  BY <1>1 DEF SInv, FilesInv, ReferencesExist
<1>5. OpsSound'
  BY <1>1, <1>2 DEF SInv, FilesInv, OpsSound
<1>6. StartsDiffer'
  BY <1>2 DEF SInv, StartsDiffer
<1>7. OpensRebuiltOnly'
  <2>1. ASSUME NEW b \in Actors
        PROVE  /\ op'[b].at \in {"saveOld", "gather", "save"} => op'[b].status \in Ended
               /\ op'[b].at \in {"regather", "resave"} =>
                    \/ op'[b].status \in Ended
                    \/ op'[b].status = "open" /\ op'[b].session \in rebuilt'
    BY <1>2 DEF SInv, OpensRebuiltOnly
  <2>2. ASSUME op'[Processor].at \in {"rebuild", "regather", "resave", "extract", "report"},
               NEW s \in todo'
        PROVE  manifest'[s].status \in Ended \/ s \in rebuilt'
    BY <1>1, <1>2, <2>2, IdleType DEF SInv, OpensRebuiltOnly
  <2> QED
    BY <2>1, <2>2 DEF OpensRebuiltOnly
<1> QED
  BY <1>3, <1>4, <1>5, <1>6, <1>7 DEF SInv, FilesInv

(* What the invariant says of one process. *)
LEMMA OneProcess ==
  ASSUME SInv, NEW a \in Actors
  PROVE  /\ op[a] \in Ops /\ op[a].refs \subseteq stored
         /\ op[a] = [at |-> op[a].at, then |-> op[a].then, session |-> op[a].session,
                     status |-> op[a].status, refs |-> op[a].refs]
         /\ op[a].at \in OnKnown => op[a].session \in Known
         /\ Known \subseteq Sessions /\ todo \subseteq Known /\ rebuilt \subseteq Sessions
         /\ commands \in 0 .. MaxCommands /\ crashes \in 0 .. MaxCrashes
         /\ \A s \in Known : manifest[s].status \in Ended \cup {"open"}
                             /\ manifest[s].refs \subseteq stored
  BY DEF SInv, FilesInv, SessionsTypeOK, ReferencesExist, OpsSound, Ops, Known

-----------------------------------------------------------------------------
(* The inductive invariant: one lemma per group of actions *)

(* The invariant holds at first. *)
LEMMA InitSInv == Init => SInv
<1> SUFFICES ASSUME Init PROVE SInv
  OBVIOUS
<1>1. Known = {}
  BY DEF Init, Known, NoManifest
<1>2. \A a \in Actors : op[a] = Idle
  BY DEF Init
<1>3. SessionsTypeOK
  BY <1>2, IdleType, SessionsAssumption
     DEF Init, SessionsTypeOK, NoManifest, Ended, Idle
<1>4. ReferencesExist
  BY <1>1 DEF Init, ReferencesExist
<1>5. OpsSound /\ StartsDiffer /\ OpensRebuiltOnly
  BY <1>1, <1>2, IdleType DEF Init, OpsSound, StartsDiffer, OpensRebuiltOnly, Idle, OnKnown
<1> QED
  BY <1>3, <1>4, <1>5 DEF SInv, FilesInv

(* What every command of an operator leaves alone. *)
LEMMA CommandFacts ==
  ASSUME SInv, NEW a \in Operators, Command(a)
  PROVE  /\ a \in Actors /\ a # Processor /\ op[a] = Idle
         /\ commands' \in 0 .. MaxCommands /\ crashes' \in 0 .. MaxCrashes
         /\ UNCHANGED <<files, todo>>
  BY SessionsAssumption DEF Command, Actors, SInv, FilesInv, SessionsTypeOK

(* The three commands of operators. *)
LEMMA CommandsSInv ==
  ASSUME SInv, NEW a \in Operators,
         BeginStart(a) \/ \E s \in Sessions : BeginClose(a, s) \/ BeginRebuild(a, s)
  PROVE  SInv'
<1>1. Command(a)
  BY DEF BeginStart, BeginClose, BeginRebuild
<1>2. a \in Actors /\ a # Processor
  BY <1>1, CommandFacts
<1>3. rebuilt \subseteq Sessions /\ todo \subseteq Known
  BY <1>2, OneProcess
<1>4. CASE BeginStart(a)
  <2> DEFINE at == IF pointer = NoSession THEN "marker" ELSE "readOld"
             o == At(at, pointer)
  <2>1. op' = [op EXCEPT ![a] = o] /\ rebuilt' = rebuilt
    BY <1>4 DEF BeginStart
  <2>2. o \in Ops /\ o.refs = {} /\ o.session = pointer /\ o.at = at
    <3>1. at \in Places /\ pointer \in Sessions \cup {NoSession}
      BY DEF Places, SInv, FilesInv, SessionsTypeOK
    <3> HIDE DEF at
    <3> QED
      BY <3>1, AtType
  <2>3. o.at \in OnKnown => o.session \in Known
    BY <2>2 DEF OnKnown, SInv, FilesInv, ReferencesExist
  <2> HIDE DEF o
  <2> QED
    BY <1>1, <1>2, <1>3, <2>1, <2>2, <2>3, CommandFacts, Reading
<1>5. ASSUME NEW s \in Sessions, BeginClose(a, s)
      PROVE  SInv'
  <2> DEFINE o == Closing(s, "closed", "idle")
  <2>1. op' = [op EXCEPT ![a] = o] /\ rebuilt' = rebuilt /\ s \in Known
    BY <1>5 DEF BeginClose
  <2>2. o \in Ops /\ o.refs = {} /\ o.session = s /\ o.at = "gather" /\ o.status = "closed"
    BY DEF Closing, Idle, Ops, Places, Ended
  <2> HIDE DEF o
  <2> QED
    BY <1>1, <1>2, <1>3, <2>1, <2>2, CommandFacts, Reading DEF Ended
<1>6. ASSUME NEW s \in Sessions, BeginRebuild(a, s)
      PROVE  SInv'
  <2> DEFINE o == Rebuilding(s)
  <2>1. op' = [op EXCEPT ![a] = o] /\ rebuilt' = rebuilt \cup {s} /\ s \in Known
    BY <1>6 DEF BeginRebuild
  <2>2. manifest[s].status \in Ended \cup {"open"}
    BY <1>2, <2>1, OneProcess
  <2>3. /\ o \in Ops /\ o.refs = {} /\ o.session = s /\ o.at = "regather"
        /\ o.status = manifest[s].status
    BY <2>2 DEF Rebuilding, Idle, Ops, Places
  <2> HIDE DEF o
  <2> QED
    BY <1>1, <1>2, <1>3, <2>1, <2>2, <2>3, CommandFacts, Reading
<1> QED
  BY <1>4, <1>5, <1>6

(* A process changes files, too: it adds to them, leaves sessions ended    *)
(* that nobody asked to rebuild, and goes on as o.                         *)
LEMMA Writing ==
  ASSUME SInv, NEW a \in Actors, NEW o \in Ops, op' = [op EXCEPT ![a] = o],
         UNCHANGED <<stamp, todo, bounds>>,
         manifest' \in [Sessions -> [status : Ended \cup {"none", "open"},
                                     refs : SUBSET (Sessions \cup Events)]],
         pointer' \in Sessions \cup {NoSession}, stored' \subseteq Sessions \cup Events,
         reported' \subseteq Sessions, ReferencesExist',
         stored \subseteq stored', Known \subseteq Known',
         \A s \in Known : manifest[s].status \in Ended =>
                            manifest'[s].status \in Ended \/ s \in rebuilt,
         o.refs \subseteq stored',
         o.at \in OnKnown => o.session \in Known',
         o.at = "create" => o.session \in stored' \ Known',
         \A b \in Actors \ {a} : op[b].at = "create" =>
            op[b].session \notin Known' /\ ~ (o.at = "create" /\ o.session = op[b].session),
         o.at \notin {"saveOld", "gather", "save", "regather", "resave"},
         a = Processor /\ o.at \in {"rebuild", "extract", "report"} =>
           \A s \in todo : manifest[s].status \in Ended \/ s \in rebuilt
  PROVE  SInv'
<1>1. /\ op \in [Actors -> Ops] /\ op' \in [Actors -> Ops] /\ op'[a] = o
      /\ \A b \in Actors \ {a} : op'[b] = op[b]
  BY DEF SInv, FilesInv, SessionsTypeOK
<1>2. todo' = todo /\ rebuilt' = rebuilt /\ commands' = commands /\ crashes' = crashes
      /\ stamp' = stamp
  BY DEF bounds
<1>3. Known' \subseteq Sessions
  BY DEF Known
<1>4. SessionsTypeOK'
  <2>1. \A b \in Actors : op'[b].at \in {"saveOld", "save", "resave"} => op'[b].status # "none"
    BY <1>1 DEF SInv, FilesInv, SessionsTypeOK
  <2> QED
    BY <1>1, <1>2, <2>1 DEF SInv, FilesInv, SessionsTypeOK
<1>5. OpsSound'
  <2>1. ASSUME NEW b \in Actors
        PROVE  /\ op'[b].refs \subseteq stored'
               /\ op'[b].at \in OnKnown => op'[b].session \in Known'
               /\ op'[b].at = "create" => op'[b].session \in stored' \ Known'
    BY <1>1 DEF SInv, FilesInv, OpsSound
  <2> QED
    BY <1>2, <1>3, <2>1 DEF SInv, FilesInv, OpsSound
<1>6. StartsDiffer'
  BY <1>1 DEF SInv, StartsDiffer
<1>7. OpensRebuiltOnly'
  <2>1. ASSUME NEW b \in Actors
        PROVE  /\ op'[b].at \in {"saveOld", "gather", "save"} => op'[b].status \in Ended
               /\ op'[b].at \in {"regather", "resave"} =>
                    \/ op'[b].status \in Ended
                    \/ op'[b].status = "open" /\ op'[b].session \in rebuilt'
    BY <1>1, <1>2 DEF SInv, OpensRebuiltOnly
  <2>2. ASSUME op'[Processor].at \in {"rebuild", "regather", "resave", "extract", "report"},
               NEW s \in todo'
        PROVE  manifest'[s].status \in Ended \/ s \in rebuilt'
    <3>1. s \in Known
      BY <1>2 DEF SInv, FilesInv, OpsSound
    <3>2. manifest[s].status \in Ended \/ s \in rebuilt
      BY <1>1, <1>2, <2>2, IdleType DEF SInv, OpensRebuiltOnly
    <3> QED
      BY <1>2, <3>1, <3>2
  <2> QED
    BY <2>1, <2>2 DEF OpensRebuiltOnly
<1> QED
  BY <1>4, <1>5, <1>6, <1>7 DEF SInv, FilesInv

(* A step of a process that keeps its session, *)
LEMMA HoldsRecord ==
  ASSUME SInv, NEW a \in Actors, NEW at \in Places,
         NEW status \in Ended \cup {"none", "open"}, NEW refs \in SUBSET (Sessions \cup Events),
         Holds(a, at, status, refs)
  PROVE  \E o \in Ops :
           /\ op' = [op EXCEPT ![a] = o] /\ o.at = at /\ o.session = op[a].session
           /\ o.status = status /\ o.refs = refs
<1> DEFINE o == [at |-> at, then |-> op[a].then, session |-> op[a].session,
                 status |-> status, refs |-> refs]
<1>1. o \in Ops
  BY OneProcess DEF Ops
<1> QED
  BY <1>1 DEF Holds

(* and one that only moves on. *)
LEMMA GoesRecord ==
  ASSUME SInv, NEW a \in Actors, NEW at \in Places, Goes(a, at)
  PROVE  \E o \in Ops :
           /\ op' = [op EXCEPT ![a] = o] /\ o.at = at /\ o.session = op[a].session
           /\ o.status = op[a].status /\ o.refs = op[a].refs
<1>1. op[a].status \in Ended \cup {"none", "open"} /\ op[a].refs \in SUBSET (Sessions \cup Events)
  BY OneProcess DEF Ops
<1> QED
  BY <1>1, HoldsRecord DEF Goes

(* Any process that reads a file. *)
LEMMA ReadsSInv ==
  ASSUME SInv, NEW a \in Actors, ReadOld(a) \/ Gather(a) \/ CheckPointer(a)
  PROVE  SInv'
<1>1. UNCHANGED files /\ todo' = todo /\ rebuilt' = rebuilt
      /\ commands' = commands /\ crashes' = crashes
  BY DEF ReadOld, Gather, CheckPointer, bounds
<1>2. op[a].at \in {"readOld", "gather", "regather", "check"} /\ op[a].session \in Known
  BY OneProcess DEF ReadOld, Gather, CheckPointer, OnKnown
<1>3. CASE ReadOld(a)
  <2>1. manifest[op[a].session].refs \subseteq stored /\ stored \subseteq Sessions \cup Events
    BY <1>2, OneProcess DEF SInv, FilesInv, SessionsTypeOK
  <2>2. CASE Holds(a, "saveOld", "interrupted", manifest[op[a].session].refs)
    <3>1. PICK o \in Ops : /\ op' = [op EXCEPT ![a] = o] /\ o.at = "saveOld"
                           /\ o.session = op[a].session /\ o.status = "interrupted"
                           /\ o.refs = manifest[op[a].session].refs
      BY <2>1, <2>2, HoldsRecord DEF Places, Ended
    <3> QED
      BY <1>1, <1>2, <2>1, <3>1, OneProcess, Reading DEF Ended
  <2>3. CASE Goes(a, "unpointOld")
    <3>1. PICK o \in Ops : /\ op' = [op EXCEPT ![a] = o] /\ o.at = "unpointOld"
                           /\ o.refs = op[a].refs
      BY <2>3, GoesRecord DEF Places
    <3> QED
      BY <1>1, <3>1, OneProcess, Reading DEF OnKnown
  <2> QED
    BY <1>3, <2>2, <2>3 DEF ReadOld
<1>4. CASE Gather(a)
  <2> DEFINE at == IF op[a].at = "gather" THEN "save" ELSE "resave"
  <2>1. Gathered(op[a].session) \subseteq stored /\ stored \subseteq Sessions \cup Events
    BY DEF Gathered, SInv, FilesInv, SessionsTypeOK
  <2>2. PICK o \in Ops : /\ op' = [op EXCEPT ![a] = o] /\ o.at = at
                         /\ o.session = op[a].session /\ o.status = op[a].status
                         /\ o.refs = Gathered(op[a].session)
    <3>1. at \in Places /\ op[a].status \in Ended \cup {"none", "open"}
      BY OneProcess DEF Places, Ops
    <3> HIDE DEF at
    <3>2. Holds(a, at, op[a].status, Gathered(op[a].session))
      BY <1>4 DEF Gather, at
    <3> QED
      BY <2>1, <3>1, <3>2, HoldsRecord
  <2>3. /\ op[a].at = "gather" => op[a].status \in Ended
        /\ op[a].at = "regather" =>
             \/ op[a].status \in Ended
             \/ op[a].status = "open" /\ op[a].session \in rebuilt
        /\ a = Processor /\ op[a].at = "regather" =>
             \A s \in todo : manifest[s].status \in Ended \/ s \in rebuilt
    BY DEF SInv, OpensRebuiltOnly
  <2>4. op[a].at \in {"gather", "regather"}
    BY <1>4 DEF Gather
  <2> QED
    BY <1>1, <1>2, <2>1, <2>2, <2>3, <2>4, OneProcess, Reading
<1>5. CASE CheckPointer(a)
  <2>1. CASE Goes(a, "unpoint")
    <3>1. PICK o \in Ops : /\ op' = [op EXCEPT ![a] = o] /\ o.at = "unpoint"
                           /\ o.refs = op[a].refs
      BY <2>1, GoesRecord DEF Places
    <3> QED
      BY <1>1, <3>1, OneProcess, Reading DEF OnKnown
  <2>2. CASE Closed(a)
    <3> DEFINE o == At(op[a].then, NoSession)
    <3>1. op[a].then \in {"idle", "recover", "list"}
      BY OneProcess DEF Ops
    <3>2. o \in Ops /\ o.at = op[a].then /\ o.refs = {}
      BY <3>1, AtType DEF Places
    <3>3. op' = [op EXCEPT ![a] = o]
      BY <2>2 DEF Closed
    <3> HIDE DEF o
    <3> QED
      BY <1>1, <3>1, <3>2, <3>3, OneProcess, Reading DEF OnKnown
  <2> QED
    BY <1>5, <2>1, <2>2 DEF CheckPointer
<1> QED
  BY <1>3, <1>4, <1>5

(* The processor between two passages of its loops. *)
LEMMA ProcessorAt ==
  ASSUME SInv, UNCHANGED <<files, bounds>>,
         NEW at \in {"idle", "recover", "list", "rebuild", "orphan", "idleManifest"},
         NEW s \in Sessions \cup {NoSession},
         op' = [op EXCEPT ![Processor] = At(at, s)],
         at \in {"orphan", "idleManifest"} => s \in Known,
         todo' \subseteq Known,
         at = "rebuild" => \A q \in todo' : manifest[q].status \in Ended \/ q \in rebuilt
  PROVE  SInv'
<1> DEFINE o == At(at, s)
<1>1. o \in Ops /\ o.at = at /\ o.session = s /\ o.refs = {}
  BY AtType DEF Places
<1>2. Processor \in Actors
  BY IdleType
<1> HIDE DEF o
<1>3. op' = [op EXCEPT ![Processor] = o]
  BY DEF o
<1>4. rebuilt' = rebuilt /\ commands' = commands /\ crashes' = crashes
  BY DEF bounds
<1> QED
  BY <1>1, <1>2, <1>3, <1>4, OneProcess, Reading DEF OnKnown

(* The processor's session, closed as interrupted. *)
LEMMA ProcessorCloses ==
  ASSUME SInv, UNCHANGED <<files, todo, bounds>>,
         NEW then \in {"recover", "list"}, NEW s \in Known,
         op' = [op EXCEPT ![Processor] = Closing(s, "interrupted", then)]
  PROVE  SInv'
<1> DEFINE o == Closing(s, "interrupted", then)
<1>1. Known \subseteq Sessions /\ Processor \in Actors
  BY IdleType DEF Known
<1>2. o \in Ops /\ o.refs = {} /\ o.session = s /\ o.at = "gather" /\ o.status = "interrupted"
  BY <1>1 DEF Closing, Idle, Ops, Places, Ended
<1> HIDE DEF o
<1>3. op' = [op EXCEPT ![Processor] = o]
  BY DEF o
<1>4. rebuilt' = rebuilt /\ commands' = commands /\ crashes' = crashes
  BY DEF bounds
<1> QED
  BY <1>1, <1>2, <1>3, <1>4, OneProcess, Reading DEF Ended

(* The reading steps of processOnce. *)
LEMMA ProcessorReadsSInv ==
  ASSUME SInv,
         \/ BeginPass \/ RecoverNext \/ CheckOrphan \/ ReadIdlePointer \/ ReadIdleManifest
         \/ CloseIdle \/ ListPending \/ RebuildNext \/ ReadExtracted
  PROVE  SInv'
<1>1. Processor \in Actors
  BY IdleType
<1>2. /\ todo \subseteq Known /\ Known \subseteq Sessions
      /\ op[Processor].at \in OnKnown => op[Processor].session \in Known
      /\ op[Processor].refs \subseteq stored
      /\ rebuilt \subseteq Sessions
      /\ commands \in 0 .. MaxCommands /\ crashes \in 0 .. MaxCrashes
  BY <1>1, OneProcess
<1>3. NoSession \in Sessions \cup {NoSession}
  OBVIOUS
<1>4. ASSUME UNCHANGED <<files, bounds>>, todo' \subseteq Known,
             NEW at \in {"idle", "recover", "rebuild", "idleEvents", "report"},
             Goes(Processor, at),
             at \in {"idleEvents", "report"} => op[Processor].session \in Known,
             at \in {"rebuild", "report"} =>
               \A q \in todo' : manifest[q].status \in Ended \/ q \in rebuilt
      PROVE  SInv'
  <2>1. PICK o \in Ops : /\ op' = [op EXCEPT ![Processor] = o] /\ o.at = at
                         /\ o.session = op[Processor].session /\ o.refs = op[Processor].refs
    BY <1>1, <1>4, GoesRecord DEF Places
  <2>2. rebuilt' = rebuilt /\ commands' = commands /\ crashes' = crashes
    BY <1>4 DEF bounds
  <2>3. /\ o.at \notin {"create", "saveOld", "gather", "save", "regather", "resave"}
        /\ o.at \in OnKnown => o.session \in Known
    BY <1>2, <1>4, <2>1 DEF OnKnown
  <2>4. o.at \in {"rebuild", "regather", "resave", "extract", "report"} =>
          \A q \in todo' : manifest[q].status \in Ended \/ q \in rebuilt'
    BY <1>4, <2>1, <2>2
  <2>5. /\ o.refs \subseteq stored /\ rebuilt \subseteq rebuilt' /\ rebuilt' \subseteq Sessions
        /\ commands' \in 0 .. MaxCommands /\ crashes' \in 0 .. MaxCrashes
        /\ op' = [op EXCEPT ![Processor] = o]
    BY <1>2, <2>1, <2>2
  <2>6. UNCHANGED files /\ todo' \subseteq Known
    BY <1>4
  <2> QED
    BY <1>1, <2>3, <2>4, <2>5, <2>6, Reading
<1>5. CASE BeginPass
  BY <1>4, <1>5 DEF BeginPass
<1>6. CASE RecoverNext
  <2>1. PICK s \in todo :
          /\ todo' = todo \ {s}
          /\ IF manifest[s].status = "open"
             THEN op' = [op EXCEPT ![Processor] = At("orphan", s)] ELSE UNCHANGED op
    BY <1>6 DEF RecoverNext
  <2>2. UNCHANGED <<files, bounds>> /\ op[Processor].at = "recover"
    BY <1>6 DEF RecoverNext
  <2>3. CASE op' = [op EXCEPT ![Processor] = At("orphan", s)]
    BY <1>2, <2>1, <2>2, <2>3, ProcessorAt
  <2>4. CASE UNCHANGED op
    <3>1. op[Processor] \in Ops /\ op' = [op EXCEPT ![Processor] = op[Processor]]
      BY <1>1, <2>4 DEF SInv, FilesInv, SessionsTypeOK
    <3>2. rebuilt' = rebuilt /\ commands' = commands /\ crashes' = crashes
      BY <2>2 DEF bounds
    <3> QED
      BY <1>1, <1>2, <2>1, <2>2, <3>1, <3>2, Reading DEF OnKnown
  <2> QED
    BY <2>1, <2>3, <2>4
<1>7. CASE CheckOrphan
  <2>1. op[Processor].session \in Known /\ UNCHANGED <<files, todo, bounds>>
    BY <1>2, <1>7 DEF CheckOrphan, OnKnown
  <2>2. CASE op' = [op EXCEPT ![Processor] = At("recover", NoSession)]
    BY <1>2, <1>3, <2>1, <2>2, ProcessorAt
  <2>3. CASE op' = [op EXCEPT ![Processor] = Closing(op[Processor].session, "interrupted", "recover")]
    BY <2>1, <2>3, ProcessorCloses
  <2> QED
    BY <1>7, <2>2, <2>3 DEF CheckOrphan
<1>8. CASE ReadIdlePointer
  <2>1. UNCHANGED <<files, todo, bounds>>
    BY <1>8 DEF ReadIdlePointer
  <2>2. CASE pointer \in Known /\ op' = [op EXCEPT ![Processor] = At("idleManifest", pointer)]
    BY <1>2, <2>1, <2>2, ProcessorAt
  <2>3. CASE op' = [op EXCEPT ![Processor] = At("list", NoSession)]
    BY <1>2, <1>3, <2>1, <2>3, ProcessorAt
  <2> QED
    BY <1>8, <2>2, <2>3 DEF ReadIdlePointer
<1>9. CASE ReadIdleManifest
  <2>1. op[Processor].session \in Known /\ UNCHANGED <<files, todo, bounds>>
    BY <1>2, <1>9 DEF ReadIdleManifest, OnKnown
  <2>2. CASE op' = [op EXCEPT ![Processor] = At("list", NoSession)]
    BY <1>2, <1>3, <2>1, <2>2, ProcessorAt
  <2>3. CASE Goes(Processor, "idleEvents")
    BY <1>2, <1>4, <2>1, <2>3
  <2> QED
    BY <1>9, <2>2, <2>3 DEF ReadIdleManifest
<1>10. CASE CloseIdle
  <2>1. op[Processor].session \in Known /\ UNCHANGED <<files, todo, bounds>>
    BY <1>2, <1>10 DEF CloseIdle, OnKnown
  <2>2. CASE op' = [op EXCEPT ![Processor] = At("list", NoSession)]
    BY <1>2, <1>3, <2>1, <2>2, ProcessorAt
  <2>3. CASE op' = [op EXCEPT ![Processor] = Closing(op[Processor].session, "interrupted", "list")]
    BY <2>1, <2>3, ProcessorCloses
  <2> QED
    BY <1>10, <2>2, <2>3 DEF CloseIdle
<1>11. CASE ListPending
  <2>1. todo' = Pending /\ UNCHANGED <<files, bounds>>
    BY <1>11 DEF ListPending
  <2>2. Pending \subseteq Known /\ \A q \in Pending : manifest[q].status \in Ended
    BY DEF Pending
  <2>3. Goes(Processor, "idle") \/ Goes(Processor, "rebuild")
    BY <1>11 DEF ListPending
  <2> QED
    BY <1>4, <2>1, <2>2, <2>3
<1>12. CASE RebuildNext
  <2>1. PICK s \in todo : /\ todo' = todo \ {s}
                          /\ op' = [op EXCEPT ![Processor] = Rebuilding(s)]
    BY <1>12 DEF RebuildNext
  <2>2. UNCHANGED <<files, bounds>> /\ op[Processor].at = "rebuild"
    BY <1>12 DEF RebuildNext
  <2>3. rebuilt' = rebuilt /\ commands' = commands /\ crashes' = crashes
    BY <2>2 DEF bounds
  <2>4. \A q \in todo : manifest[q].status \in Ended \/ q \in rebuilt
    BY <2>2 DEF SInv, OpensRebuiltOnly
  <2>5. manifest[s].status \in Ended \cup {"open"} /\ s \in Known /\ s \in Sessions
    BY <1>1, <1>2, OneProcess
  <2> DEFINE o == Rebuilding(s)
  <2>6. /\ o \in Ops /\ o.refs = {} /\ o.session = s /\ o.at = "regather"
        /\ o.status = manifest[s].status
    BY <2>5 DEF Rebuilding, Idle, Ops, Places
  <2> HIDE DEF o
  <2>7. op' = [op EXCEPT ![Processor] = o]
    BY <2>1 DEF o
  <2> QED
    BY <1>1, <1>2, <2>1, <2>2, <2>3, <2>4, <2>5, <2>6, <2>7, Reading
<1>13. CASE ReadExtracted
  <2>1. op[Processor].session \in Known /\ UNCHANGED <<files, todo, bounds>>
        /\ op[Processor].at = "extract"
    BY <1>2, <1>13 DEF ReadExtracted, OnKnown
  <2>2. \A q \in todo : manifest[q].status \in Ended \/ q \in rebuilt
    BY <2>1 DEF SInv, OpensRebuiltOnly
  <2>3. CASE NextOrDone
    <3>1. \E at \in {"idle", "rebuild"} : op' = [op EXCEPT ![Processor] = At(at, NoSession)]
      BY <2>3 DEF NextOrDone
    <3> QED
      BY <1>2, <1>3, <2>1, <2>2, <3>1, ProcessorAt
  <2>4. CASE Goes(Processor, "report")
    BY <1>2, <1>4, <2>1, <2>2, <2>4
  <2> QED
    BY <1>13, <2>3, <2>4 DEF ReadExtracted
<1> QED
  BY <1>5, <1>6, <1>7, <1>8, <1>9, <1>10, <1>11, <1>12, <1>13

(* Marker, manifest and pointer of a new session, in this order. *)
LEMMA StartSInv ==
  ASSUME SInv, NEW a \in Actors, AppendMarker(a) \/ CreateManifest(a) \/ WritePointer(a)
  PROVE  SInv'
<1> USE DEF SessionsTypeOK, FilesInv
<1>1. CASE AppendMarker(a)
  <2> DEFINE s == CHOOSE s \in Sessions \ stored : TRUE
             o == At("create", s)
  <2>1. s \in Sessions \ stored
    BY <1>1 DEF AppendMarker
  <2>2. stored' = stored \cup {s} /\ op' = [op EXCEPT ![a] = o]
    BY <1>1 DEF AppendMarker
  <2> HIDE DEF s
  <2>3. o \in Ops /\ o.refs = {} /\ o.session = s /\ o.at = "create"
    BY <2>1, AtType DEF Places
  <2> HIDE DEF o
  <2>4. UNCHANGED <<manifest, pointer, stamp, reported, todo, bounds>> /\ Known' = Known
    BY <1>1 DEF AppendMarker, Known
  <2>5. s \notin Known
    BY <2>1 DEF SInv, ReferencesExist
  <2>6. ReferencesExist'
    BY <2>2, <2>4 DEF SInv, ReferencesExist
  <2>7. \A b \in Actors \ {a} : op[b].at = "create" => op[b].session \in stored \ Known
    BY DEF SInv, OpsSound
  <2>8. /\ manifest' \in [Sessions -> [status : Ended \cup {"none", "open"},
                                       refs : SUBSET (Sessions \cup Events)]]
        /\ pointer' \in Sessions \cup {NoSession} /\ stored' \subseteq Sessions \cup Events
        /\ reported' \subseteq Sessions
    BY <2>1, <2>2, <2>4 DEF SInv
  <2>9. \A q \in Known : manifest'[q] = manifest[q]
    BY <2>4
  <2>10. /\ o.at = "create" => o.session \in stored' \ Known'
         /\ o.at \notin {"saveOld", "gather", "save", "regather", "resave", "rebuild", "extract", "report"}
         /\ o.at \in OnKnown => o.session \in Known' /\ o.refs \subseteq stored'
    BY <2>2, <2>3, <2>4, <2>5 DEF OnKnown
  <2>11. \A b \in Actors \ {a} : op[b].at = "create" =>
            op[b].session \notin Known' /\ ~ (o.at = "create" /\ o.session = op[b].session)
    BY <2>1, <2>3, <2>4, <2>7
  <2>12. o.refs \subseteq stored' /\ stored \subseteq stored' /\ Known \subseteq Known'
    BY <2>2, <2>3, <2>4
  <2>13. UNCHANGED <<stamp, todo, bounds>> /\ op' = [op EXCEPT ![a] = o] /\ o \in Ops
    BY <2>2, <2>3, <2>4
  <2>14. \A q \in Known : manifest[q].status \in Ended =>
                            manifest'[q].status \in Ended \/ q \in rebuilt
    BY <2>9
  <2> QED
    BY <2>6, <2>8, <2>10, <2>11, <2>12, <2>13, <2>14, Writing
<1>2. CASE CreateManifest(a)
  <2> DEFINE s == op[a].session
  <2>1. /\ op[a].at = "create"
        /\ manifest' = [manifest EXCEPT ![s] = [status |-> "open", refs |-> {s}]]
        /\ Goes(a, "point") /\ UNCHANGED <<pointer, stored, stamp, reported, todo, bounds>>
    BY <1>2 DEF CreateManifest
  <2>2. s \in stored \ Known /\ s \in Sessions \cup {NoSession}
    BY <2>1, OneProcess DEF SInv, OpsSound, Ops
  <2>3. s \in Sessions
    BY <2>2, SessionsAssumption DEF SInv
  <2>4. Known' = Known \cup {s}
    BY <2>1, <2>3 DEF Known, SInv
  <2>5. PICK o \in Ops : /\ op' = [op EXCEPT ![a] = o] /\ o.at = "point"
                         /\ o.session = s /\ o.refs = op[a].refs
    BY <2>1, GoesRecord DEF Places
  <2>6. \A q \in Known : q # s /\ manifest'[q] = manifest[q]
    BY <2>1, <2>2 DEF SInv, Known
  <2>7. manifest'[s].refs = {s} /\ manifest'[s].status = "open"
    BY <2>1, <2>3 DEF SInv
  <2>8. ReferencesExist'
    BY <2>1, <2>2, <2>4, <2>6, <2>7 DEF SInv, ReferencesExist
  <2>9. manifest' \in [Sessions -> [status : Ended \cup {"none", "open"},
                                    refs : SUBSET (Sessions \cup Events)]]
    BY <2>1, <2>3 DEF SInv
  <2>10. \A b \in Actors \ {a} : op[b].at = "create" => op[b].session \notin Known'
    BY <2>1, <2>4 DEF SInv, OpsSound, StartsDiffer
  <2>11. op[a].refs \subseteq stored
    BY OneProcess
  <2> HIDE DEF s
  <2> QED
    BY <2>1, <2>4, <2>5, <2>6, <2>8, <2>9, <2>10, <2>11, Writing DEF SInv
<1>3. CASE WritePointer(a)
  <2>1. /\ op[a].at = "point" /\ pointer' = op[a].session
        /\ op' = [op EXCEPT ![a] = Idle]
        /\ UNCHANGED <<manifest, stored, stamp, reported, todo, bounds>> /\ Known' = Known
    BY <1>3 DEF WritePointer, Done, Known
  <2>2. op[a].session \in Known /\ Known \subseteq Sessions
    BY <2>1, OneProcess DEF OnKnown
  <2>3. Idle \in Ops /\ Idle.refs = {} /\ Idle.at = "idle"
    BY IdleType DEF Idle
  <2>4. ReferencesExist'
    BY <2>1, <2>2 DEF SInv, ReferencesExist
  <2>5. \A b \in Actors \ {a} : op[b].at = "create" => op[b].session \notin Known
    BY DEF SInv, OpsSound
  <2>6. \A q \in Known : manifest'[q] = manifest[q]
    BY <2>1
  <2> QED
    BY <2>1, <2>2, <2>3, <2>4, <2>5, <2>6, Writing DEF SInv, OnKnown
<1> QED
  BY <1>1, <1>2, <1>3

(* Removing the pointer. *)
LEMMA ClearSInv ==
  ASSUME SInv, NEW a \in Actors, ClearPointer(a)
  PROVE  SInv'
<1> USE DEF SessionsTypeOK, FilesInv
<1>1. /\ pointer' = NoSession
      /\ UNCHANGED <<manifest, stored, stamp, reported, todo, bounds>> /\ Known' = Known
  BY DEF ClearPointer, Known
<1>2. PICK at \in {"idle", "recover", "list", "marker"} :
        op' = [op EXCEPT ![a] = At(at, NoSession)]
  BY OneProcess DEF ClearPointer, Closed, Ops
<1> DEFINE o == At(at, NoSession)
<1>3. o \in Ops /\ o.refs = {} /\ o.at = at
  BY AtType DEF Places
<1> HIDE DEF o
<1>4. op' = [op EXCEPT ![a] = o]
  BY <1>2 DEF o
<1>5. ReferencesExist'
  BY <1>1 DEF SInv, ReferencesExist
<1>6. \A b \in Actors \ {a} : op[b].at = "create" => op[b].session \notin Known
  BY DEF SInv, OpsSound
<1>7. \A q \in Known : manifest'[q] = manifest[q]
  BY <1>1
<1> QED
  BY <1>1, <1>3, <1>4, <1>5, <1>6, <1>7, Writing DEF SInv, OnKnown

(* The report of the processor. *)
LEMMA ReportSInv ==
  ASSUME SInv, SaveReport
  PROVE  SInv'
<1> USE DEF SessionsTypeOK, FilesInv
<1>1. /\ op[Processor].at = "report" /\ reported' = reported \cup {op[Processor].session}
      /\ UNCHANGED <<manifest, pointer, stored, stamp, todo, bounds>> /\ Known' = Known
  BY DEF SaveReport, Known
<1>2. Processor \in Actors /\ op[Processor].session \in Known /\ Known \subseteq Sessions
  BY <1>1, IdleType, OneProcess DEF OnKnown
<1>3. PICK at \in {"idle", "rebuild"} : op' = [op EXCEPT ![Processor] = At(at, NoSession)]
  BY DEF SaveReport, NextOrDone
<1> DEFINE o == At(at, NoSession)
<1>4. o \in Ops /\ o.refs = {} /\ o.at = at
  BY AtType DEF Places
<1> HIDE DEF o
<1>5. op' = [op EXCEPT ![Processor] = o]
  BY <1>3 DEF o
<1>6. ReferencesExist'
  BY <1>1, <1>2 DEF SInv, ReferencesExist
<1>7. \A b \in Actors \ {Processor} : op[b].at = "create" => op[b].session \notin Known
  BY DEF SInv, OpsSound
<1>8. \A q \in todo : manifest[q].status \in Ended \/ q \in rebuilt
  BY <1>1 DEF SInv, OpensRebuiltOnly
<1>9. \A q \in Known : manifest'[q] = manifest[q]
  BY <1>1
<1> QED
  BY <1>1, <1>2, <1>4, <1>5, <1>6, <1>7, <1>8, <1>9, Writing DEF SInv, OnKnown

(* A manifest is saved again: it has had its marker, and lists stored      *)
(* events; it ends a session or is one that an operator asked for.         *)
LEMMA SavedFacts ==
  ASSUME SInv, NEW a \in Actors, Save(a)
  PROVE  /\ op[a].session \in Known
         /\ op[a].refs \subseteq stored
         /\ \/ op[a].status \in Ended
            \/ op[a].status = "open" /\ op[a].session \in rebuilt
         /\ manifest' = [manifest EXCEPT ![op[a].session] =
                           [status |-> op[a].status, refs |-> op[a].refs]]
         /\ UNCHANGED <<pointer, stored, stamp, reported, todo, bounds>>
<1>1. op[a].at \in {"saveOld", "save", "resave"}
  BY DEF Save
<1>2. op[a].session \in Known /\ op[a].refs \subseteq stored
  BY <1>1, OneProcess DEF OnKnown
<1>3. op[a].status \in Ended \/ (op[a].status = "open" /\ op[a].session \in rebuilt)
  BY <1>1 DEF SInv, OpensRebuiltOnly
<1> QED
  BY <1>2, <1>3 DEF Save

(* saveManifest preserves the invariant. *)
LEMMA SaveSInv ==
  ASSUME SInv, NEW a \in Actors, Save(a)
  PROVE  SInv'
<1> USE DEF SessionsTypeOK, FilesInv
<1> DEFINE s == op[a].session
           saved == [status |-> op[a].status, refs |-> op[a].refs]
<1>1. /\ s \in Known /\ op[a].refs \subseteq stored
      /\ op[a].status \in Ended \/ (op[a].status = "open" /\ s \in rebuilt)
      /\ manifest' = [manifest EXCEPT ![s] = saved]
      /\ UNCHANGED <<pointer, stored, stamp, reported, todo, bounds>>
  BY SavedFacts
<1>2. Known \subseteq Sessions /\ s \in Sessions
  BY <1>1 DEF Known
<1>3. manifest'[s] = saved /\ \A q \in Sessions \ {s} : manifest'[q] = manifest[q]
  BY <1>1, <1>2 DEF SInv
<1>4. saved.status # "none" /\ saved.refs = op[a].refs
  BY <1>1 DEF Ended
<1>5. Known' = Known
  BY <1>1, <1>2, <1>3, <1>4 DEF Known
<1>6. ReferencesExist'
  BY <1>1, <1>2, <1>3, <1>4, <1>5 DEF SInv, ReferencesExist
<1>7. manifest' \in [Sessions -> [status : Ended \cup {"none", "open"},
                                  refs : SUBSET (Sessions \cup Events)]]
  <2>1. saved \in [status : Ended \cup {"none", "open"}, refs : SUBSET (Sessions \cup Events)]
    BY <1>1 DEF SInv
  <2> QED
    BY <1>1, <2>1 DEF SInv
<1>8. \A b \in Actors \ {a} : op[b].at = "create" => op[b].session \notin Known
  BY DEF SInv, OpsSound
<1>9. \A q \in Known : manifest[q].status \in Ended =>
                          manifest'[q].status \in Ended \/ q \in rebuilt
  BY <1>1, <1>2, <1>3
<1>10. \E o \in Ops :
         /\ op' = [op EXCEPT ![a] = o] /\ o.refs = {}
         /\ \/ o = Idle
            \/ o.at \in {"unpointOld", "check", "extract"} /\ o.session = s
         /\ o.at = "extract" => op[a].at = "resave" /\ a = Processor
  <2>1. CASE Done(a)
    BY <2>1, IdleType DEF Done, Idle
  <2>2. ASSUME NEW at \in {"unpointOld", "check", "extract"}, Continues(a, at)
        PROVE  \E o \in Ops : /\ op' = [op EXCEPT ![a] = o] /\ o.refs = {}
                               /\ o.at = at /\ o.session = s
    BY <2>2, HoldsRecord DEF Continues, Places
  <2> HIDE DEF s
  <2> QED
    BY <2>1, <2>2 DEF Save
<1>11. PICK o \in Ops :
         /\ op' = [op EXCEPT ![a] = o] /\ o.refs = {}
         /\ \/ o = Idle
            \/ o.at \in {"unpointOld", "check", "extract"} /\ o.session = s
         /\ o.at = "extract" => op[a].at = "resave" /\ a = Processor
  BY <1>10
<1>12. o.at \in {"idle", "unpointOld", "check", "extract"} /\ (o.at # "idle" => o.session = s)
  BY <1>11 DEF Idle
<1>13. a = Processor /\ o.at = "extract" =>
         \A q \in todo : manifest[q].status \in Ended \/ q \in rebuilt
  BY <1>11 DEF SInv, OpensRebuiltOnly
<1>14. o.at \in OnKnown => o.session \in Known'
  BY <1>1, <1>5, <1>12 DEF OnKnown
<1>15. /\ pointer' \in Sessions \cup {NoSession} /\ stored' \subseteq Sessions \cup Events
       /\ reported' \subseteq Sessions
  BY <1>1 DEF SInv
<1>16. op' = [op EXCEPT ![a] = o] /\ o.refs \subseteq stored'
       /\ stored \subseteq stored' /\ Known \subseteq Known'
       /\ UNCHANGED <<stamp, todo, bounds>>
  BY <1>1, <1>5, <1>11
<1> HIDE DEF s, saved, SessionsTypeOK, FilesInv
<1> QED
  BY <1>5, <1>6, <1>7, <1>8, <1>9, <1>12, <1>13, <1>14, <1>15, <1>16, Writing

(* Recorders only add. *)
LEMMA RecordersSInv ==
  ASSUME SInv, NEW e \in Events, Capture(e) \/ StoreEvent(e)
  PROVE  SInv'
<1> USE DEF SessionsTypeOK, FilesInv
<1>1. /\ UNCHANGED <<manifest, pointer, reported, op, todo, bounds>>
      /\ stored \subseteq stored' /\ stored' \subseteq stored \cup {e}
      /\ stamp' = stamp \/ (pointer # NoSession /\ stamp' = [stamp EXCEPT ![e] = pointer])
  BY DEF Capture, StoreEvent
<1>2. Known' = Known /\ rebuilt' = rebuilt /\ commands' = commands /\ crashes' = crashes
  BY <1>1 DEF Known, bounds
<1>3. SessionsTypeOK'
  BY <1>1, <1>2 DEF SInv
<1>4. ReferencesExist'
  BY <1>1, <1>2 DEF SInv, ReferencesExist
<1>5. OpsSound'
  BY <1>1, <1>2 DEF SInv, OpsSound
<1>6. StartsDiffer' /\ OpensRebuiltOnly'
  BY <1>1, <1>2 DEF SInv, StartsDiffer, OpensRebuiltOnly
<1> QED
  BY <1>3, <1>4, <1>5, <1>6 DEF SInv

(* So does a process that dies. *)
LEMMA KillSInv ==
  ASSUME SInv, NEW a \in Actors, Kill(a)
  PROVE  SInv'
<1>1. /\ op' = [op EXCEPT ![a] = Idle] /\ UNCHANGED files /\ rebuilt' = rebuilt
      /\ commands' = commands /\ crashes < MaxCrashes /\ crashes' = crashes + 1
      /\ todo' = IF a = Processor THEN {} ELSE todo
  BY DEF Kill, Done
<1>2. Idle \in Ops /\ Idle.refs = {} /\ Idle.at = "idle"
  BY IdleType DEF Idle
<1>3. /\ todo \subseteq Known /\ rebuilt \subseteq Sessions
      /\ commands \in 0 .. MaxCommands /\ crashes \in 0 .. MaxCrashes
  BY OneProcess
<1>4. crashes' \in 0 .. MaxCrashes
  BY <1>1, <1>3, SessionsAssumption
<1> QED
  BY <1>1, <1>2, <1>3, <1>4, Reading DEF OnKnown

(* Every step preserves the invariant. *)
LEMMA NextSInv ==
  ASSUME SInv, [Next]_vars
  PROVE  SInv'
<1>1. ASSUME NEW a \in Operators,
             BeginStart(a) \/ \E s \in Sessions : BeginClose(a, s) \/ BeginRebuild(a, s)
      PROVE  SInv'
  BY <1>1, CommandsSInv
<1>2. ASSUME NEW a \in Actors, StartStep(a) PROVE SInv'
  BY <1>2, StartSInv, ReadsSInv DEF StartStep
<1>3. ASSUME NEW a \in Actors, SessionStep(a) PROVE SInv'
  BY <1>3, SaveSInv, ClearSInv, ReadsSInv DEF SessionStep
<1>4. ASSUME NEW a \in Actors, Kill(a) PROVE SInv'
  BY <1>4, KillSInv
<1>5. CASE ProcessorStep
  BY <1>5, ProcessorReadsSInv, ReportSInv DEF ProcessorStep
<1>6. ASSUME NEW e \in Events, Capture(e) \/ StoreEvent(e) PROVE SInv'
  BY <1>6, RecordersSInv
<1>7. CASE UNCHANGED vars
  BY <1>7 DEF vars, files, bounds, SInv, FilesInv, SessionsTypeOK, ReferencesExist, Known,
              OpsSound, StartsDiffer, OpensRebuiltOnly
<1> QED
  BY <1>1, <1>2, <1>3, <1>4, <1>5, <1>6, <1>7 DEF Next

(* The invariant holds in every state of every behaviour. *)
THEOREM SpecSInv == Spec => []SInv
<1>1. Init => SInv
  BY InitSInv
<1>2. SInv /\ [Next]_vars => SInv'
  BY NextSInv
<1> QED
  BY <1>1, <1>2, PTL DEF Spec

-----------------------------------------------------------------------------
(* Theorems *)

(* The files and the registers keep their types, whoever is killed where;  *)
(* in particular no process saves a manifest without a status.             *)
THEOREM SessionsTypeCorrect == Spec => []SessionsTypeOK
<1>1. SInv => SessionsTypeOK
  BY DEF SInv, FilesInv
<1> QED
  BY <1>1, SpecSInv, PTL

(* No file ever refers to one that does not exist, for any number of       *)
(* processes that start, close and rebuild sessions and die anywhere.      *)
THEOREM ReferencesAlwaysExist == Spec => []ReferencesExist
<1>1. SInv => ReferencesExist
  BY DEF SInv, FilesInv
<1> QED
  BY <1>1, SpecSInv, PTL

(* A step that saves a manifest of a session that has ended. *)
LEMMA StepKeepsEnded ==
  ASSUME SInv, [Next]_vars, NEW s \in Sessions \ rebuilt, manifest[s].status \in Ended
  PROVE  manifest'[s].status \in Ended
<1>1. s \in Known
  BY DEF Known, Ended
<1>2. CASE manifest' = manifest
  BY <1>2
<1>3. ASSUME NEW a \in Actors, CreateManifest(a) PROVE manifest'[s].status \in Ended
  <2>1. op[a].session \notin Known
    BY <1>3 DEF CreateManifest, SInv, FilesInv, OpsSound
  <2> QED
    BY <1>1, <1>3, <2>1 DEF CreateManifest, SInv, FilesInv, SessionsTypeOK
<1>4. ASSUME NEW a \in Actors, Save(a) PROVE manifest'[s].status \in Ended
  <2>1. op[a].session # s \/ op[a].status \in Ended
    BY <1>4, SavedFacts
  <2>2. manifest' = [manifest EXCEPT ![op[a].session] =
                      [status |-> op[a].status, refs |-> op[a].refs]]
    BY <1>4, SavedFacts
  <2> QED
    BY <2>1, <2>2 DEF SInv, FilesInv, SessionsTypeOK
<1>5. ASSUME NEW a \in Actors, StartStep(a) \/ SessionStep(a) \/ Kill(a), ~ CreateManifest(a), ~ Save(a)
      PROVE  manifest' = manifest
  BY <1>5 DEF StartStep, SessionStep, ReadOld, AppendMarker, WritePointer, Gather, CheckPointer,
              ClearPointer, Kill, files
<1>6. ASSUME NEW a \in Operators,
             BeginStart(a) \/ \E q \in Sessions : BeginClose(a, q) \/ BeginRebuild(a, q)
      PROVE  manifest' = manifest
  BY <1>6 DEF BeginStart, BeginClose, BeginRebuild, Command, files
<1>7. CASE ProcessorStep
  BY <1>2, <1>7 DEF ProcessorStep, BeginPass, RecoverNext, CheckOrphan, ReadIdlePointer,
              ReadIdleManifest, CloseIdle, ListPending, RebuildNext, ReadExtracted, SaveReport, files
<1>8. ASSUME NEW e \in Events, Capture(e) \/ StoreEvent(e) PROVE manifest' = manifest
  BY <1>8 DEF Capture, StoreEvent
<1>9. CASE UNCHANGED vars
  BY <1>2, <1>9 DEF vars, files
<1> QED
  BY <1>2, <1>3, <1>4, <1>5, <1>6, <1>7, <1>8, <1>9 DEF Next

(* The processor, which saves manifests it read before an await, never     *)
(* opens a session that has ended, unless an operator asked for a rebuild. *)
THEOREM EndedNeverReopened == Spec => EndedStaysEnded
<1>1. SInv /\ [Next]_vars =>
        [\A s \in Sessions \ rebuilt :
           manifest[s].status \in Ended => manifest'[s].status \in Ended]_vars
  BY StepKeepsEnded
<1> QED
  BY <1>1, SpecSInv, PTL DEF Spec, EndedStaysEnded

-----------------------------------------------------------------------------
(* Who is where *)

ClosingAt == {"gather", "save", "check", "unpoint"}
RebuildingAt == {"rebuild", "regather", "resave", "extract", "report"}

CommandPlaces ==
  {"idle", "readOld", "saveOld", "unpointOld", "marker", "create", "point",
   "regather", "resave"} \cup ClosingAt
PassPlaces ==
  {"idle", "recover", "orphan", "idleManifest", "idleEvents", "list"}
    \cup ClosingAt \cup RebuildingAt

(* Commands and the pass of the processor have their places apart; when    *)
(* the processor has closed a session it knows where to go on, and the     *)
(* loop that rebuilds is entered only with a session left to visit.        *)
PlacesApart ==
  /\ \A a \in Operators : op[a].at \in CommandPlaces /\ op[a].then = "idle"
  /\ op[Processor].at \in PassPlaces
  /\ op[Processor].at \in ClosingAt => op[Processor].then \in {"recover", "list"}
  /\ op[Processor].at = "rebuild" => todo # {}

(* A process turns to something, and the others stay: to o, *)
LEMMA TurnsTo ==
  ASSUME SInv, NEW a \in Actors, NEW o, op' = [op EXCEPT ![a] = o]
  PROVE  op'[a] = o /\ \A b \in Actors \ {a} : op'[b] = op[b]
  BY DEF SInv, FilesInv, SessionsTypeOK

(* to nothing, *)
LEMMA TurnsIdle ==
  ASSUME SInv, NEW a \in Actors, Done(a)
  PROVE  /\ op'[a].at = "idle" /\ op'[a].then = "idle"
         /\ \A b \in Actors \ {a} : op'[b] = op[b]
<1>1. op'[a] = Idle /\ \A b \in Actors \ {a} : op'[b] = op[b]
  BY TurnsTo DEF Done
<1> QED
  BY <1>1 DEF Idle

(* to a place without a past, *)
LEMMA TurnsAt ==
  ASSUME SInv, NEW a \in Actors, NEW at, NEW s, op' = [op EXCEPT ![a] = At(at, s)]
  PROVE  /\ op'[a].at = at /\ op'[a].then = "idle" /\ op'[a].session = s
         /\ \A b \in Actors \ {a} : op'[b] = op[b]
<1>1. op'[a] = At(at, s) /\ \A b \in Actors \ {a} : op'[b] = op[b]
  BY TurnsTo
<1>2. At(at, s).at = at /\ At(at, s).then = "idle" /\ At(at, s).session = s
  BY DEF At, Idle
<1> QED
  BY <1>1, <1>2

(* to closing a session, *)
LEMMA ClosingIs ==
  ASSUME NEW s, NEW status, NEW then
  PROVE  /\ Closing(s, status, then).at = "gather" /\ Closing(s, status, then).then = then
         /\ Closing(s, status, then).session = s /\ Closing(s, status, then).status = status
  BY DEF Closing, Idle

(* to rebuilding one, *)
LEMMA TurnsRebuilding ==
  ASSUME SInv, NEW a \in Actors, NEW s, op' = [op EXCEPT ![a] = Rebuilding(s)]
  PROVE  /\ op'[a].at = "regather" /\ op'[a].then = "idle" /\ op'[a].session = s
         /\ op'[a].status = manifest[s].status
         /\ \A b \in Actors \ {a} : op'[b] = op[b]
<1> DEFINE o == Rebuilding(s)
<1>1. op'[a] = o /\ \A b \in Actors \ {a} : op'[b] = op[b]
  BY TurnsTo
<1>2. o.at = "regather" /\ o.then = "idle" /\ o.session = s /\ o.status = manifest[s].status
  BY DEF Rebuilding, Idle
<1> QED
  BY <1>1, <1>2

(* and when it stays with its session. *)
LEMMA StaysWith ==
  ASSUME SInv, NEW a \in Actors, NEW at, NEW status, NEW refs, Holds(a, at, status, refs)
  PROVE  /\ op'[a].at = at /\ op'[a].then = op[a].then /\ op'[a].session = op[a].session
         /\ op'[a].status = status
         /\ \A b \in Actors \ {a} : op'[b] = op[b]
<1> DEFINE o == [at |-> at, then |-> op[a].then, session |-> op[a].session,
                 status |-> status, refs |-> refs]
<1>1. op' = [op EXCEPT ![a] = o]
  BY DEF Holds
<1>2. o.at = at /\ o.then = op[a].then /\ o.session = op[a].session /\ o.status = status
  OBVIOUS
<1> HIDE DEF o
<1>3. op'[a] = o /\ \A b \in Actors \ {a} : op'[b] = op[b]
  BY <1>1, TurnsTo
<1> QED
  BY <1>2, <1>3

LEMMA GoesOn ==
  ASSUME SInv, NEW a \in Actors, NEW at, Goes(a, at)
  PROVE  /\ op'[a].at = at /\ op'[a].then = op[a].then /\ op'[a].session = op[a].session
         /\ \A b \in Actors \ {a} : op'[b] = op[b]
  BY StaysWith DEF Goes

LEMMA ContinuesWith ==
  ASSUME SInv, NEW a \in Actors, NEW at, Continues(a, at)
  PROVE  /\ op'[a].at = at /\ op'[a].then = op[a].then /\ op'[a].session = op[a].session
         /\ \A b \in Actors \ {a} : op'[b] = op[b]
  BY StaysWith DEF Continues

(* What the steps make of the place of a process. *)
LEMMA StartMoves ==
  ASSUME SInv, NEW a \in Actors, StartStep(a)
  PROVE  /\ \/ op[a].at = "readOld" /\ op'[a].at \in {"saveOld", "unpointOld"} /\ op'[a].then = op[a].then
            \/ op[a].at = "marker" /\ op'[a].at = "create" /\ op'[a].then = "idle"
            \/ op[a].at = "create" /\ op'[a].at = "point" /\ op'[a].then = op[a].then
            \/ op[a].at = "point" /\ op'[a].at = "idle" /\ op'[a].then = "idle"
         /\ todo' = todo /\ \A b \in Actors \ {a} : op'[b] = op[b]
<1>1. CASE ReadOld(a)
  BY <1>1, StaysWith, GoesOn DEF ReadOld
<1>2. CASE AppendMarker(a)
  BY <1>2, TurnsAt DEF AppendMarker
<1>3. CASE CreateManifest(a)
  BY <1>3, GoesOn DEF CreateManifest
<1>4. CASE WritePointer(a)
  BY <1>4, TurnsIdle DEF WritePointer
<1> QED
  BY <1>1, <1>2, <1>3, <1>4 DEF StartStep

LEMMA SessionMoves ==
  ASSUME SInv, NEW a \in Actors, SessionStep(a)
  PROVE  /\ \/ op[a].at = "gather" /\ op'[a].at = "save" /\ op'[a].then = op[a].then
            \/ op[a].at = "regather" /\ op'[a].at = "resave" /\ op'[a].then = op[a].then
            \/ op[a].at = "saveOld" /\ op'[a].at = "unpointOld" /\ op'[a].then = op[a].then
            \/ op[a].at = "save" /\ op'[a].at = "check" /\ op'[a].then = op[a].then
            \/ op[a].at = "resave" /\ a \in Operators /\ op'[a].at = "idle" /\ op'[a].then = "idle"
            \/ op[a].at = "resave" /\ a = Processor /\ op'[a].at = "extract"
            \/ op[a].at = "check" /\ op'[a].at = "unpoint" /\ op'[a].then = op[a].then
            \/ op[a].at \in {"check", "unpoint"} /\ op'[a].at = op[a].then /\ op'[a].then = "idle"
            \/ op[a].at = "unpointOld" /\ op'[a].at = "marker" /\ op'[a].then = "idle"
         /\ todo' = todo /\ \A b \in Actors \ {a} : op'[b] = op[b]
<1>1. CASE Gather(a)
  <2>1. /\ op'[a].at = IF op[a].at = "gather" THEN "save" ELSE "resave"
        /\ op'[a].then = op[a].then /\ \A b \in Actors \ {a} : op'[b] = op[b]
    BY <1>1, StaysWith DEF Gather
  <2> QED
    BY <1>1, <2>1 DEF Gather
<1>2. CASE Save(a)
  BY <1>2, ContinuesWith, TurnsIdle DEF Save
<1>3. ASSUME Closed(a)
      PROVE  /\ op'[a].at = op[a].then /\ op'[a].then = "idle"
             /\ \A b \in Actors \ {a} : op'[b] = op[b]
  BY <1>3, TurnsAt DEF Closed
<1>4. CASE CheckPointer(a)
  BY <1>3, <1>4, GoesOn DEF CheckPointer
<1>5. CASE ClearPointer(a)
  BY <1>3, <1>5, TurnsAt DEF ClearPointer
<1> QED
  BY <1>1, <1>2, <1>4, <1>5 DEF SessionStep

LEMMA PassMoves ==
  ASSUME SInv, ProcessorStep
  PROVE  /\ LET p == op[Processor]
                q == op'[Processor]
            IN  \/ p.at = "idle" /\ q.at = "recover" /\ todo' = Known
                \/ /\ p.at = "recover" /\ \E s \in todo : todo' = todo \ {s}
                   /\ q.at = "orphan" \/ q = p
                \/ /\ p.at = "orphan" /\ todo' = todo
                   /\ q.at = "recover" \/ (q.at = "gather" /\ q.then = "recover")
                \/ p.at = "recover" /\ todo = {} /\ todo' = todo /\ q.at \in {"idleManifest", "list"}
                \/ p.at = "idleManifest" /\ todo' = todo /\ q.at \in {"idleEvents", "list"}
                \/ /\ p.at = "idleEvents" /\ todo' = todo
                   /\ q.at = "list" \/ (q.at = "gather" /\ q.then = "list")
                \/ p.at = "list" /\ todo' = Pending /\ q.at = IF Pending = {} THEN "idle" ELSE "rebuild"
                \/ p.at = "rebuild" /\ (\E s \in todo : todo' = todo \ {s}) /\ q.at = "regather"
                \/ p.at = "extract" /\ todo' = todo /\ q.at = "report"
                \/ /\ p.at \in {"extract", "report"} /\ todo' = todo
                   /\ q.at = IF todo = {} THEN "idle" ELSE "rebuild"
         /\ \A b \in Operators : op'[b] = op[b]
<1>1. Processor \in Actors /\ \A b \in Operators : b \in Actors \ {Processor}
  BY SessionsAssumption DEF Actors
<1>2. CASE BeginPass
  BY <1>1, <1>2, GoesOn DEF BeginPass, Idle
<1>3. CASE RecoverNext
  <2>1. CASE op' = op
    BY <1>3, <2>1 DEF RecoverNext
  <2>2. ASSUME NEW s \in todo, todo' = todo \ {s}, op' = [op EXCEPT ![Processor] = At("orphan", s)]
        PROVE  op'[Processor].at = "orphan" /\ \A b \in Operators : op'[b] = op[b]
    BY <1>1, <2>2, TurnsAt
  <2> QED
    BY <1>3, <2>1, <2>2 DEF RecoverNext
<1>4. CASE CheckOrphan
  <2>1. ASSUME op' = [op EXCEPT ![Processor] = At("recover", NoSession)]
        PROVE  op'[Processor].at = "recover" /\ \A b \in Operators : op'[b] = op[b]
    BY <1>1, <2>1, TurnsAt
  <2>2. ASSUME NEW s, op' = [op EXCEPT ![Processor] = Closing(s, "interrupted", "recover")]
        PROVE  /\ op'[Processor].at = "gather" /\ op'[Processor].then = "recover"
               /\ \A b \in Operators : op'[b] = op[b]
    <3> DEFINE o == Closing(s, "interrupted", "recover")
    <3>1. op'[Processor] = o /\ \A b \in Operators : op'[b] = op[b]
      BY <1>1, <2>2, TurnsTo
    <3>2. o.at = "gather" /\ o.then = "recover"
      BY ClosingIs
    <3> QED
      BY <3>1, <3>2
  <2> QED
    BY <1>4, <2>1, <2>2 DEF CheckOrphan
<1>5. CASE ReadIdlePointer
  <2>1. ASSUME NEW at, NEW s, op' = [op EXCEPT ![Processor] = At(at, s)]
        PROVE  op'[Processor].at = at /\ \A b \in Operators : op'[b] = op[b]
    BY <1>1, <2>1, TurnsAt
  <2> QED
    BY <1>5, <2>1 DEF ReadIdlePointer
<1>6. CASE ReadIdleManifest
  BY <1>1, <1>6, GoesOn, TurnsAt DEF ReadIdleManifest
<1>7. CASE CloseIdle
  <2>1. ASSUME op' = [op EXCEPT ![Processor] = At("list", NoSession)]
        PROVE  op'[Processor].at = "list" /\ \A b \in Operators : op'[b] = op[b]
    BY <1>1, <2>1, TurnsAt
  <2>2. ASSUME NEW s, op' = [op EXCEPT ![Processor] = Closing(s, "interrupted", "list")]
        PROVE  /\ op'[Processor].at = "gather" /\ op'[Processor].then = "list"
               /\ \A b \in Operators : op'[b] = op[b]
    <3> DEFINE o == Closing(s, "interrupted", "list")
    <3>1. op'[Processor] = o /\ \A b \in Operators : op'[b] = op[b]
      BY <1>1, <2>2, TurnsTo
    <3>2. o.at = "gather" /\ o.then = "list"
      BY ClosingIs
    <3> QED
      BY <3>1, <3>2
  <2> QED
    BY <1>7, <2>1, <2>2 DEF CloseIdle
<1>8. CASE ListPending
  BY <1>1, <1>8, GoesOn DEF ListPending
<1>9. CASE RebuildNext
  <2>1. PICK s \in todo : todo' = todo \ {s} /\ op' = [op EXCEPT ![Processor] = Rebuilding(s)]
    BY <1>9 DEF RebuildNext
  <2>2. op'[Processor].at = "regather" /\ \A b \in Operators : op'[b] = op[b]
    BY <1>1, <2>1, TurnsRebuilding
  <2> QED
    BY <1>9, <2>1, <2>2 DEF RebuildNext
<1>10. ASSUME NextOrDone
       PROVE  /\ op'[Processor].at = IF todo = {} THEN "idle" ELSE "rebuild"
              /\ \A b \in Operators : op'[b] = op[b]
  BY <1>1, <1>10, TurnsAt DEF NextOrDone
<1>11. CASE ReadExtracted
  BY <1>1, <1>10, <1>11, GoesOn DEF ReadExtracted
<1>12. CASE SaveReport
  BY <1>10, <1>12 DEF SaveReport
<1> QED
  BY <1>2, <1>3, <1>4, <1>5, <1>6, <1>7, <1>8, <1>9, <1>11, <1>12 DEF ProcessorStep

LEMMA CommandMoves ==
  ASSUME SInv, NEW a \in Operators,
         BeginStart(a) \/ \E s \in Sessions : BeginClose(a, s) \/ BeginRebuild(a, s)
  PROVE  /\ op[a] = Idle /\ op'[a].then = "idle"
         /\ op'[a].at \in {"readOld", "marker", "gather", "regather"}
         /\ todo' = todo /\ \A b \in Actors \ {a} : op'[b] = op[b]
<1>1. a \in Actors /\ op[a] = Idle /\ todo' = todo
  BY CommandFacts DEF BeginStart, BeginClose, BeginRebuild
<1>2. CASE BeginStart(a)
  BY <1>1, <1>2, TurnsAt DEF BeginStart
<1>3. ASSUME NEW s \in Sessions, BeginClose(a, s)
      PROVE  /\ op'[a].then = "idle" /\ op'[a].at = "gather"
             /\ \A b \in Actors \ {a} : op'[b] = op[b]
  <2>1. op' = [op EXCEPT ![a] = Closing(s, "closed", "idle")]
    BY <1>3 DEF BeginClose
  <2> DEFINE o == Closing(s, "closed", "idle")
  <2>2. op'[a] = o /\ \A b \in Actors \ {a} : op'[b] = op[b]
    BY <1>1, <2>1, TurnsTo
  <2>3. o.at = "gather" /\ o.then = "idle"
    BY ClosingIs
  <2> QED
    BY <2>2, <2>3
<1>4. ASSUME NEW s \in Sessions, BeginRebuild(a, s)
      PROVE  /\ op'[a].then = "idle" /\ op'[a].at = "regather"
             /\ \A b \in Actors \ {a} : op'[b] = op[b]
  BY <1>1, <1>4, TurnsRebuilding DEF BeginRebuild
<1> QED
  BY <1>1, <1>2, <1>3, <1>4

LEMMA KillMoves ==
  ASSUME SInv, NEW a \in Actors, Kill(a)
  PROVE  /\ op[a] # Idle /\ op'[a].at = "idle" /\ op'[a].then = "idle"
         /\ todo' = IF a = Processor THEN {} ELSE todo
         /\ \A b \in Actors \ {a} : op'[b] = op[b]
  BY TurnsIdle DEF Kill

(* Every step keeps the places apart. *)
LEMMA PlacesKept ==
  ASSUME SInv, PlacesApart, [Next]_vars
  PROVE  PlacesApart'
<1>1. Processor \in Actors /\ Processor \notin Operators /\ Operators \subseteq Actors
      /\ \A a \in Actors : a \in Operators \/ a = Processor
  BY SessionsAssumption DEF Actors
<1>2. ASSUME NEW a \in Operators, op'[a].at \in CommandPlaces, op'[a].then = "idle",
             todo' = todo, \A b \in Actors \ {a} : op'[b] = op[b]
      PROVE  PlacesApart'
  BY <1>1, <1>2 DEF PlacesApart
<1>3. ASSUME op'[Processor].at \in PassPlaces,
             op'[Processor].at \in ClosingAt => op'[Processor].then \in {"recover", "list"},
             op'[Processor].at = "rebuild" => todo' # {},
             \A b \in Operators : op'[b] = op[b]
      PROVE  PlacesApart'
  BY <1>1, <1>3 DEF PlacesApart
<1>4. ASSUME NEW a \in Operators,
             BeginStart(a) \/ \E s \in Sessions : BeginClose(a, s) \/ BeginRebuild(a, s)
      PROVE  PlacesApart'
  <2>1. op'[a].at \in CommandPlaces
    BY <1>4, CommandMoves DEF CommandPlaces, ClosingAt
  <2> QED
    BY <1>2, <1>4, <2>1, CommandMoves
<1>5. ASSUME NEW a \in Operators, StartStep(a) \/ SessionStep(a) \/ Kill(a)
      PROVE  PlacesApart'
  <2>1. op[a].at \in CommandPlaces /\ op[a].then = "idle" /\ a # Processor
    BY <1>1 DEF PlacesApart
  <2>2. CASE StartStep(a)
    BY <1>1, <1>2, <2>1, <2>2, StartMoves DEF CommandPlaces
  <2>3. CASE SessionStep(a)
    <3>1. op'[a].at \in CommandPlaces /\ op'[a].then = "idle"
      BY <1>1, <2>1, <2>3, SessionMoves DEF CommandPlaces, ClosingAt
    <3> QED
      BY <1>1, <1>2, <2>3, <3>1, SessionMoves
  <2>4. CASE Kill(a)
    BY <1>1, <1>2, <2>1, <2>4, KillMoves DEF CommandPlaces
  <2> QED
    BY <1>5, <2>2, <2>3, <2>4
<1>6. CASE StartStep(Processor)
  BY <1>1, <1>6, StartMoves DEF PlacesApart, PassPlaces, ClosingAt, RebuildingAt
<1>7. CASE SessionStep(Processor)
  <2>1. /\ op'[Processor].at \in PassPlaces \ {"rebuild"}
        /\ op'[Processor].at \in ClosingAt => op'[Processor].then \in {"recover", "list"}
    BY <1>1, <1>7, SessionMoves DEF PlacesApart, PassPlaces, ClosingAt, RebuildingAt
  <2>2. \A b \in Operators : op'[b] = op[b]
    BY <1>1, <1>7, SessionMoves
  <2> QED
    BY <1>3, <2>1, <2>2
<1>8. CASE Kill(Processor)
  BY <1>1, <1>3, <1>8, KillMoves DEF PassPlaces, ClosingAt
<1>9. CASE ProcessorStep
  <2>1. /\ op'[Processor].at \in PassPlaces
        /\ op'[Processor].at \in ClosingAt => op'[Processor].then \in {"recover", "list"}
        /\ op'[Processor].at = "rebuild" => todo' # {}
    BY <1>9, PassMoves DEF PlacesApart, PassPlaces, ClosingAt, RebuildingAt
  <2>2. \A b \in Operators : op'[b] = op[b]
    BY <1>9, PassMoves
  <2> QED
    BY <1>3, <2>1, <2>2
<1>10. CASE UNCHANGED <<op, todo>>
  BY <1>10 DEF PlacesApart
<1>11. (\E e \in Events : Capture(e) \/ StoreEvent(e)) \/ UNCHANGED vars => UNCHANGED <<op, todo>>
  BY DEF Capture, StoreEvent, vars
<1> QED
  BY <1>1, <1>4, <1>5, <1>6, <1>7, <1>8, <1>9, <1>10, <1>11 DEF Next

LEMMA PlacesHold == Spec => [](SInv /\ PlacesApart)
<1>1. Init => PlacesApart
  <2> SUFFICES ASSUME Init PROVE PlacesApart
    OBVIOUS
  <2>1. \A a \in Actors : op[a] = Idle
    BY DEF Init
  <2> QED
    BY <2>1, SessionsAssumption
       DEF Idle, PlacesApart, Actors, CommandPlaces, PassPlaces, ClosingAt
<1> QED
  BY <1>1, PlacesKept, SpecSInv, PTL DEF Spec

-----------------------------------------------------------------------------
(* How much a process has left to do *)

(* The accesses of a command until it ends, and of a closing until it is   *)
(* over.                                                                   *)
AccessesLeft(at) ==
  CASE at = "idle" -> 0
    [] at \in {"point", "unpoint", "resave"} -> 1
    [] at \in {"create", "check", "regather"} -> 2
    [] at \in {"marker", "save"} -> 3
    [] at \in {"unpointOld", "gather"} -> 4
    [] at = "saveOld" -> 5
    [] at = "readOld" -> 6

(* What a pass has left in its last loop for the session it visits, *)
VisitLeft(at) ==
  CASE at = "rebuild" -> 0 [] at = "report" -> 1 [] at = "extract" -> 2
    [] at = "resave" -> 3 [] at = "regather" -> 4

(* and in all: it visits up to n sessions again after it has listed them.  *)
PassLeft(p, visits, n) ==
  CASE p.at = "idle" -> 0
    [] p.at \in RebuildingAt -> 5 * visits + VisitLeft(p.at)
    [] p.at = "list" -> 5 * n + 1
    [] p.at = "idleEvents" -> 5 * n + 6
    [] p.at = "idleManifest" -> 5 * n + 7
    [] p.at = "recover" -> 5 * n + 8 + 6 * visits
    [] p.at = "orphan" -> 5 * n + 8 + 6 * visits + 5
    [] p.at \in ClosingAt /\ p.then = "list" -> 5 * n + 1 + AccessesLeft(p.at)
    [] p.at \in ClosingAt /\ p.then = "recover" -> 5 * n + 8 + 6 * visits + AccessesLeft(p.at)

Left(a) ==
  IF a = Processor THEN PassLeft(op[a], Cardinality(todo), Cardinality(Sessions))
                   ELSE AccessesLeft(op[a].at)

LEMMA AccessesOf ==
  /\ AccessesLeft("idle") = 0 /\ AccessesLeft("point") = 1 /\ AccessesLeft("unpoint") = 1
  /\ AccessesLeft("resave") = 1 /\ AccessesLeft("create") = 2 /\ AccessesLeft("check") = 2
  /\ AccessesLeft("regather") = 2 /\ AccessesLeft("marker") = 3 /\ AccessesLeft("save") = 3
  /\ AccessesLeft("unpointOld") = 4 /\ AccessesLeft("gather") = 4
  /\ AccessesLeft("saveOld") = 5 /\ AccessesLeft("readOld") = 6
  BY DEF AccessesLeft

LEMMA VisitOf ==
  /\ VisitLeft("rebuild") = 0 /\ VisitLeft("report") = 1 /\ VisitLeft("extract") = 2
  /\ VisitLeft("resave") = 3 /\ VisitLeft("regather") = 4
  BY DEF VisitLeft

(* What a pass has left at each of its places. *)
LEMMA PassOf ==
  ASSUME NEW p, NEW v, NEW n
  PROVE  /\ p.at = "idle" => PassLeft(p, v, n) = 0
         /\ p.at = "rebuild" => PassLeft(p, v, n) = 5 * v + 0
         /\ p.at = "report" => PassLeft(p, v, n) = 5 * v + 1
         /\ p.at = "extract" => PassLeft(p, v, n) = 5 * v + 2
         /\ p.at = "resave" => PassLeft(p, v, n) = 5 * v + 3
         /\ p.at = "regather" => PassLeft(p, v, n) = 5 * v + 4
         /\ p.at = "list" => PassLeft(p, v, n) = 5 * n + 1
         /\ p.at = "idleEvents" => PassLeft(p, v, n) = 5 * n + 6
         /\ p.at = "idleManifest" => PassLeft(p, v, n) = 5 * n + 7
         /\ p.at = "recover" => PassLeft(p, v, n) = 5 * n + 8 + 6 * v
         /\ p.at = "orphan" => PassLeft(p, v, n) = 5 * n + 8 + 6 * v + 5
         /\ p.at \in ClosingAt /\ p.then = "list" =>
              PassLeft(p, v, n) = 5 * n + 1 + AccessesLeft(p.at)
         /\ p.at \in ClosingAt /\ p.then = "recover" =>
              PassLeft(p, v, n) = 5 * n + 8 + 6 * v + AccessesLeft(p.at)
<1>1. CASE p.at \in RebuildingAt
  <2>1. PassLeft(p, v, n) = 5 * v + VisitLeft(p.at)
    <3>1. p.at # "idle"
      BY <1>1 DEF RebuildingAt
    <3>2. p.at \notin {"list", "idleEvents", "idleManifest", "recover", "orphan"}
      BY <1>1 DEF RebuildingAt
    <3>3. p.at \notin ClosingAt
      BY <1>1 DEF RebuildingAt, ClosingAt
    <3> QED
      BY <1>1, <3>1, <3>2, <3>3 DEF PassLeft
  <2>2. \A x \in RebuildingAt : x \in {"rebuild", "regather", "resave", "extract", "report"}
    BY DEF RebuildingAt
  <2>3. p.at \notin ClosingAt
    BY <1>1 DEF RebuildingAt, ClosingAt
  <2> HIDE DEF PassLeft
  <2> QED
    BY <1>1, <2>1, <2>2, <2>3, VisitOf
<1>2. CASE p.at \in ClosingAt
  <2>1. p.at \notin RebuildingAt
    BY <1>2 DEF RebuildingAt, ClosingAt
  <2>2. p.at \notin {"idle", "rebuild", "report", "extract", "resave", "regather", "list",
                    "idleEvents", "idleManifest", "recover", "orphan"}
    BY <1>2 DEF ClosingAt
  <2>3. p.then = "list" => PassLeft(p, v, n) = 5 * n + 1 + AccessesLeft(p.at)
    BY <1>2, <2>1, <2>2 DEF PassLeft
  <2>4. p.then = "recover" => PassLeft(p, v, n) = 5 * n + 8 + 6 * v + AccessesLeft(p.at)
    BY <1>2, <2>1, <2>2 DEF PassLeft
  <2> QED
    BY <2>2, <2>3, <2>4
<1>3. CASE p.at \notin RebuildingAt /\ p.at \notin ClosingAt
  BY <1>3 DEF PassLeft, RebuildingAt, ClosingAt
<1> QED
  BY <1>1, <1>2, <1>3

(* The loops visit finitely many sessions, one fewer each time. *)
LEMMA Visits ==
  ASSUME IsFiniteSet(Sessions), NEW S \in SUBSET Sessions
  PROVE  /\ Cardinality(S) \in 0 .. Cardinality(Sessions) /\ Cardinality(Sessions) \in Nat
         /\ \A s \in S : Cardinality(S \ {s}) = Cardinality(S) - 1 /\ Cardinality(S) > 0
         /\ S # {} => Cardinality(S) > 0
<1>1. IsFiniteSet(S) /\ Cardinality(S) <= Cardinality(Sessions)
  BY FS_Subset
<1>2. Cardinality(S) \in Nat /\ Cardinality(Sessions) \in Nat
  BY <1>1, FS_CardinalityType
<1>3. ASSUME NEW s \in S PROVE Cardinality(S \ {s}) = Cardinality(S) - 1 /\ Cardinality(S) > 0
  <2>1. Cardinality(S) # 0
    BY <1>1, <1>3, FS_EmptySet
  <2>2. Cardinality(S \ {s}) = IF s \in S THEN Cardinality(S) - 1 ELSE Cardinality(S)
    BY <1>1, FS_RemoveElement
  <2> QED
    BY <1>2, <1>3, <2>1, <2>2
<1>4. S # {} => Cardinality(S) > 0
  BY <1>3
<1> QED
  BY <1>1, <1>2, <1>3, <1>4

(* It is a bounded number, and none is left only to a process that is idle. *)
LEMMA LeftType ==
  ASSUME IsFiniteSet(Sessions), SInv, PlacesApart, NEW a \in Actors
  PROVE  /\ Left(a) \in 0 .. IF a = Processor THEN 11 * Cardinality(Sessions) + 13 ELSE 6
         /\ op[a].at # "idle" => Left(a) > 0
<1>1. /\ Cardinality(todo) \in 0 .. Cardinality(Sessions) /\ Cardinality(Sessions) \in Nat
      /\ todo # {} => Cardinality(todo) > 0
  BY Visits DEF SInv, FilesInv, SessionsTypeOK
<1>2. CASE a # Processor
  <2> DEFINE at == op[a].at
  <2>1. at \in CommandPlaces /\ Left(a) = AccessesLeft(at)
    BY <1>2 DEF Left, PlacesApart, Actors
  <2> HIDE DEF at
  <2>2. AccessesLeft(at) \in 0 .. 6 /\ (at # "idle" => AccessesLeft(at) > 0)
    BY <2>1, AccessesOf DEF CommandPlaces, ClosingAt
  <2> QED
    BY <1>2, <2>1, <2>2 DEF at
<1>3. CASE a = Processor
  <2> DEFINE p == op[Processor]
             v == Cardinality(todo)
             n == Cardinality(Sessions)
             L == PassLeft(p, v, n)
  <2>1. /\ p.at \in PassPlaces
        /\ p.at \in ClosingAt => p.then \in {"recover", "list"}
        /\ p.at = "rebuild" => v > 0
    BY <1>1 DEF PlacesApart
  <2> SUFFICES L \in 0 .. (11 * n + 13) /\ (p.at # "idle" => L > 0)
    BY <1>3 DEF Left
  <2>2. v \in 0 .. n /\ n \in Nat
    BY <1>1
  <2> HIDE DEF p, v, n
  <2>3. p.at \in ClosingAt => AccessesLeft(p.at) \in 1 .. 4
    BY AccessesOf DEF ClosingAt
  <2>4. CASE p.at \in RebuildingAt
    <3>1. p.at \in {"rebuild", "regather", "resave", "extract", "report"}
      BY <2>4 DEF RebuildingAt
    <3>2. L \in {5 * v + 0, 5 * v + 1, 5 * v + 2, 5 * v + 3, 5 * v + 4}
          /\ (p.at # "rebuild" => L \in {5 * v + 1, 5 * v + 2, 5 * v + 3, 5 * v + 4})
      BY <3>1, PassOf
    <3> HIDE DEF L
    <3> QED
      BY <2>1, <2>2, <3>2
  <2>5. CASE p.at \in ClosingAt
    <3>1. L = 5 * n + 1 + AccessesLeft(p.at) \/ L = 5 * n + 8 + 6 * v + AccessesLeft(p.at)
      BY <2>1, <2>5, PassOf
    <3> HIDE DEF L
    <3> QED
      BY <2>2, <2>3, <2>5, <3>1
  <2>6. CASE p.at \in {"idle", "recover", "orphan", "idleManifest", "idleEvents", "list"}
    <3>1. \/ p.at = "idle" /\ L = 0
          \/ L = 5 * n + 1 \/ L = 5 * n + 6 \/ L = 5 * n + 7
          \/ L = 5 * n + 8 + 6 * v \/ L = 5 * n + 8 + 6 * v + 5
      BY <2>6, PassOf
    <3> HIDE DEF L
    <3> QED
      BY <2>2, <3>1
  <2> QED
    BY <2>1, <2>4, <2>5, <2>6 DEF PassPlaces
<1> QED
  BY <1>2, <1>3

(* A command's own steps lower what it has left. *)
LEMMA CommandAdvances ==
  ASSUME SInv, PlacesApart, NEW a \in Operators, StartStep(a) \/ SessionStep(a) \/ Kill(a),
         op[a].at # "idle"
  PROVE  Left(a)' < Left(a)
<1>1. a \in Actors /\ a # Processor /\ op[a].then = "idle" /\ op[a].at \in CommandPlaces
  BY SessionsAssumption DEF Actors, PlacesApart
<1> DEFINE at == op[a].at
           at1 == op'[a].at
<1>2. Left(a) = AccessesLeft(at) /\ Left(a)' = AccessesLeft(at1)
  BY <1>1 DEF Left
<1>3. CASE StartStep(a)
  <2>1. \/ at = "readOld" /\ at1 \in {"saveOld", "unpointOld"}
        \/ at = "marker" /\ at1 = "create"
        \/ at = "create" /\ at1 = "point"
        \/ at = "point" /\ at1 = "idle"
    BY <1>1, <1>3, StartMoves
  <2> HIDE DEF at, at1
  <2> QED
    BY <1>2, <2>1, AccessesOf
<1>4. CASE SessionStep(a)
  <2>1. \/ at = "gather" /\ at1 = "save"
        \/ at = "regather" /\ at1 = "resave"
        \/ at = "saveOld" /\ at1 = "unpointOld"
        \/ at = "save" /\ at1 = "check"
        \/ at = "resave" /\ at1 = "idle"
        \/ at = "check" /\ at1 \in {"unpoint", "idle"}
        \/ at = "unpoint" /\ at1 = "idle"
        \/ at = "unpointOld" /\ at1 = "marker"
    BY <1>1, <1>4, SessionMoves
  <2> HIDE DEF at, at1
  <2> QED
    BY <1>2, <2>1, AccessesOf
<1>5. CASE Kill(a)
  <2>1. at1 = "idle" /\ at \in CommandPlaces /\ at # "idle"
    BY <1>1, <1>5, KillMoves
  <2> HIDE DEF at, at1
  <2> QED
    BY <1>2, <2>1, AccessesOf DEF CommandPlaces, ClosingAt
<1> QED
  BY <1>3, <1>4, <1>5

(* So does a step of the pass. *)
LEMMA PassAdvances ==
  ASSUME IsFiniteSet(Sessions), SInv, PlacesApart, op[Processor].at # "idle",
         StartStep(Processor) \/ SessionStep(Processor) \/ Kill(Processor) \/ ProcessorStep
  PROVE  Left(Processor)' < Left(Processor)
<1> DEFINE p == op[Processor]
           q == op'[Processor]
           v == Cardinality(todo)
           w == Cardinality(todo')
           n == Cardinality(Sessions)
           L == PassLeft(p, v, n)
           M == PassLeft(q, w, n)
<1>1. Left(Processor) = L /\ Left(Processor)' = M
  BY DEF Left
<1>2. v \in 0 .. n /\ n \in Nat /\ todo \subseteq Sessions
  BY Visits DEF SInv, FilesInv, SessionsTypeOK
<1>3. /\ todo' = todo => w = v
      /\ (\E s \in todo : todo' = todo \ {s}) => w = v - 1
      /\ todo' = Pending => w \in 0 .. n
  <2>1. ASSUME NEW s \in todo, todo' = todo \ {s} PROVE w = v - 1
    BY <1>2, <2>1, Visits
  <2>2. ASSUME todo' = Pending PROVE w \in 0 .. n
    <3>1. Pending \in SUBSET Sessions
      BY DEF Pending, Known
    <3> QED
      BY <2>2, <3>1, Visits
  <2> QED
    BY <2>1, <2>2
<1>4. Processor \in Actors /\ p.at \in PassPlaces /\ p.at # "idle"
      /\ (p.at \in ClosingAt => p.then \in {"recover", "list"})
  BY DEF Actors, PlacesApart
<1>5. CASE StartStep(Processor)
  BY <1>4, <1>5, StartMoves DEF PassPlaces, ClosingAt, RebuildingAt
<1>6. CASE SessionStep(Processor)
  <2>1. /\ \/ p.at = "gather" /\ q.at = "save" /\ q.then = p.then
           \/ p.at = "save" /\ q.at = "check" /\ q.then = p.then
           \/ p.at = "check" /\ q.at = "unpoint" /\ q.then = p.then
           \/ p.at \in {"check", "unpoint"} /\ q.at = p.then
           \/ p.at = "regather" /\ q.at = "resave"
           \/ p.at = "resave" /\ q.at = "extract"
        /\ w = v
    <3>1. p.at \notin {"saveOld", "unpointOld"} /\ Processor \notin Operators
      BY <1>4, SessionsAssumption DEF PassPlaces, ClosingAt, RebuildingAt
    <3> QED
      BY <1>3, <1>4, <1>6, <3>1, SessionMoves
  <2>2. CASE p.at \in ClosingAt
    <3>1. \/ p.at = "gather" /\ q.at = "save" /\ q.then = p.then
          \/ p.at = "save" /\ q.at = "check" /\ q.then = p.then
          \/ p.at = "check" /\ q.at = "unpoint" /\ q.then = p.then
          \/ p.at \in {"check", "unpoint"} /\ q.at = p.then
      BY <2>1, <2>2 DEF ClosingAt
    <3>0. /\ AccessesLeft(p.at) \in 1 .. 4
          /\ q.at \in ClosingAt /\ q.at # p.then =>
               AccessesLeft(q.at) \in 1 .. (AccessesLeft(p.at) - 1)
      <4> HIDE DEF p, q
      <4> QED
        BY <3>1, AccessesOf
    <3>2. CASE p.then = "list"
      <4>1. L = 5 * n + 1 + AccessesLeft(p.at)
        BY <2>2, <3>2, PassOf
      <4>2. \/ q.at \in ClosingAt /\ q.then = "list" /\ M = 5 * n + 1 + AccessesLeft(q.at)
            \/ q.at = "list" /\ M = 5 * n + 1
        BY <3>1, <3>2, PassOf DEF ClosingAt
      <4>3. "list" \notin ClosingAt
        BY DEF ClosingAt
      <4> HIDE DEF L, M, p, q, n
      <4> QED
        BY <1>1, <1>2, <3>0, <3>2, <4>1, <4>2, <4>3
    <3>3. CASE p.then = "recover"
      <4>1. L = 5 * n + 8 + 6 * v + AccessesLeft(p.at)
        BY <2>2, <3>3, PassOf
      <4>2. \/ q.at \in ClosingAt /\ q.then = "recover" /\ M = 5 * n + 8 + 6 * w + AccessesLeft(q.at)
            \/ q.at = "recover" /\ M = 5 * n + 8 + 6 * w
        BY <3>1, <3>3, PassOf DEF ClosingAt
      <4>3. "recover" \notin ClosingAt
        BY DEF ClosingAt
      <4> HIDE DEF L, M, p, q, n, v, w
      <4> QED
        BY <1>1, <1>2, <2>1, <3>0, <3>3, <4>1, <4>2, <4>3
    <3> QED
      BY <1>1, <1>4, <2>2, <3>2, <3>3
  <2>3. CASE p.at = "regather" /\ q.at = "resave"
    <3>1. L = 5 * v + 4 /\ M = 5 * w + 3
      BY <2>3, PassOf
    <3> HIDE DEF L, M, v, w
    <3> QED
      BY <1>1, <1>2, <2>1, <3>1
  <2>4. CASE p.at = "resave" /\ q.at = "extract"
    <3>1. L = 5 * v + 3 /\ M = 5 * w + 2
      BY <2>4, PassOf
    <3> HIDE DEF L, M, v, w
    <3> QED
      BY <1>1, <1>2, <2>1, <3>1
  <2> QED
    BY <2>1, <2>2, <2>3, <2>4 DEF ClosingAt
<1>7. CASE Kill(Processor)
  <2>1. M = 0
    BY <1>4, <1>7, KillMoves, PassOf
  <2>2. L > 0 /\ L \in Nat
    BY <1>1, <1>2, <1>4, LeftType
  <2> HIDE DEF L, M
  <2> QED
    BY <1>1, <2>1, <2>2
<1>8. CASE ProcessorStep
  <2>1. \/ /\ p.at = "recover" /\ w = v - 1
           /\ q.at = "orphan" \/ q = p
        \/ /\ p.at = "orphan" /\ w = v
           /\ q.at = "recover" \/ (q.at = "gather" /\ q.then = "recover")
        \/ p.at = "recover" /\ w = v /\ q.at \in {"idleManifest", "list"}
        \/ p.at = "idleManifest" /\ w = v /\ q.at \in {"idleEvents", "list"}
        \/ /\ p.at = "idleEvents" /\ w = v
           /\ q.at = "list" \/ (q.at = "gather" /\ q.then = "list")
        \/ p.at = "list" /\ w \in 0 .. n /\ q.at \in {"idle", "rebuild"}
        \/ p.at = "rebuild" /\ w = v - 1 /\ q.at = "regather"
        \/ p.at = "extract" /\ w = v /\ q.at = "report"
        \/ p.at \in {"extract", "report"} /\ w = v /\ q.at \in {"idle", "rebuild"}
    BY <1>3, <1>4, <1>8, PassMoves
  <2>2. p.at = "recover" \/ p.at = "orphan" \/ p.at = "idleManifest" \/ p.at = "idleEvents"
        \/ p.at = "list" \/ p.at = "rebuild" \/ p.at = "extract" \/ p.at = "report"
    BY <2>1
  <2>3. \/ L = 5 * n + 8 + 6 * v
           /\ (M = 5 * n + 8 + 6 * (v - 1) + 5 \/ M = 5 * n + 8 + 6 * (v - 1)
               \/ M = 5 * n + 7 \/ M = 5 * n + 1)
        \/ L = 5 * n + 8 + 6 * v + 5
           /\ (M = 5 * n + 8 + 6 * v \/ M = 5 * n + 8 + 6 * v + AccessesLeft("gather"))
        \/ L = 5 * n + 7 /\ (M = 5 * n + 6 \/ M = 5 * n + 1)
        \/ L = 5 * n + 6 /\ (M = 5 * n + 1 \/ M = 5 * n + 1 + AccessesLeft("gather"))
        \/ L = 5 * n + 1 /\ (M = 0 \/ (M = 5 * w + 0 /\ w \in 0 .. n))
        \/ L = 5 * v + 0 /\ M = 5 * (v - 1) + 4
        \/ L = 5 * v + 2 /\ M = 5 * v + 1
        \/ L \in {5 * v + 1, 5 * v + 2} /\ M \in {0, 5 * v + 0}
    BY <2>1, PassOf DEF ClosingAt
  <2> HIDE DEF L, M, v, w, n
  <2> QED
    BY <1>1, <1>2, <2>3, AccessesOf
<1> QED
  BY <1>5, <1>6, <1>7, <1>8

(* A command makes at most six accesses, a pass at most eleven for every   *)
(* session there is and thirteen more.                                     *)
LeftBounded ==
  \A a \in Actors :
    /\ Left(a) \in 0 .. IF a = Processor THEN 11 * Cardinality(Sessions) + 13 ELSE 6
    /\ op[a].at # "idle" => Left(a) > 0

(* A process that is busy waits or has less left to do. *)
Advance ==
  \A a \in Actors : op[a].at # "idle" =>
    \/ op'[a] = op[a] /\ (a = Processor => todo' = todo)
    \/ Left(a)' < Left(a)

(* Every access of a process brings the end of its command or pass nearer, *)
(* whatever the others do in between: nobody is kept busy by sessions that *)
(* keep coming.                                                            *)
THEOREM ProcessesAdvance ==
  ASSUME IsFiniteSet(Sessions)
  PROVE  Spec => []LeftBounded /\ [][Advance]_vars
<1>1. ASSUME SInv, PlacesApart PROVE LeftBounded
  BY <1>1, LeftType DEF LeftBounded
<1>2. ASSUME SInv, PlacesApart, [Next]_vars PROVE Advance
  <2>1. Processor \in Actors /\ Processor \notin Operators /\ Operators \subseteq Actors
        /\ \A a \in Actors : a \in Operators \/ a = Processor
    BY SessionsAssumption DEF Actors
  <2>2. ASSUME NEW a \in Operators,
               BeginStart(a) \/ \E s \in Sessions : BeginClose(a, s) \/ BeginRebuild(a, s)
        PROVE  Advance
    <3>1. op[a].at = "idle" /\ todo' = todo /\ \A b \in Actors \ {a} : op'[b] = op[b]
      BY <1>2, <2>2, CommandMoves DEF Idle
    <3> QED
      BY <3>1 DEF Advance
  <2>3. ASSUME NEW a \in Operators, StartStep(a) \/ SessionStep(a) \/ Kill(a) PROVE Advance
    <3>1. todo' = todo /\ \A b \in Actors \ {a} : op'[b] = op[b]
      BY <1>2, <2>1, <2>3, StartMoves, SessionMoves, KillMoves
    <3>2. op[a].at # "idle" => Left(a)' < Left(a)
      BY <1>2, <2>3, CommandAdvances
    <3> QED
      BY <3>1, <3>2 DEF Advance
  <2>4. ASSUME StartStep(Processor) \/ SessionStep(Processor) \/ Kill(Processor) \/ ProcessorStep
        PROVE  Advance
    <3>1. \A b \in Actors \ {Processor} : op'[b] = op[b]
      BY <1>2, <2>1, <2>4, StartMoves, SessionMoves, KillMoves, PassMoves
    <3>2. op[Processor].at # "idle" => Left(Processor)' < Left(Processor)
      BY <1>2, <2>4, PassAdvances
    <3> QED
      BY <3>1, <3>2 DEF Advance
  <2>5. ASSUME UNCHANGED <<op, todo>> PROVE Advance
    BY <2>5 DEF Advance
  <2>6. ASSUME NEW e \in Events, Capture(e) \/ StoreEvent(e) PROVE Advance
    BY <2>5, <2>6 DEF Capture, StoreEvent
  <2>7. CASE UNCHANGED vars
    BY <2>5, <2>7 DEF vars
  <2> QED
    BY <1>2, <2>1, <2>2, <2>3, <2>4, <2>6, <2>7 DEF Next
<1> QED
  BY <1>1, <1>2, PlacesHold, PTL DEF Spec

-----------------------------------------------------------------------------
(* What a pass leaves behind *)

(* No session is left behind: an open one is the active one, and one that  *)
(* has ended has its report.                                               *)
Tidy == \A s \in Known : s = pointer \/ s \in reported

NoOperator == \A a \in Operators : op[a].at = "idle"

(* A session that is open, and not active, is still to be visited by the   *)
(* first loop or about to be closed.                                       *)
SweptOpen(p) ==
  /\ \A s \in Known : manifest[s].status = "open" =>
       s = pointer \/ s \in todo \/ (p.at \in {"orphan", "gather", "save"} /\ s = p.session)
  /\ p.at \in {"check", "unpoint"} => manifest[p.session].status \in Ended
  /\ p.at = "unpoint" => pointer = p.session
  /\ p.at \in {"recover", "orphan"} \/ (p.at \in ClosingAt /\ p.then = "recover") \/ todo = {}

(* A session that has ended without a report is still to be visited by the *)
(* last loop, or is being visited.                                         *)
SweptEnded(p) ==
  /\ \A s \in Known :
       \/ manifest[s].status = "open" /\ s = pointer
       \/ /\ manifest[s].status # "open"
          /\ s \in reported \/ s \in todo \/ (p.at # "rebuild" /\ s = p.session)
  /\ \A s \in todo : manifest[s].status \in Ended
  /\ p.at # "rebuild" => manifest[p.session].status \in Ended
  /\ p.at \in {"regather", "resave"} => p.status \in Ended

Swept ==
  LET p == op[Processor]
  IN  /\ p.at = "idle" => Tidy
      /\ p.at \in RebuildingAt => SweptEnded(p)
      /\ p.at \notin RebuildingAt \cup {"idle"} => SweptOpen(p)

(* Nothing the pass looks at has changed. *)
LEMMA SweptStays ==
  ASSUME Swept, UNCHANGED <<manifest, pointer, reported, todo>>, op'[Processor] = op[Processor]
  PROVE  Swept'
  BY DEF Swept, Tidy, SweptOpen, SweptEnded, Known

(* The first loop, *)
LEMMA RecoveringSwept ==
  ASSUME SInv, PlacesApart, Swept \/ BeginPass, BeginPass \/ RecoverNext \/ CheckOrphan
  PROVE  Swept'
<1> DEFINE p == op[Processor]
           q == op'[Processor]
<1>1. Processor \in Actors
  BY DEF Actors
<1>2. CASE BeginPass
  <2>1. q.at = "recover"
    BY <1>1, <1>2, GoesOn DEF BeginPass
  <2>2. todo' = Known' /\ UNCHANGED files
    BY <1>2 DEF BeginPass, Known, files
  <2> QED
    BY <2>1, <2>2 DEF Swept, SweptOpen, RebuildingAt
<1>3. CASE Swept /\ RecoverNext
  <2>1. /\ p.at = "recover" /\ UNCHANGED <<manifest, pointer, reported>>
        /\ \A s \in Known : manifest[s].status = "open" => s = pointer \/ s \in todo
    BY <1>3 DEF RecoverNext, files, Swept, SweptOpen, RebuildingAt
  <2>2. PICK s \in todo :
          /\ todo' = todo \ {s}
          /\ IF manifest[s].status = "open"
             THEN op' = [op EXCEPT ![Processor] = At("orphan", s)]
             ELSE UNCHANGED op
    BY <1>3 DEF RecoverNext
  <2>3. CASE manifest[s].status = "open"
    <3>1. q.at = "orphan" /\ q.session = s
      BY <1>1, <2>2, <2>3, TurnsAt
    <3> QED
      BY <2>1, <2>2, <3>1 DEF Swept, SweptOpen, RebuildingAt, Known
  <2>4. CASE manifest[s].status # "open"
    <3>1. q.at = "recover"
      BY <2>1, <2>2, <2>4
    <3> QED
      BY <2>1, <2>2, <2>4, <3>1 DEF Swept, SweptOpen, RebuildingAt, Known
  <2> QED
    BY <2>3, <2>4
<1>4. CASE Swept /\ CheckOrphan
  <2>1. /\ p.at = "orphan" /\ UNCHANGED <<manifest, pointer, reported, todo>>
        /\ \A s \in Known : manifest[s].status = "open" =>
             s = pointer \/ s \in todo \/ s = p.session
    BY <1>4 DEF CheckOrphan, files, Swept, SweptOpen, RebuildingAt
  <2>2. CASE pointer = p.session
    <3>1. q.at = "recover"
      BY <1>1, <1>4, <2>2, TurnsAt DEF CheckOrphan, IsActive
    <3> QED
      BY <2>1, <2>2, <3>1 DEF Swept, SweptOpen, RebuildingAt, Known
  <2>3. CASE pointer # p.session
    <3> DEFINE o == Closing(p.session, "interrupted", "recover")
    <3>1. op' = [op EXCEPT ![Processor] = o]
      BY <1>4, <2>3 DEF CheckOrphan, IsActive
    <3>2. o.at = "gather" /\ o.then = "recover" /\ o.session = p.session
      BY ClosingIs
    <3> HIDE DEF o
    <3>3. q.at = "gather" /\ q.then = "recover" /\ q.session = p.session
      BY <1>1, <3>1, <3>2, TurnsTo
    <3> QED
      BY <2>1, <3>3 DEF Swept, SweptOpen, RebuildingAt, ClosingAt, Known
  <2> QED
    BY <2>2, <2>3
<1>5. CASE Swept /\ BeginPass
  BY <1>2, <1>5
<1> QED
  BY <1>2, <1>3, <1>4

(* the look at the active session, *)
LEMMA IdlingSwept ==
  ASSUME SInv, PlacesApart, Swept, ReadIdlePointer \/ ReadIdleManifest \/ CloseIdle
  PROVE  Swept'
<1> DEFINE p == op[Processor]
           q == op'[Processor]
<1>1. Processor \in Actors
  BY DEF Actors
<1>2. /\ UNCHANGED <<manifest, pointer, reported, todo>> /\ todo = {}
      /\ \A s \in Known : manifest[s].status = "open" => s = pointer
  BY DEF ReadIdlePointer, ReadIdleManifest, CloseIdle, files, Swept, SweptOpen,
         RebuildingAt, ClosingAt
<1>3. ASSUME q.at \in {"list", "idleManifest", "idleEvents", "gather"} PROVE Swept'
  BY <1>2, <1>3 DEF Swept, SweptOpen, RebuildingAt, Known
<1>4. ASSUME NEW at, NEW s, op' = [op EXCEPT ![Processor] = At(at, s)] PROVE q.at = at
  BY <1>1, <1>4, TurnsAt
<1>5. CASE ReadIdlePointer
  BY <1>3, <1>4, <1>5 DEF ReadIdlePointer
<1>6. CASE ReadIdleManifest
  BY <1>1, <1>3, <1>4, <1>6, GoesOn DEF ReadIdleManifest
<1>7. CASE CloseIdle
  <2> DEFINE o == Closing(p.session, "interrupted", "list")
  <2>1. op' = [op EXCEPT ![Processor] = o] \/ op' = [op EXCEPT ![Processor] = At("list", NoSession)]
    BY <1>7 DEF CloseIdle
  <2>2. o.at = "gather"
    BY ClosingIs
  <2> HIDE DEF o
  <2>3. op' = [op EXCEPT ![Processor] = o] => q.at = "gather"
    BY <1>1, <2>2, TurnsTo
  <2> QED
    BY <1>3, <1>4, <2>1, <2>3
<1> QED
  BY <1>5, <1>6, <1>7

(* closing a session, and rebuilding one, *)
LEMMA SessionSwept ==
  ASSUME SInv, PlacesApart, Swept, SessionStep(Processor)
  PROVE  Swept'
<1> DEFINE p == op[Processor]
           q == op'[Processor]
<1>1. /\ Processor \in Actors /\ Processor \notin Operators
      /\ p.at \in PassPlaces
      /\ p.at \in ClosingAt => p.then \in {"recover", "list"}
  BY SessionsAssumption DEF Actors, PlacesApart
<1>2. CASE Gather(Processor)
  <2>1. /\ q.at = IF p.at = "gather" THEN "save" ELSE "resave"
        /\ q.then = p.then /\ q.session = p.session /\ q.status = p.status
        /\ p.at \in {"gather", "regather"}
        /\ UNCHANGED <<manifest, pointer, reported, todo>>
    BY <1>1, <1>2, StaysWith DEF Gather, files
  <2>2. CASE p.at = "gather"
    BY <2>1, <2>2 DEF Swept, SweptOpen, RebuildingAt, ClosingAt, Known
  <2>3. CASE p.at = "regather"
    BY <2>1, <2>3 DEF Swept, SweptEnded, RebuildingAt, Known
  <2> QED
    BY <2>1, <2>2, <2>3
<1>3. CASE Save(Processor)
  <2>1. p.at \in {"save", "resave"}
    BY <1>1, <1>3 DEF Save, PassPlaces, ClosingAt, RebuildingAt
  <2>2. /\ q.at = IF p.at = "save" THEN "check" ELSE "extract"
        /\ q.then = p.then /\ q.session = p.session
    BY <1>1, <1>3, <2>1, ContinuesWith DEF Save
  <2>3. /\ UNCHANGED <<pointer, reported, todo>>
        /\ p.session \in Known /\ p.status \in Ended
        /\ manifest' = [manifest EXCEPT ![p.session] = [status |-> p.status, refs |-> p.refs]]
    BY <1>1, <1>3, <2>1
       DEF Save, SInv, OpensRebuiltOnly, FilesInv, OpsSound, OnKnown, Swept, SweptEnded, RebuildingAt
  <2>4. /\ manifest'[p.session].status = p.status
        /\ \A s \in Sessions \ {p.session} : manifest'[s] = manifest[s]
        /\ Known' = Known /\ Known \subseteq Sessions
    BY <2>3 DEF SInv, FilesInv, SessionsTypeOK, Known, Ended
  <2>5. CASE p.at = "save"
    BY <2>2, <2>3, <2>4, <2>5 DEF Swept, SweptOpen, RebuildingAt, ClosingAt, Ended
  <2>6. CASE p.at = "resave"
    BY <2>2, <2>3, <2>4, <2>6 DEF Swept, SweptEnded, RebuildingAt, Ended, SInv, FilesInv, SessionsTypeOK
  <2> QED
    BY <2>1, <2>5, <2>6
<1>4. CASE CheckPointer(Processor)
  <2>1. /\ p.at = "check" /\ UNCHANGED <<manifest, pointer, reported, todo>>
        /\ SweptOpen(p) /\ p.then \in {"recover", "list"}
    BY <1>1, <1>4 DEF CheckPointer, files, Swept, RebuildingAt, ClosingAt
  <2>2. CASE pointer = p.session
    <3>1. q.at = "unpoint" /\ q.then = p.then /\ q.session = p.session
      BY <1>1, <1>4, <2>2, GoesOn DEF CheckPointer, IsActive
    <3> QED
      BY <2>1, <2>2, <3>1 DEF Swept, SweptOpen, RebuildingAt, ClosingAt, Known
  <2>3. CASE pointer # p.session
    <3>1. q.at = p.then
      BY <1>1, <1>4, <2>3, TurnsAt DEF CheckPointer, IsActive, Closed
    <3> QED
      BY <2>1, <3>1 DEF Swept, SweptOpen, RebuildingAt, ClosingAt, Known
  <2> QED
    BY <2>2, <2>3
<1>5. CASE ClearPointer(Processor)
  <2>1. /\ p.at = "unpoint" /\ UNCHANGED <<manifest, reported, todo>> /\ pointer' = NoSession
        /\ Closed(Processor)
    BY <1>1, <1>5 DEF ClearPointer, PassPlaces, ClosingAt, RebuildingAt
  <2>2. SweptOpen(p) /\ p.then \in {"recover", "list"}
    BY <1>1, <2>1 DEF Swept, RebuildingAt, ClosingAt
  <2>3. q.at = p.then
    BY <1>1, <2>1, TurnsAt DEF Closed
  <2>4. \A s \in Known : manifest[s].status = "open" => s # pointer
    BY <2>1, <2>2 DEF SweptOpen, Ended
  <2> QED
    BY <2>1, <2>2, <2>3, <2>4 DEF Swept, SweptOpen, RebuildingAt, ClosingAt, Known
<1> QED
  BY <1>2, <1>3, <1>4, <1>5 DEF SessionStep

(* and the last loop leave nothing out. *)
LEMMA RebuildingSwept ==
  ASSUME SInv, PlacesApart, Swept, ListPending \/ RebuildNext \/ ReadExtracted \/ SaveReport
  PROVE  Swept'
<1> DEFINE p == op[Processor]
           q == op'[Processor]
<1>1. Processor \in Actors
  BY DEF Actors
<1>2. \A s \in Known : manifest[s].status \in Ended \cup {"open"}
  BY DEF SInv, FilesInv, SessionsTypeOK, Known
<1>3. CASE ListPending
  <2>1. /\ p.at = "list" /\ UNCHANGED <<manifest, pointer, reported>> /\ todo' = Pending
        /\ todo = {}
        /\ \A s \in Known : manifest[s].status = "open" => s = pointer
    BY <1>3 DEF ListPending, files, Swept, SweptOpen, RebuildingAt, ClosingAt
  <2>2. q.at = IF Pending = {} THEN "idle" ELSE "rebuild"
    BY <1>1, <1>3, GoesOn DEF ListPending
  <2>3. Pending = {s \in Known : manifest[s].status \in Ended} \ reported
    BY DEF Pending
  <2>4. CASE Pending = {}
    BY <1>2, <2>1, <2>2, <2>3, <2>4 DEF Swept, Tidy, RebuildingAt, Known
  <2>5. CASE Pending # {}
    BY <1>2, <2>1, <2>2, <2>3, <2>5 DEF Swept, SweptEnded, RebuildingAt, Known, Ended
  <2> QED
    BY <2>4, <2>5
<1>4. CASE RebuildNext
  <2>1. /\ p.at = "rebuild" /\ UNCHANGED <<manifest, pointer, reported>> /\ SweptEnded(p)
    BY <1>4 DEF RebuildNext, files, Swept, RebuildingAt
  <2>2. PICK s \in todo : todo' = todo \ {s} /\ op' = [op EXCEPT ![Processor] = Rebuilding(s)]
    BY <1>4 DEF RebuildNext
  <2>3. q.at = "regather" /\ q.session = s /\ q.status = manifest[s].status
    BY <1>1, <2>2, TurnsRebuilding
  <2> QED
    BY <2>1, <2>2, <2>3 DEF Swept, SweptEnded, RebuildingAt, Known
<1>5. ASSUME NextOrDone
      PROVE  q.at = IF todo = {} THEN "idle" ELSE "rebuild"
  BY <1>1, <1>5, TurnsAt DEF NextOrDone
<1>6. CASE ReadExtracted
  <2>1. /\ p.at = "extract" /\ UNCHANGED <<manifest, pointer, reported, todo>> /\ SweptEnded(p)
    BY <1>6 DEF ReadExtracted, files, Swept, RebuildingAt
  <2>2. manifest[p.session].status # "open"
    BY <2>1 DEF SweptEnded, Ended
  <2>3. q.at = "report" /\ q.session = p.session
    BY <1>1, <1>6, <2>2, GoesOn DEF ReadExtracted
  <2> QED
    BY <2>1, <2>3 DEF Swept, SweptEnded, RebuildingAt, Known
<1>7. CASE SaveReport
  <2>1. /\ p.at = "report" /\ UNCHANGED <<manifest, pointer, todo>> /\ SweptEnded(p)
        /\ reported' = reported \cup {p.session}
    BY <1>7 DEF SaveReport, files, Swept, RebuildingAt
  <2>2. q.at = IF todo = {} THEN "idle" ELSE "rebuild"
    BY <1>5, <1>7 DEF SaveReport
  <2>3. CASE todo = {}
    BY <2>1, <2>2, <2>3 DEF Swept, SweptEnded, Tidy, RebuildingAt, Known
  <2>4. CASE todo # {}
    BY <2>1, <2>2, <2>4 DEF Swept, SweptEnded, RebuildingAt, Known
  <2> QED
    BY <2>3, <2>4
<1> QED
  BY <1>3, <1>4, <1>6, <1>7

(* One pass that no operator disturbs and that is not killed sweeps all:   *)
(* from its first step on everything left behind is still ahead of it, and *)
(* when it is over nothing is. Together with ProcessesAdvance this is      *)
(* TidyInTheEnd but for the fairness.                                      *)
THEOREM QuietPassesTidy ==
  Spec => [][NoOperator /\ NoOperator' /\ ~Kill(Processor) /\ (Swept \/ BeginPass) => Swept']_vars
<1> DEFINE Quiet == NoOperator /\ NoOperator' /\ ~Kill(Processor) /\ (Swept \/ BeginPass) => Swept'
<1>1. ASSUME SInv, PlacesApart, [Next]_vars PROVE Quiet
  <2> SUFFICES ASSUME NoOperator, NoOperator', ~Kill(Processor), Swept \/ BeginPass PROVE Swept'
    OBVIOUS
  <2>1. Processor \in Actors /\ Processor \notin Operators /\ Operators \subseteq Actors
        /\ \A a \in Actors : a \in Operators \/ a = Processor
    BY SessionsAssumption DEF Actors
  <2>2. ASSUME NEW a \in Operators,
               BeginStart(a) \/ \E s \in Sessions : BeginClose(a, s) \/ BeginRebuild(a, s)
        PROVE  FALSE
    BY <1>1, <2>2, CommandMoves DEF NoOperator
  <2>3. ASSUME NEW a \in Operators, StartStep(a) \/ SessionStep(a) PROVE FALSE
    <3>1. op[a].at = "idle"
      BY DEF NoOperator
    <3> QED
      BY <1>1, <2>1, <2>3, <3>1, StartMoves, SessionMoves
  <2>4. ASSUME StartStep(Processor) PROVE FALSE
    BY <1>1, <2>1, <2>4, StartMoves DEF PlacesApart, PassPlaces, ClosingAt, RebuildingAt
  <2>5. CASE BeginPass \/ RecoverNext \/ CheckOrphan
    BY <1>1, <2>5, RecoveringSwept
  <2>6. ASSUME ~BeginPass PROVE Swept
    BY <2>6
  <2>7. ASSUME ~BeginPass, ProcessorStep \/ SessionStep(Processor) PROVE Swept'
    BY <1>1, <2>5, <2>6, <2>7, IdlingSwept, SessionSwept, RebuildingSwept DEF ProcessorStep
  <2>8. ASSUME UNCHANGED <<manifest, pointer, reported, todo>>, op'[Processor] = op[Processor]
        PROVE  Swept'
    <3>1. ~BeginPass
      BY <1>1, <2>1, <2>8, GoesOn DEF BeginPass, Idle
    <3> QED
      BY <2>6, <2>8, <3>1, SweptStays
  <2>9. ASSUME NEW a \in Operators, Kill(a) PROVE Swept'
    BY <1>1, <2>1, <2>8, <2>9, KillMoves DEF Kill, files
  <2>10. ASSUME NEW e \in Events, Capture(e) \/ StoreEvent(e) PROVE Swept'
    BY <2>8, <2>10 DEF Capture, StoreEvent
  <2>11. CASE UNCHANGED vars
    BY <2>8, <2>11 DEF vars, files
  <2> QED
    BY <1>1, <2>1, <2>2, <2>3, <2>4, <2>5, <2>7, <2>9, <2>10, <2>11 DEF Next
<1> QED
  BY <1>1, PlacesHold, PTL DEF Spec

=============================================================================
