---------------------- MODULE CapabilityKernel_proofs ----------------------
(***************************************************************************)
(* What holds of CapabilityKernel for any number of submissions, any       *)
(* events, capabilities, limits of attempts and kills: what was answered   *)
(* is not executed again, a completed record is backed by its output and   *)
(* its steps, and only handlers that timed out outlive their attempt.      *)
(***************************************************************************)
EXTENDS CapabilityKernel, FiniteSetTheorems, TLAPS

Phases == {"idle"} \cup Open \cup Ended

Records == [phase : Phases, event : Events, past : SUBSET Runs, running : BOOLEAN,
            attempts : Seq(Codes \cup {"completed"}), terminal : Terminals \cup {"none"}]

Types ==
  /\ run \in [Runs -> Records]
  /\ chain \in Seq(Runs) /\ log \subseteq Runs /\ outputs \subseteq Runs
  /\ damaged \in BOOLEAN /\ kills \in 0 .. MaxKills
  /\ handlers \subseteq Runs \X (Nat \ {0})

(* A record waits in the chain exactly while its submission does, once. *)
ChainOrder ==
  /\ \A r \in Runs : run[r].phase = "append" <=> \E i \in DOMAIN chain : chain[i] = r
  /\ \A i, j \in DOMAIN chain : chain[i] = chain[j] => i = j

(* What a record says of its run, at every phase of the submission. *)
RecordSound(r, now) ==
  /\ now.phase \in {"idle", "checking", "executing"} => now.terminal = "none"
  /\ now.phase = "output" => now.terminal = "completed"
  /\ now.phase \in {"append", "answered"} => now.terminal # "none"
  /\ now.terminal = "completed" =>
       /\ now.phase \notin {"idle", "checking", "executing"}
       /\ Done(now.attempts) = Tracks[r]
       /\ now.attempts # <<>> /\ now.attempts[Len(now.attempts)] = "completed"
  /\ now.phase \in {"idle", "checking"} => ~now.running
  /\ now.phase = "idle" => now.past = {} /\ now.attempts = <<>>

FilesSound ==
  /\ \A r \in Runs : RecordSound(r, run[r])
  /\ \A r \in log : run[r].phase \in Ended /\ run[r].terminal # "none"
  /\ \A r \in Runs : run[r].terminal = "completed"
                      /\ (r \in log \/ run[r].phase \in {"append", "answered"}) => r \in outputs

(* What was executed and answered is in the log, unless it is damaged, and *)
(* damage lasts.                                                           *)
Remembered ==
  /\ \A r \in Runs : run[r].phase = "answered" /\ run[r].running => r \in log \/ damaged
  /\ \A r \in Runs : \A q \in run[r].past :
       run[q].phase = "answered" /\ run[q].running /\ run[q].event = run[r].event

KInv ==
  /\ Types /\ ChainOrder /\ FilesSound /\ Remembered
  /\ AnsweredNeverReplayed /\ OnlyTimedOutHandlersLinger

-----------------------------------------------------------------------------
(* The invariant holds at first. *)
LEMMA InitKInv == Init => KInv
<1> SUFFICES ASSUME Init PROVE KInv
  OBVIOUS
<1>1. PICK e \in Events : Fresh = [phase |-> "idle", event |-> e, past |-> {}, running |-> FALSE,
                                   attempts |-> <<>>, terminal |-> "none"]
  BY KernelAssumption DEF Fresh, Received
<1>2. Fresh \in Records
  BY <1>1 DEF Records, Phases, Terminals
<1>3. Types
  <2>1. run \in [Runs -> Records] /\ chain \in Seq(Runs)
    BY <1>2 DEF Init
  <2>2. kills \in 0 .. MaxKills
    BY KernelAssumption DEF Init
  <2>3. log \subseteq Runs /\ outputs \subseteq Runs /\ handlers \subseteq Runs \X (Nat \ {0})
    BY DEF Init
  <2>4. damaged \in BOOLEAN
    BY DEF Init
  <2> QED
    BY <2>1, <2>2, <2>3, <2>4 DEF Types
<1>4. ChainOrder
  BY <1>1 DEF Init, ChainOrder
<1>5. FilesSound
  BY <1>1 DEF Init, FilesSound, RecordSound
<1>6. Remembered /\ AnsweredNeverReplayed /\ OnlyTimedOutHandlersLinger
  BY <1>1 DEF Init, Remembered, AnsweredNeverReplayed, OnlyTimedOutHandlersLinger
<1> QED
  BY <1>3, <1>4, <1>5, <1>6 DEF KInv

(* Submission r goes on as now, and its record may join the chain. *)
LEMMA Submission ==
  ASSUME KInv, NEW r \in Runs, NEW now \in Records, run' = [run EXCEPT ![r] = now],
         run[r].phase \in {"idle", "checking", "executing", "output"},
         RecordSound(r, now),
         \/ now.phase = "append" /\ chain' = Append(chain, r)
         \/ now.phase \notin {"append", "answered"} /\ chain' = chain,
         UNCHANGED <<log, damaged, kills>>,
         outputs \subseteq outputs', outputs' \subseteq Runs,
         now.terminal = "completed" /\ now.phase = "append" => r \in outputs',
         \A q \in now.past :
           run[q].phase = "answered" /\ run[q].running /\ run[q].event = now.event,
         now.running => now.past = {},
         handlers' \subseteq Runs \X (Nat \ {0}),
         \A h \in handlers' :
           \/ h[1] # r /\ h \in handlers
           \/ h[1] = r /\ now.phase = "executing" /\ h[2] = Len(now.attempts) + 1
           \/ /\ h[1] = r /\ h[2] <= Len(now.attempts)
              /\ now.attempts[h[2]] = "HANDLER_TIMEOUT"
  PROVE  KInv'
<1>1. run' \in [Runs -> Records] /\ run'[r] = now
      /\ \A q \in Runs \ {r} : run'[q] = run[q]
  BY DEF KInv, Types
<1>2. Types'
  <2>1. log' \subseteq Runs /\ damaged' \in BOOLEAN /\ kills' \in 0 .. MaxKills
    BY DEF KInv, Types
  <2>2. chain' \in Seq(Runs)
    BY DEF KInv, Types
  <2> QED
    BY <1>1, <2>1, <2>2 DEF Types
<1>3. ChainOrder'
  <2>1. \A i \in DOMAIN chain : chain[i] # r
    BY DEF KInv, ChainOrder
  <2>2. CASE chain' = chain
    <3>1. now.phase # "append"
      <4>1. ASSUME now.phase = "append" PROVE FALSE
        <5>1. chain' = Append(chain, r)
          BY <4>1
        <5> QED
          BY <2>2, <5>1 DEF KInv, Types
      <4> QED
        BY <4>1
    <3> QED
      BY <1>1, <2>1, <2>2, <3>1 DEF KInv, ChainOrder
  <2>3. CASE now.phase = "append" /\ chain' = Append(chain, r)
    <3>1. DOMAIN chain = 1 .. Len(chain) /\ Len(chain) \in Nat
          /\ DOMAIN chain' = 1 .. Len(chain) + 1 /\ chain'[Len(chain) + 1] = r
          /\ \A i \in DOMAIN chain : chain'[i] = chain[i]
      BY <2>3 DEF KInv, Types
    <3>2. \A i \in DOMAIN chain' : i \in DOMAIN chain \/ i = Len(chain) + 1
      BY <3>1
    <3>3. \A q \in Runs \ {r} : (\E i \in DOMAIN chain' : chain'[i] = q)
                               <=> (\E i \in DOMAIN chain : chain[i] = q)
      BY <3>1, <3>2
    <3>4. \A i, j \in DOMAIN chain' : chain'[i] = chain'[j] => i = j
      BY <2>1, <3>1, <3>2 DEF KInv, ChainOrder
    <3>5. \E i \in DOMAIN chain' : chain'[i] = r
      BY <3>1
    <3> QED
      BY <1>1, <2>3, <3>3, <3>4, <3>5 DEF KInv, ChainOrder
  <2> QED
    BY <2>2, <2>3
<1>4. FilesSound'
  <2>1. r \notin log
    BY DEF KInv, FilesSound, Ended
  <2>2. \A q \in Runs : RecordSound(q, run'[q])
    BY <1>1 DEF KInv, FilesSound
  <2>3. \A q \in log' : run'[q].phase \in Ended /\ run'[q].terminal # "none"
    BY <1>1, <2>1 DEF KInv, FilesSound, Types
  <2>4. \A q \in Runs : run'[q].terminal = "completed"
                         /\ (q \in log' \/ run'[q].phase \in {"append", "answered"}) => q \in outputs'
    BY <1>1, <2>1 DEF KInv, FilesSound
  <2>5. \A q \in Runs : RecordSound(q, run[q])'
    BY <2>2 DEF RecordSound, Done
  <2> QED
    BY <2>3, <2>4, <2>5 DEF FilesSound
<1>5. Remembered'
  <2>1. \A q \in Runs : \A p \in run'[q].past : p # r /\ p \in Runs
    BY <1>1 DEF KInv, Remembered, Types, Records
  <2> QED
    BY <1>1, <2>1 DEF KInv, Remembered
<1>6. AnsweredNeverReplayed'
  BY <1>1 DEF KInv, AnsweredNeverReplayed
<1>7. OnlyTimedOutHandlersLinger'
  BY <1>1, <1>2 DEF KInv, OnlyTimedOutHandlersLinger, Types
<1> QED
  BY <1>2, <1>3, <1>4, <1>5, <1>6, <1>7 DEF KInv

(* Submission r ends its run with the record now. *)
LEMMA Finishing ==
  ASSUME KInv, NEW r \in Runs, NEW now \in Records, NEW terminal \in Terminals, NEW code,
         Finish(r, now, terminal, code),
         run[r].phase \in {"idle", "checking", "executing"},
         terminal = "completed" =>
           /\ Done(now.attempts) = Tracks[r]
           /\ now.attempts # <<>> /\ now.attempts[Len(now.attempts)] = "completed",
         UNCHANGED <<log, damaged, kills, outputs>>,
         \A q \in now.past :
           run[q].phase = "answered" /\ run[q].running /\ run[q].event = now.event,
         now.running => now.past = {},
         handlers' \subseteq Runs \X (Nat \ {0}),
         \A h \in handlers' :
           \/ h[1] # r /\ h \in handlers
           \/ /\ h[1] = r /\ h[2] <= Len(now.attempts)
              /\ now.attempts[h[2]] = "HANDLER_TIMEOUT"
  PROVE  KInv'
<1> DEFINE ended == [now EXCEPT !.terminal = terminal]
           last(phase) == [ended EXCEPT !.phase = phase]
<1>1. ASSUME NEW phase \in {"output", "thrown", "append"}
      PROVE  /\ last(phase) \in Records /\ last(phase).phase = phase
             /\ last(phase).terminal = terminal /\ last(phase).event = now.event
             /\ last(phase).past = now.past /\ last(phase).running = now.running
             /\ last(phase).attempts = now.attempts
  BY DEF Records, Phases, Open, Ended
<1>2. \/ terminal = "completed" /\ run' = [run EXCEPT ![r] = last("output")] /\ chain' = chain
      \/ terminal # "completed" /\ run' = [run EXCEPT ![r] = last("thrown")] /\ chain' = chain
      \/ /\ terminal # "completed" /\ run' = [run EXCEPT ![r] = last("append")]
         /\ chain' = Append(chain, r)
  BY DEF Finish
<1> HIDE DEF last
<1>3. PICK phase \in {"output", "thrown", "append"} :
        /\ run' = [run EXCEPT ![r] = last(phase)]
        /\ phase = "output" <=> terminal = "completed"
        /\ \/ phase = "append" /\ chain' = Append(chain, r)
           \/ phase # "append" /\ chain' = chain
  BY <1>2
<1> DEFINE new == last(phase)
<1>4. /\ new \in Records /\ new.phase = phase /\ new.terminal = terminal
      /\ new.event = now.event /\ new.past = now.past /\ new.running = now.running
      /\ new.attempts = now.attempts
  BY <1>1, <1>3
<1> HIDE DEF new
<1>5. run' = [run EXCEPT ![r] = new]
  BY <1>3 DEF new
<1>6. RecordSound(r, new)
  BY <1>3, <1>4 DEF RecordSound, Terminals
<1>7. outputs' \subseteq Runs /\ outputs \subseteq outputs'
  BY DEF KInv, Types
<1>8. \A h \in handlers' :
        \/ h[1] # r /\ h \in handlers
        \/ h[1] = r /\ new.phase = "executing" /\ h[2] = Len(new.attempts) + 1
        \/ /\ h[1] = r /\ h[2] <= Len(new.attempts)
           /\ new.attempts[h[2]] = "HANDLER_TIMEOUT"
  BY <1>4
<1>9. /\ new.terminal = "completed" /\ new.phase = "append" => r \in outputs'
      /\ \/ new.phase = "append" /\ chain' = Append(chain, r)
         \/ new.phase \notin {"append", "answered"} /\ chain' = chain
      /\ \A q \in new.past :
           run[q].phase = "answered" /\ run[q].running /\ run[q].event = new.event
      /\ new.running => new.past = {}
  BY <1>3, <1>4
<1> QED
  BY <1>4, <1>5, <1>6, <1>7, <1>8, <1>9, Submission

(* Submission r calls the handler of its next attempt. *)
LEMMA Attempting ==
  ASSUME KInv, NEW r \in Runs, NEW now \in Records, NEW others, Attempt(r, now, others),
         run[r].phase \in {"checking", "executing"},
         now.phase = "executing", now.terminal = "none",
         UNCHANGED <<log, damaged, kills, outputs>>,
         \A q \in now.past :
           run[q].phase = "answered" /\ run[q].running /\ run[q].event = now.event,
         now.running => now.past = {},
         others \subseteq Runs \X (Nat \ {0}),
         \A h \in others :
           \/ h[1] # r /\ h \in handlers
           \/ /\ h[1] = r /\ h[2] <= Len(now.attempts)
              /\ now.attempts[h[2]] = "HANDLER_TIMEOUT"
  PROVE  KInv'
<1>1. /\ run' = [run EXCEPT ![r] = now] /\ chain' = chain
      /\ handlers' = others \cup {<<r, Len(now.attempts) + 1>>}
  BY DEF Attempt
<1>2. Len(now.attempts) + 1 \in Nat \ {0}
  BY DEF Records
<1>3. handlers' \subseteq Runs \X (Nat \ {0})
  BY <1>1, <1>2
<1>4. RecordSound(r, now)
  BY DEF RecordSound
<1>5. outputs' \subseteq Runs /\ outputs \subseteq outputs'
  BY DEF KInv, Types
<1>6. \A h \in handlers' :
        \/ h[1] # r /\ h \in handlers
        \/ h[1] = r /\ now.phase = "executing" /\ h[2] = Len(now.attempts) + 1
        \/ /\ h[1] = r /\ h[2] <= Len(now.attempts)
           /\ now.attempts[h[2]] = "HANDLER_TIMEOUT"
  BY <1>1
<1> QED
  BY <1>1, <1>3, <1>4, <1>5, <1>6, Submission

(* What the invariant says of submission r and its handlers. *)
LEMMA OneSubmission ==
  ASSUME KInv, NEW r \in Runs
  PROVE  /\ run[r] \in Records /\ RecordSound(r, run[r])
         /\ handlers \subseteq Runs \X (Nat \ {0})
         /\ \A q \in run[r].past :
              run[q].phase = "answered" /\ run[q].running /\ run[q].event = run[r].event
         /\ run[r].running => run[r].past = {}
         /\ \A h \in handlers :
              \/ h[1] # r
              \/ h[1] = r /\ run[r].phase = "executing" /\ h[2] = Len(run[r].attempts) + 1
              \/ /\ h[1] = r /\ h[2] <= Len(run[r].attempts)
                 /\ run[r].attempts[h[2]] = "HANDLER_TIMEOUT"
  BY DEF KInv, Types, FilesSound, Remembered, AnsweredNeverReplayed, OnlyTimedOutHandlersLinger

(* submitEvent up to the duplicate check. *)
LEMMA SubmitKInv ==
  ASSUME KInv, NEW r \in Runs, NEW e \in Events, Submit(r, e)
  PROVE  KInv'
<1> DEFINE past == {q \in Runs : run[q].phase = "answered" /\ run[q].running /\ run[q].event = e}
           now == Received("idle", e, past)
           checking == Received("checking", e, past)
<1>2. past \in SUBSET Runs
  OBVIOUS
<1>4. now \in Records /\ checking \in Records
  BY <1>2 DEF Received, Records, Phases, Open, Terminals
<1>5. /\ run[r].phase = "idle" /\ UNCHANGED <<log, damaged, outputs, handlers, kills>>
      /\ \/ run' = [run EXCEPT ![r] = checking] /\ chain' = chain
         \/ Finish(r, now, "refused", "string")
  BY DEF Submit
<1>6. \A h \in handlers : h[1] # r
  BY <1>5, OneSubmission DEF RecordSound
<1>7. \A q \in past : run[q].phase = "answered" /\ run[q].running /\ run[q].event = e
  OBVIOUS
<1>8. /\ now.past = past /\ now.event = e /\ ~ now.running /\ now.attempts = <<>>
      /\ checking.past = past /\ checking.event = e /\ ~ checking.running
      /\ checking.phase = "checking" /\ checking.terminal = "none" /\ checking.attempts = <<>>
  BY DEF Received
<1> HIDE DEF now, checking, past
<1>9. handlers' \subseteq Runs \X (Nat \ {0}) /\ \A h \in handlers' : h[1] # r /\ h \in handlers
  BY <1>5, <1>6, OneSubmission
<1>10. CASE run' = [run EXCEPT ![r] = checking] /\ chain' = chain
  <2>1. RecordSound(r, checking)
    BY <1>8 DEF RecordSound
  <2>2. outputs' \subseteq Runs /\ outputs \subseteq outputs'
    BY <1>5 DEF KInv, Types
  <2> QED
    BY <1>4, <1>5, <1>7, <1>8, <1>9, <1>10, <2>1, <2>2, Submission
<1>11. CASE Finish(r, now, "refused", "string")
  BY <1>4, <1>5, <1>7, <1>8, <1>9, <1>11, Finishing DEF Terminals
<1> QED
  BY <1>5, <1>10, <1>11

(* The duplicate check, and what follows up to the first handler. *)
LEMMA CheckKInv ==
  ASSUME KInv, NEW r \in Runs, Check(r)
  PROVE  KInv'
<1> DEFINE started == [run[r] EXCEPT !.phase = "executing", !.running = TRUE]
           thrown == [run[r] EXCEPT !.phase = "thrown"]
<1>1. /\ run[r].phase = "checking" /\ UNCHANGED <<log, damaged, outputs, kills>>
      /\ \/ run' = [run EXCEPT ![r] = thrown] /\ UNCHANGED <<chain, handlers>>
         \/ Finish(r, run[r], "refused", "string") /\ handlers' = handlers
         \/ ~damaged /\ ~HasExecutedEvent(run[r].event) /\ Attempt(r, started, handlers)
         \/ /\ ~damaged /\ ~HasExecutedEvent(run[r].event)
            /\ Finish(r, started, "failed", "string") /\ handlers' = handlers
  BY DEF Check
<1>2. /\ started \in Records /\ started.phase = "executing"
      /\ started.past = run[r].past /\ started.event = run[r].event
      /\ started.attempts = run[r].attempts /\ started.terminal = run[r].terminal
  <2> DEFINE executing == [run[r] EXCEPT !.phase = "executing"]
  <2>1. /\ executing \in Records /\ executing.phase = "executing"
        /\ executing.past = run[r].past /\ executing.event = run[r].event
        /\ executing.attempts = run[r].attempts /\ executing.terminal = run[r].terminal
    BY OneSubmission DEF Records, Phases, Open
  <2>2. started = [executing EXCEPT !.running = TRUE]
    OBVIOUS
  <2> HIDE DEF executing, started
  <2> QED
    BY <2>1, <2>2 DEF Records
<1>3. /\ thrown \in Records /\ thrown.phase = "thrown" /\ thrown.running = run[r].running
      /\ thrown.past = run[r].past /\ thrown.event = run[r].event
      /\ thrown.attempts = run[r].attempts /\ thrown.terminal = run[r].terminal
  BY OneSubmission DEF Records, Phases, Ended
<1>4. \A h \in handlers :
        \/ h[1] # r
        \/ h[1] = r /\ h[2] <= Len(run[r].attempts) /\ run[r].attempts[h[2]] = "HANDLER_TIMEOUT"
  BY <1>1, OneSubmission
<1>5. run[r].terminal = "none" /\ ~ run[r].running
  BY <1>1, OneSubmission DEF RecordSound
<1>6. outputs' \subseteq Runs /\ outputs \subseteq outputs'
  BY <1>1 DEF KInv, Types
<1>7. ~damaged /\ ~HasExecutedEvent(run[r].event) => run[r].past = {}
  <2>1. \A q \in run[r].past : q \in Runs
    BY OneSubmission DEF Records
  <2>2. \A q \in run[r].past : q \in log \/ damaged
    BY <2>1, OneSubmission DEF KInv, Remembered
  <2> QED
    BY <2>2, OneSubmission DEF HasExecutedEvent
<1> HIDE DEF started, thrown
<1>8. CASE run' = [run EXCEPT ![r] = thrown] /\ UNCHANGED <<chain, handlers>>
  <2>1. RecordSound(r, thrown)
    BY <1>3, <1>5 DEF RecordSound
  <2>2. /\ handlers' \subseteq Runs \X (Nat \ {0})
        /\ \A h \in handlers' :
             \/ h[1] # r /\ h \in handlers
             \/ /\ h[1] = r /\ h[2] <= Len(thrown.attempts)
                /\ thrown.attempts[h[2]] = "HANDLER_TIMEOUT"
    BY <1>3, <1>4, <1>8, OneSubmission
  <2>3. /\ \A q \in thrown.past :
             run[q].phase = "answered" /\ run[q].running /\ run[q].event = thrown.event
        /\ thrown.running => thrown.past = {}
    BY <1>3, OneSubmission
  <2>4. /\ run[r].phase \in {"idle", "checking", "executing", "output"}
        /\ thrown.phase \notin {"append", "answered"} /\ chain' = chain
        /\ ~(thrown.terminal = "completed" /\ thrown.phase = "append")
        /\ UNCHANGED <<log, damaged, kills>> /\ run' = [run EXCEPT ![r] = thrown]
    BY <1>1, <1>3, <1>8
  <2>5. thrown \in Records
    BY <1>3
  <2> QED
    BY <1>6, <2>1, <2>2, <2>3, <2>4, <2>5, Submission
<1>9. CASE Finish(r, run[r], "refused", "string") /\ handlers' = handlers
  BY <1>1, <1>4, <1>9, OneSubmission, Finishing DEF Terminals
<1>10. CASE ~damaged /\ ~HasExecutedEvent(run[r].event) /\ Attempt(r, started, handlers)
  BY <1>1, <1>2, <1>4, <1>5, <1>7, <1>10, OneSubmission, Attempting
<1>11. CASE /\ ~damaged /\ ~HasExecutedEvent(run[r].event)
            /\ Finish(r, started, "failed", "string") /\ handlers' = handlers
  BY <1>1, <1>2, <1>4, <1>7, <1>11, OneSubmission, Finishing DEF Terminals
<1> QED
  BY <1>1, <1>8, <1>9, <1>10, <1>11

(* The record of submission r once an attempt has ended with code c. *)
After(r, c) == [run[r] EXCEPT !.attempts = Append(run[r].attempts, c)]

LEMMA AttemptEnded ==
  ASSUME KInv, NEW r \in Runs, NEW c \in Codes \cup {"completed"}
  PROVE  /\ After(r, c) \in Records /\ After(r, c).phase = run[r].phase /\ After(r, c).past = run[r].past
         /\ After(r, c).event = run[r].event /\ After(r, c).running = run[r].running
         /\ After(r, c).terminal = run[r].terminal
         /\ Len(run[r].attempts) \in Nat
         /\ Len(After(r, c).attempts) = Len(run[r].attempts) + 1
         /\ After(r, c).attempts[Len(run[r].attempts) + 1] = c /\ After(r, c).attempts # <<>>
         /\ \A i \in 1 .. Len(run[r].attempts) : After(r, c).attempts[i] = run[r].attempts[i]
<1> DEFINE s == run[r].attempts
<1>1. run[r] \in Records /\ s \in Seq(Codes \cup {"completed"})
  BY OneSubmission DEF Records
<1>2. Append(s, c) \in Seq(Codes \cup {"completed"}) /\ Len(s) \in Nat
      /\ Len(Append(s, c)) = Len(s) + 1 /\ Append(s, c)[Len(s) + 1] = c
      /\ \A i \in 1 .. Len(s) : Append(s, c)[i] = s[i]
  BY <1>1
<1>3. Append(s, c) # <<>>
  BY <1>2
<1> HIDE DEF s
<1>4. /\ After(r, c) \in Records /\ After(r, c).phase = run[r].phase /\ After(r, c).past = run[r].past
      /\ After(r, c).event = run[r].event /\ After(r, c).running = run[r].running
      /\ After(r, c).terminal = run[r].terminal /\ After(r, c).attempts = Append(s, c)
  BY <1>1, <1>2 DEF Records, After, s
<1> QED
  BY <1>2, <1>3, <1>4 DEF s

(* The handlers that are left when the awaited one has ended. *)
LEMMA OthersTimedOut ==
  ASSUME KInv, NEW r \in Runs, NEW n, Answers(r, n), NEW c \in Codes \cup {"completed"},
         NEW h \in handlers \ {<<r, n>>}
  PROVE  \/ h[1] # r /\ h \in handlers
         \/ /\ h[1] = r /\ h[2] <= Len(After(r, c).attempts)
            /\ After(r, c).attempts[h[2]] = "HANDLER_TIMEOUT"
<1>1. n = Len(run[r].attempts) + 1
  BY DEF Answers
<1>2. h = <<h[1], h[2]>> /\ h[2] \in Nat \ {0}
  BY OneSubmission
<1>3. h[1] = r => h[2] <= Len(run[r].attempts) /\ run[r].attempts[h[2]] = "HANDLER_TIMEOUT"
  BY <1>1, <1>2, OneSubmission
<1>4. /\ Len(run[r].attempts) \in Nat /\ Len(After(r, c).attempts) = Len(run[r].attempts) + 1
      /\ \A i \in 1 .. Len(run[r].attempts) : After(r, c).attempts[i] = run[r].attempts[i]
  BY AttemptEnded
<1>5. CASE h[1] = r
  <2>1. h[2] \in 1 .. Len(run[r].attempts)
    BY <1>2, <1>3, <1>4, <1>5
  <2>2. h[2] <= Len(After(r, c).attempts)
    BY <1>4, <2>1
  <2> QED
    BY <1>3, <1>4, <1>5, <2>1, <2>2
<1> QED
  BY <1>5

(* An attempt that failed is followed by another or ends the run. *)
LEMMA FailsKInv ==
  ASSUME KInv, NEW r \in Runs, NEW code \in Codes, NEW others, AttemptFails(r, code, others),
         run[r].phase = "executing", UNCHANGED <<log, damaged, kills, outputs>>,
         others \subseteq handlers,
         \A h \in others :
           \/ h[1] # r /\ h \in handlers
           \/ /\ h[1] = r /\ h[2] <= Len(After(r, code).attempts)
              /\ After(r, code).attempts[h[2]] = "HANDLER_TIMEOUT"
  PROVE  KInv'
<1> DEFINE now == After(r, code)
<1>1. \/ Attempt(r, now, others)
      \/ Finish(r, now, "failed", code) /\ handlers' = others
  BY DEF AttemptFails, After
<1>2. /\ now \in Records /\ now.phase = run[r].phase /\ now.past = run[r].past
      /\ now.event = run[r].event /\ now.running = run[r].running
      /\ now.terminal = run[r].terminal
  BY AttemptEnded
<1>3. \A h \in others :
        \/ h[1] # r /\ h \in handlers
        \/ /\ h[1] = r /\ h[2] <= Len(now.attempts)
           /\ now.attempts[h[2]] = "HANDLER_TIMEOUT"
  OBVIOUS
<1> HIDE DEF now
<1>4. /\ others \subseteq Runs \X (Nat \ {0}) /\ run[r].terminal = "none"
      /\ \A q \in now.past :
           run[q].phase = "answered" /\ run[q].running /\ run[q].event = now.event
      /\ now.running => now.past = {}
  BY <1>2, OneSubmission DEF RecordSound
<1>5. CASE Attempt(r, now, others)
  BY <1>2, <1>3, <1>4, <1>5, Attempting
<1>6. CASE Finish(r, now, "failed", code) /\ handlers' = others
  BY <1>2, <1>3, <1>4, <1>6, Finishing DEF Terminals
<1> QED
  BY <1>1, <1>5, <1>6

(* The handler of the attempt returns. *)
LEMMA ReturnsKInv ==
  ASSUME KInv, NEW r \in Runs, NEW n, Returns(r, n)
  PROVE  KInv'
<1> DEFINE now == After(r, "completed")
           others == handlers \ {<<r, n>>}
<1>1. /\ Answers(r, n) /\ UNCHANGED <<log, damaged, kills, outputs>>
      /\ \/ Finish(r, now, "failed", "string") /\ handlers' = others
         \/ /\ Done(now.attempts) = Tracks[r]
            /\ Finish(r, now, "completed", "none") /\ handlers' = others
         \/ Attempt(r, now, others)
  BY DEF Returns, After
<1>2. /\ now \in Records /\ now.phase = run[r].phase /\ now.past = run[r].past
      /\ now.event = run[r].event /\ now.running = run[r].running
      /\ now.terminal = run[r].terminal /\ now.attempts # <<>>
      /\ now.attempts[Len(now.attempts)] = "completed"
  BY AttemptEnded
<1>3. \A h \in others :
        \/ h[1] # r /\ h \in handlers
        \/ /\ h[1] = r /\ h[2] <= Len(now.attempts)
           /\ now.attempts[h[2]] = "HANDLER_TIMEOUT"
  BY <1>1, OthersTimedOut
<1>4. others \subseteq Runs \X (Nat \ {0})
  BY OneSubmission
<1> HIDE DEF now, others
<1>5. /\ run[r].phase = "executing" /\ run[r].terminal = "none"
      /\ \A q \in now.past :
           run[q].phase = "answered" /\ run[q].running /\ run[q].event = now.event
      /\ now.running => now.past = {}
  BY <1>1, <1>2, OneSubmission DEF Answers, RecordSound
<1>6. CASE Finish(r, now, "failed", "string") /\ handlers' = others
  BY <1>1, <1>2, <1>3, <1>4, <1>5, <1>6, Finishing DEF Terminals
<1>7. CASE Done(now.attempts) = Tracks[r] /\ Finish(r, now, "completed", "none")
           /\ handlers' = others
  BY <1>1, <1>2, <1>3, <1>4, <1>5, <1>7, Finishing DEF Terminals
<1>8. CASE Attempt(r, now, others)
  BY <1>1, <1>2, <1>3, <1>4, <1>5, <1>8, Attempting
<1> QED
  BY <1>1, <1>6, <1>7, <1>8

(* The handler of the attempt throws. *)
LEMMA ThrowsKInv ==
  ASSUME KInv, NEW r \in Runs, NEW n, Throws(r, n)
  PROVE  KInv'
<1>1. Answers(r, n) /\ UNCHANGED <<log, damaged, kills, outputs>> /\ run[r].phase = "executing"
  BY DEF Throws, Answers
<1>2. PICK code \in Codes : AttemptFails(r, code, handlers \ {<<r, n>>})
  BY DEF Throws
<1>3. \A h \in handlers \ {<<r, n>>} :
        \/ h[1] # r /\ h \in handlers
        \/ /\ h[1] = r /\ h[2] <= Len(After(r, code).attempts)
           /\ After(r, code).attempts[h[2]] = "HANDLER_TIMEOUT"
  BY <1>1, OthersTimedOut
<1> QED
  BY <1>1, <1>2, <1>3, FailsKInv

(* The timer of the attempt fires. *)
LEMMA TimeoutKInv ==
  ASSUME KInv, NEW r \in Runs, Timeout(r)
  PROVE  KInv'
<1>1. /\ UNCHANGED <<log, damaged, kills, outputs>> /\ run[r].phase = "executing"
      /\ AttemptFails(r, "HANDLER_TIMEOUT", handlers)
  BY DEF Timeout, TimesOut
<1>2. ASSUME NEW h \in handlers, h[1] = r
      PROVE  h[2] <= Len(After(r, "HANDLER_TIMEOUT").attempts) /\ After(r, "HANDLER_TIMEOUT").attempts[h[2]] = "HANDLER_TIMEOUT"
  <2>1. /\ Len(run[r].attempts) \in Nat /\ Len(After(r, "HANDLER_TIMEOUT").attempts) = Len(run[r].attempts) + 1
        /\ After(r, "HANDLER_TIMEOUT").attempts[Len(run[r].attempts) + 1] = "HANDLER_TIMEOUT"
        /\ \A i \in 1 .. Len(run[r].attempts) : After(r, "HANDLER_TIMEOUT").attempts[i] = run[r].attempts[i]
    BY <1>2, AttemptEnded DEF Codes, Declarable
  <2>2. h[2] \in Nat \ {0}
    BY OneSubmission
  <2>3. \/ h[2] = Len(run[r].attempts) + 1
        \/ h[2] <= Len(run[r].attempts) /\ run[r].attempts[h[2]] = "HANDLER_TIMEOUT"
    BY <1>2, OneSubmission
  <2> QED
    BY <2>1, <2>2, <2>3
<1> QED
  BY <1>1, <1>2, FailsKInv DEF Codes, Declarable

(* A handler nobody listens to. *)
LEMMA EndsLateKInv ==
  ASSUME KInv, NEW r, NEW n, EndsLate(r, n)
  PROVE  KInv'
<1>1. handlers' \subseteq handlers /\ UNCHANGED <<run, chain, log, damaged, outputs, kills>>
  BY DEF EndsLate
<1>2. Types'
  BY <1>1 DEF KInv, Types
<1>3. FilesSound'
  BY <1>1 DEF KInv, FilesSound, RecordSound, Done
<1>4. ChainOrder' /\ Remembered' /\ AnsweredNeverReplayed'
  BY <1>1 DEF KInv, ChainOrder, Remembered, AnsweredNeverReplayed
<1>5. OnlyTimedOutHandlersLinger'
  BY <1>1 DEF KInv, OnlyTimedOutHandlersLinger
<1> QED
  BY <1>2, <1>3, <1>4, <1>5 DEF KInv

(* The output of a completed run is written, or the write throws. *)
LEMMA WriteOutputKInv ==
  ASSUME KInv, NEW r \in Runs, WriteOutput(r)
  PROVE  KInv'
<1> DEFINE now(phase) == [run[r] EXCEPT !.phase = phase]
<1>1. run[r].phase = "output" /\ UNCHANGED <<log, damaged, handlers, kills>>
  BY DEF WriteOutput
<1>2. PICK phase \in {"append", "thrown"} :
        /\ run' = [run EXCEPT ![r] = now(phase)]
        /\ \/ phase = "append" /\ chain' = Append(chain, r) /\ outputs' = outputs \cup {r}
           \/ phase = "thrown" /\ chain' = chain /\ outputs' = outputs
  BY DEF WriteOutput
<1> DEFINE new == now(phase)
<1>3. /\ new \in Records /\ new.phase = phase /\ new.past = run[r].past
      /\ new.event = run[r].event /\ new.running = run[r].running
      /\ new.terminal = run[r].terminal /\ new.attempts = run[r].attempts
  BY OneSubmission DEF Records, Phases, Open, Ended
<1> HIDE DEF new
<1>4. run' = [run EXCEPT ![r] = new]
  BY <1>2 DEF new
<1>5. RecordSound(r, new)
  BY <1>1, <1>2, <1>3, OneSubmission DEF RecordSound
<1>6. /\ outputs' \subseteq Runs /\ outputs \subseteq outputs'
      /\ new.terminal = "completed" /\ new.phase = "append" => r \in outputs'
      /\ \/ new.phase = "append" /\ chain' = Append(chain, r)
         \/ new.phase \notin {"append", "answered"} /\ chain' = chain
  BY <1>2, <1>3 DEF KInv, Types
<1>7. /\ \A q \in new.past :
           run[q].phase = "answered" /\ run[q].running /\ run[q].event = new.event
      /\ new.running => new.past = {}
  BY <1>3, OneSubmission
<1>8. /\ handlers' \subseteq Runs \X (Nat \ {0})
      /\ \A h \in handlers' :
           \/ h[1] # r /\ h \in handlers
           \/ /\ h[1] = r /\ h[2] <= Len(new.attempts)
              /\ new.attempts[h[2]] = "HANDLER_TIMEOUT"
  BY <1>1, <1>3, OneSubmission
<1>9. run[r].phase \in {"idle", "checking", "executing", "output"} /\ UNCHANGED <<log, damaged, kills>>
  BY <1>1
<1>10. new \in Records
  BY <1>3
<1> QED
  BY <1>4, <1>5, <1>6, <1>7, <1>8, <1>9, <1>10, Submission

(* The head of the chain is appended, or is not. *)
LEMMA AppendKInv ==
  ASSUME KInv, AppendRecord
  PROVE  KInv'
<1> DEFINE r == Head(chain)
           now(phase) == [run[r] EXCEPT !.phase = phase]
<1>1. /\ chain # <<>> /\ chain' = Tail(chain) /\ UNCHANGED <<outputs, handlers, kills>>
      /\ chain \in Seq(Runs)
  BY DEF AppendRecord, KInv, Types
<1>2. /\ r \in Runs /\ r = chain[1] /\ Len(chain) \in Nat /\ Len(chain) >= 1
      /\ DOMAIN chain = 1 .. Len(chain) /\ DOMAIN chain' = 1 .. Len(chain) - 1
      /\ \A i \in 1 .. Len(chain) - 1 : chain'[i] = chain[i + 1]
      /\ chain' \in Seq(Runs)
  BY <1>1
<1>3. PICK phase \in {"answered", "thrown"} :
        /\ run' = [run EXCEPT ![r] = now(phase)]
        /\ \/ phase = "answered" /\ damaged' = damaged
              /\ log' = IF damaged THEN log ELSE log \cup {r}
           \/ phase = "thrown" /\ damaged' \in {damaged, TRUE} /\ log' = log
  BY DEF AppendRecord
<1>4. run[r].phase = "append"
  BY <1>2 DEF KInv, ChainOrder
<1> DEFINE new == now(phase)
<1>5. /\ new \in Records /\ new.phase = phase /\ new.past = run[r].past
      /\ new.event = run[r].event /\ new.running = run[r].running
      /\ new.terminal = run[r].terminal /\ new.attempts = run[r].attempts
  BY <1>2, OneSubmission DEF Records, Phases, Open, Ended
<1>6. run' \in [Runs -> Records] /\ run'[r] = new
      /\ \A q \in Runs \ {r} : run'[q] = run[q]
  BY <1>2, <1>3, <1>5 DEF KInv, Types
<1> HIDE DEF new, r
<1>7. /\ log \subseteq log' /\ log' \subseteq log \cup {r} /\ damaged' \in BOOLEAN
      /\ damaged => damaged'
      /\ phase = "answered" => r \in log' \/ damaged'
  BY <1>3 DEF KInv, Types
<1>8. Types'
  BY <1>1, <1>2, <1>6, <1>7 DEF KInv, Types
<1>9. ChainOrder'
  <2>1. \A i \in DOMAIN chain' : i + 1 \in DOMAIN chain /\ chain'[i] = chain[i + 1] /\ chain'[i] # r
    BY <1>2 DEF KInv, ChainOrder
  <2>2. \A i, j \in DOMAIN chain' : chain'[i] = chain'[j] => i = j
    BY <1>2, <2>1 DEF KInv, ChainOrder
  <2>3. ASSUME NEW q \in Runs \ {r}, NEW i \in DOMAIN chain, chain[i] = q
        PROVE  \E j \in DOMAIN chain' : chain'[j] = q
    <3>1. i # 1 /\ i - 1 \in DOMAIN chain' /\ (i - 1) + 1 = i
      BY <1>2, <2>3
    <3> QED
      BY <1>2, <2>3, <3>1
  <2>4. \A q \in Runs \ {r} : run'[q].phase = "append" <=> \E i \in DOMAIN chain' : chain'[i] = q
    BY <1>6, <2>1, <2>3 DEF KInv, ChainOrder
  <2>5. run'[r].phase # "append"
    BY <1>5, <1>6
  <2> QED
    BY <2>1, <2>2, <2>4, <2>5 DEF ChainOrder
<1>10. FilesSound'
  <2>1. RecordSound(r, run[r]) /\ (run[r].terminal = "completed" => r \in outputs)
    BY <1>2, <1>4 DEF KInv, FilesSound
  <2>2. RecordSound(r, new)
    BY <1>4, <1>5, <2>1 DEF RecordSound
  <2>3. \A q \in Runs : RecordSound(q, run'[q])
    BY <1>6, <2>2 DEF KInv, FilesSound
  <2>4. \A q \in Runs : RecordSound(q, run[q])'
    BY <2>3 DEF RecordSound, Done
  <2>5. run[r].terminal # "none"
    BY <1>4, <2>1 DEF RecordSound
  <2>6. \A q \in log' : run'[q].phase \in Ended /\ run'[q].terminal # "none"
    BY <1>5, <1>6, <1>7, <2>5 DEF KInv, FilesSound, Types, Ended
  <2>7. \A q \in Runs : run'[q].terminal = "completed"
                         /\ (q \in log' \/ run'[q].phase \in {"append", "answered"}) => q \in outputs'
    BY <1>1, <1>5, <1>6, <1>7, <2>1 DEF KInv, FilesSound
  <2> QED
    BY <2>4, <2>6, <2>7 DEF FilesSound
<1>11. Remembered'
  <2>1. \A q \in Runs : run'[q].phase = "answered" /\ run'[q].running => q \in log' \/ damaged'
    BY <1>5, <1>6, <1>7 DEF KInv, Remembered
  <2>2. \A q \in Runs : \A p \in run[q].past : p # r /\ p \in Runs
    BY <1>4 DEF KInv, Remembered, Types, Records
  <2>3. \A q \in Runs : run'[q].past = run[q].past /\ run'[q].event = run[q].event
    BY <1>5, <1>6
  <2> QED
    BY <1>6, <2>1, <2>2, <2>3 DEF KInv, Remembered
<1>12. AnsweredNeverReplayed'
  BY <1>5, <1>6 DEF KInv, AnsweredNeverReplayed
<1>13. OnlyTimedOutHandlersLinger'
  BY <1>1, <1>4, <1>5, <1>6 DEF KInv, OnlyTimedOutHandlersLinger, Types
<1> QED
  BY <1>8, <1>9, <1>10, <1>11, <1>12, <1>13 DEF KInv

(* The process is killed: files stay, but for a line or a file that was    *)
(* being written.                                                          *)
LEMMA KillKInv ==
  ASSUME KInv, Kill
  PROVE  KInv'
<1> DEFINE dead(r) == [run[r] EXCEPT !.phase = "killed"]
<1>1. /\ run' = [r \in Runs |-> IF run[r].phase \in Open THEN dead(r) ELSE run[r]]
      /\ chain' = <<>> /\ handlers' = {} /\ kills < MaxKills /\ kills' = kills + 1
  BY DEF Kill
<1>2. ASSUME NEW r \in Runs
      PROVE  /\ dead(r) \in Records /\ dead(r).phase = "killed" /\ dead(r).past = run[r].past
             /\ dead(r).event = run[r].event /\ dead(r).running = run[r].running
             /\ dead(r).terminal = run[r].terminal /\ dead(r).attempts = run[r].attempts
  BY OneSubmission DEF Records, Phases, Ended
<1>3. \A r \in Runs : run'[r] = IF run[r].phase \in Open THEN dead(r) ELSE run[r]
  BY <1>1
<1>4. run' \in [Runs -> Records]
  BY <1>1, <1>2, OneSubmission
<1> HIDE DEF dead
<1>5. ASSUME NEW r \in Runs
      PROVE  /\ run'[r].past = run[r].past /\ run'[r].event = run[r].event
             /\ run'[r].running = run[r].running /\ run'[r].terminal = run[r].terminal
             /\ run'[r].attempts = run[r].attempts
             /\ run'[r].phase = IF run[r].phase \in Open THEN "killed" ELSE run[r].phase
  BY <1>2, <1>3
<1>6. chain # <<>> => Head(chain) \in Runs /\ run[Head(chain)].phase = "append"
  <2>1. chain \in Seq(Runs)
    BY DEF KInv, Types
  <2>2. chain # <<>> => Head(chain) \in Runs /\ Head(chain) = chain[1] /\ 1 \in DOMAIN chain
    BY <2>1
  <2> QED
    BY <2>2 DEF KInv, ChainOrder
<1>7. /\ log \subseteq log'
      /\ \A q \in log' : q \in log \/ (q \in Runs /\ run[q].phase = "append")
  BY <1>6 DEF Kill
<1>8. damaged' \in BOOLEAN /\ (damaged => damaged')
  <2>1. damaged' = damaged \/ damaged' = TRUE
    BY DEF Kill
  <2>2. damaged \in BOOLEAN
    BY DEF KInv, Types
  <2>3. CASE damaged' = damaged
    BY <2>2, <2>3
  <2>4. CASE damaged' = TRUE
    BY <2>4
  <2> QED
    BY <2>1, <2>3, <2>4
<1>9. outputs \subseteq outputs' /\ outputs' \subseteq Runs
  BY DEF Kill, KInv, Types
<1>10. Types'
  <2>1. kills' \in 0 .. MaxKills
    BY <1>1, KernelAssumption DEF KInv, Types
  <2>2. log' \subseteq Runs
    BY <1>7 DEF KInv, Types
  <2>3. chain' \in Seq(Runs) /\ handlers' \subseteq Runs \X (Nat \ {0})
    BY <1>1
  <2> QED
    BY <1>4, <1>8, <1>9, <2>1, <2>2, <2>3 DEF Types
<1>11. ChainOrder'
  <2>1. \A r \in Runs : run'[r].phase # "append"
    BY <1>5 DEF Open
  <2>2. DOMAIN chain' = {}
    BY <1>1
  <2> QED
    BY <2>1, <2>2 DEF ChainOrder
<1>12. FilesSound'
  <2>1. \A q \in Runs : RecordSound(q, run'[q])
    <3> SUFFICES ASSUME NEW q \in Runs PROVE RecordSound(q, run'[q])
      OBVIOUS
    <3>1. RecordSound(q, run[q])
      BY OneSubmission
    <3> QED
      BY <1>5, <3>1 DEF RecordSound, Open
  <2>2. \A q \in Runs : RecordSound(q, run[q])'
    BY <2>1 DEF RecordSound, Done
  <2>3. ASSUME NEW q \in log'
        PROVE  /\ run'[q].phase \in Ended /\ run'[q].terminal # "none"
               /\ run'[q].terminal = "completed" => q \in outputs'
    <3>1. CASE q \in log
      <4>1. q \in Runs /\ run[q].phase \in Ended /\ run[q].terminal # "none"
            /\ (run[q].terminal = "completed" => q \in outputs)
        BY <3>1 DEF KInv, FilesSound, Types
      <4> QED
        BY <1>5, <1>9, <4>1 DEF Open, Ended
    <3>2. CASE q \in Runs /\ run[q].phase = "append"
      <4>1. run[q].terminal # "none" /\ (run[q].terminal = "completed" => q \in outputs)
        BY <3>2, OneSubmission DEF RecordSound, KInv, FilesSound
      <4> QED
        BY <1>5, <1>9, <3>2, <4>1 DEF Open, Ended
    <3> QED
      BY <1>7, <3>1, <3>2
  <2>4. \A q \in Runs : run'[q].phase \in {"append", "answered"} => run[q].phase = "answered"
    BY <1>5 DEF Open
  <2>5. \A q \in Runs : run'[q].terminal = "completed"
                         /\ (q \in log' \/ run'[q].phase \in {"append", "answered"}) => q \in outputs'
    BY <1>5, <1>9, <2>3, <2>4 DEF KInv, FilesSound
  <2> QED
    BY <2>2, <2>3, <2>5 DEF FilesSound
<1>13. Remembered'
  <2>1. \A q \in Runs : run'[q].phase = "answered" <=> run[q].phase = "answered"
    BY <1>5 DEF Open
  <2>2. \A q \in Runs : run'[q].phase = "answered" /\ run'[q].running => q \in log' \/ damaged'
    BY <1>5, <1>7, <1>8, <2>1 DEF KInv, Remembered
  <2>3. \A q \in Runs : \A p \in run[q].past : p \in Runs
    BY DEF KInv, Types, Records
  <2> QED
    BY <1>5, <2>1, <2>2, <2>3 DEF KInv, Remembered
<1>14. AnsweredNeverReplayed'
  BY <1>5 DEF KInv, AnsweredNeverReplayed
<1>15. OnlyTimedOutHandlersLinger'
  BY <1>1 DEF OnlyTimedOutHandlersLinger
<1> QED
  BY <1>10, <1>11, <1>12, <1>13, <1>14, <1>15 DEF KInv

(* Every step preserves the invariant. *)
LEMMA NextKInv ==
  ASSUME KInv, [Next]_vars
  PROVE  KInv'
<1>1. ASSUME NEW r \in Runs, (\E e \in Events : Submit(r, e)) \/ Check(r) \/ Timeout(r) \/ WriteOutput(r)
      PROVE  KInv'
  BY <1>1, SubmitKInv, CheckKInv, TimeoutKInv, WriteOutputKInv
<1>2. ASSUME NEW h \in handlers,
             Returns(h[1], h[2]) \/ Throws(h[1], h[2]) \/ EndsLate(h[1], h[2])
      PROVE  KInv'
  <2>1. h[1] \in Runs
    BY DEF KInv, Types
  <2> QED
    BY <1>2, <2>1, ReturnsKInv, ThrowsKInv, EndsLateKInv
<1>3. CASE UNCHANGED vars
  <2>1. UNCHANGED <<run, chain, log, damaged, outputs, handlers, kills>>
    BY <1>3 DEF vars
  <2>2. Types'
    BY <2>1 DEF KInv, Types
  <2>3. FilesSound'
    BY <2>1 DEF KInv, FilesSound, RecordSound, Done
  <2>4. ChainOrder' /\ Remembered' /\ AnsweredNeverReplayed'
    BY <2>1 DEF KInv, ChainOrder, Remembered, AnsweredNeverReplayed
  <2>5. OnlyTimedOutHandlersLinger'
    BY <2>1 DEF KInv, OnlyTimedOutHandlersLinger
  <2> QED
    BY <2>2, <2>3, <2>4, <2>5 DEF KInv
<1>4. CASE AppendRecord
  BY <1>4, AppendKInv
<1>5. CASE Kill
  BY <1>5, KillKInv
<1>6. CASE \E r \in Runs : \/ \E e \in Events : Submit(r, e)
                           \/ Check(r) \/ Timeout(r) \/ WriteOutput(r)
  BY <1>1, <1>6
<1>7. CASE \E h \in handlers : \/ Returns(h[1], h[2]) \/ Throws(h[1], h[2])
                               \/ EndsLate(h[1], h[2])
  BY <1>2, <1>7
<1> QED
  BY <1>3, <1>4, <1>5, <1>6, <1>7 DEF Next

(* The invariant holds in every state of every behaviour. *)
THEOREM SpecKInv == Spec => []KInv
<1>1. Init => KInv
  BY InitKInv
<1>2. KInv /\ [Next]_vars => KInv'
  BY NextKInv
<1> QED
  BY <1>1, <1>2, PTL DEF Spec

-----------------------------------------------------------------------------
(* The number of attempts *)

(* One more step of a capability has room for its own attempts. *)
LEMMA Product ==
  ASSUME NEW a \in Nat, NEW b \in Nat, NEW m \in Nat, a < b
  PROVE  a * m \in Nat /\ b * m \in Nat /\ a * m + m <= b * m
<1>1. PICK k \in Nat : b = a + 1 + k
  <2>1. b - a - 1 \in Nat /\ b = a + 1 + (b - a - 1)
    OBVIOUS
  <2> QED
    BY <2>1
<1>2. (a + 1 + k) * m = a * m + m + k * m
  BY Z3
<1>3. k * m \in Nat /\ a * m \in Nat
  BY Z3
<1> QED
  BY <1>1, <1>2, <1>3

(* With t of m attempts used up for the step after the first a of b, there *)
(* is room for another.                                                    *)
LEMMA RoomForOne ==
  ASSUME NEW a \in Nat, NEW b \in Nat, NEW m \in Nat, NEW n \in Nat, NEW t \in Nat,
         a < b, t < m, n <= a * m + t
  PROVE  n + 1 <= b * m /\ n + 1 <= (a + 1) * m /\ n + 1 <= a * m + (t + 1)
<1> DEFINE used == a * m
           all == b * m
           more == (a + 1) * m
<1>1. used \in Nat /\ all \in Nat /\ used + m <= all
  BY Product
<1>2. a + 1 \in Nat /\ a < a + 1
  OBVIOUS
<1>3. more \in Nat /\ used + m <= more
  BY <1>2, Product
<1>4. n <= used + t
  OBVIOUS
<1> HIDE DEF used, all, more
<1>5. n + 1 <= all /\ n + 1 <= more /\ n + 1 <= used + (t + 1)
  BY <1>1, <1>3, <1>4
<1> QED
  BY <1>5 DEF used, all, more

(* What Done and Tries count, when an attempt has ended. *)
LEMMA Counts ==
  ASSUME NEW s \in Seq(Codes \cup {"completed"}), NEW c \in Codes \cup {"completed"}
  PROVE  /\ Done(s) \in Nat /\ Tries(s) \in Nat
         /\ s = <<>> => Done(s) = 0 /\ Tries(s) = 0
         /\ c = "completed" => Done(Append(s, c)) = Done(s) + 1 /\ Tries(Append(s, c)) = 0
         /\ c # "completed" => Done(Append(s, c)) = Done(s) /\ Tries(Append(s, c)) = Tries(s) + 1
<1> DEFINE completed(t) == {n \in DOMAIN t : t[n] = "completed"}
           since(t) == {n \in DOMAIN t : \A k \in n .. Len(t) : t[k] # "completed"}
           t == Append(s, c)
<1>1. /\ Len(s) \in Nat /\ DOMAIN s = 1 .. Len(s)
      /\ DOMAIN t = 1 .. Len(s) + 1 /\ Len(t) = Len(s) + 1
      /\ t[Len(s) + 1] = c /\ \A i \in 1 .. Len(s) : t[i] = s[i]
  OBVIOUS
<1>2. IsFiniteSet(completed(s)) /\ IsFiniteSet(since(s))
  <2>1. IsFiniteSet(1 .. Len(s))
    BY <1>1, FS_Interval
  <2>2. completed(s) \subseteq 1 .. Len(s) /\ since(s) \subseteq 1 .. Len(s)
    BY <1>1
  <2> QED
    BY <2>1, <2>2, FS_Subset
<1>3. Len(s) + 1 \notin completed(s) /\ Len(s) + 1 \notin since(s)
  BY <1>1
<1>4. Done(s) = Cardinality(completed(s)) /\ Tries(s) = Cardinality(since(s))
      /\ Done(t) = Cardinality(completed(t)) /\ Tries(t) = Cardinality(since(t))
  BY DEF Done, Tries
<1>5. s = <<>> => completed(s) = {} /\ since(s) = {}
  OBVIOUS
<1>6. c = "completed" => completed(t) = completed(s) \cup {Len(s) + 1} /\ since(t) = {}
  BY <1>1
<1>7. c # "completed" => completed(t) = completed(s) /\ since(t) = since(s) \cup {Len(s) + 1}
  <2> SUFFICES ASSUME c # "completed"
               PROVE  completed(t) = completed(s) /\ since(t) = since(s) \cup {Len(s) + 1}
    OBVIOUS
  <2>1. completed(t) = completed(s)
    BY <1>1
  <2>2. ASSUME NEW n \in 1 .. Len(s)
        PROVE  n \in since(t) <=> n \in since(s)
    <3>1. \A k : k \in n .. Len(t) <=> k \in n .. Len(s) \/ k = Len(s) + 1
      BY <1>1
    <3>2. \A k \in n .. Len(s) : t[k] = s[k]
      BY <1>1
    <3> QED
      BY <1>1, <3>1, <3>2
  <2>3. Len(s) + 1 \in since(t)
    BY <1>1
  <2> QED
    BY <1>1, <2>1, <2>2, <2>3
<1> HIDE DEF completed, since, t
<1>8. /\ Cardinality(completed(s)) \in Nat /\ Cardinality(since(s)) \in Nat
      /\ Cardinality(completed(s) \cup {Len(s) + 1}) = Cardinality(completed(s)) + 1
      /\ Cardinality(since(s) \cup {Len(s) + 1}) = Cardinality(since(s)) + 1
  BY <1>2, <1>3, FS_CardinalityType, FS_AddElement
<1>9. Cardinality({}) = 0
  BY FS_EmptySet
<1>10. /\ c = "completed" => Done(t) = Done(s) + 1 /\ Tries(t) = 0
       /\ c # "completed" => Done(t) = Done(s) /\ Tries(t) = Tries(s) + 1
  BY <1>4, <1>6, <1>7, <1>8, <1>9
<1> QED
  BY <1>4, <1>5, <1>8, <1>9, <1>10 DEF t

(* A run that goes on has steps left, and its next step has attempts left. *)
Budget(r, now) ==
  /\ Len(now.attempts) <= Tracks[r] * MaxAttempts[r]
  /\ now.phase \in {"idle", "checking"} => now.attempts = <<>>
  /\ now.phase = "executing" =>
       /\ Done(now.attempts) < Tracks[r] /\ Tries(now.attempts) < MaxAttempts[r]
       /\ Len(now.attempts) <= Done(now.attempts) * MaxAttempts[r] + Tries(now.attempts)

InBudget == \A r \in Runs : Budget(r, run[r])

(* How a step leaves the attempts of a submission. *)
NoAttempt(r) ==
  /\ run'[r].attempts = run[r].attempts
  /\ \/ run'[r].phase = run[r].phase
     \/ run'[r].phase \notin {"idle", "checking", "executing"}
     \/ run[r].phase = "checking" /\ run'[r].phase = "executing"
OneAttempt(r) ==
  /\ run[r].phase = "executing"
  /\ \E c \in Codes \cup {"completed"} :
       /\ run'[r].attempts = Append(run[r].attempts, c)
       /\ \/ run'[r].phase \notin {"idle", "checking", "executing"}
          \/ /\ run'[r].phase = "executing"
             /\ IF c = "completed" THEN Done(run'[r].attempts) < Tracks[r]
                ELSE Tries(run'[r].attempts) < MaxAttempts[r]
Began(r) == run'[r].attempts = <<>> /\ run'[r].phase # "executing"

(* Finish leaves the record it is given, but for its phase. *)
LEMMA FinishShape ==
  ASSUME KInv, NEW r \in Runs, NEW now \in Records, NEW terminal, NEW code,
         Finish(r, now, terminal, code)
  PROVE  /\ run'[r].attempts = now.attempts
         /\ run'[r].phase \notin {"idle", "checking", "executing"}
         /\ \A q \in Runs \ {r} : run'[q] = run[q]
<1> DEFINE ended == [now EXCEPT !.terminal = terminal]
<1>1. PICK phase \in {"output", "thrown", "append"} :
        run' = [run EXCEPT ![r] = [ended EXCEPT !.phase = phase]]
  BY DEF Finish
<1>2. run'[r] = [ended EXCEPT !.phase = phase] /\ \A q \in Runs \ {r} : run'[q] = run[q]
  BY <1>1 DEF KInv, Types
<1> QED
  BY <1>2 DEF Records

(* Attempt leaves the record it is given. *)
LEMMA AttemptShape ==
  ASSUME KInv, NEW r \in Runs, NEW now, NEW others, Attempt(r, now, others)
  PROVE  run'[r] = now /\ \A q \in Runs \ {r} : run'[q] = run[q]
BY DEF Attempt, KInv, Types

(* Every step does one of the three to every submission. *)
LEMMA StepShape ==
  ASSUME KInv, [Next]_vars, NEW q \in Runs
  PROVE  NoAttempt(q) \/ OneAttempt(q) \/ Began(q)
<1>0. ASSUME run'[q] = run[q]
      PROVE  NoAttempt(q)
  BY <1>0 DEF NoAttempt
<1>1. ASSUME NEW r \in Runs, NEW e \in Events, Submit(r, e)
      PROVE  NoAttempt(q) \/ Began(q)
  <2> DEFINE past == {p \in Runs : run[p].phase = "answered" /\ run[p].running /\ run[p].event = e}
  <2>1. \A phase \in {"idle", "checking"} :
          /\ Received(phase, e, past) \in Records /\ Received(phase, e, past).attempts = <<>>
          /\ Received(phase, e, past).phase = phase
    BY DEF Received, Records, Phases, Open, Terminals
  <2>2. \/ run' = [run EXCEPT ![r] = Received("checking", e, past)]
        \/ Finish(r, Received("idle", e, past), "refused", "string")
    BY <1>1 DEF Submit
  <2> HIDE DEF past
  <2>3. CASE run' = [run EXCEPT ![r] = Received("checking", e, past)]
    BY <1>0, <2>1, <2>3 DEF Began, KInv, Types
  <2>4. CASE Finish(r, Received("idle", e, past), "refused", "string")
    BY <1>0, <2>1, <2>4, FinishShape DEF Began
  <2> QED
    BY <2>2, <2>3, <2>4
<1>2. ASSUME NEW r \in Runs, Check(r)
      PROVE  NoAttempt(q)
  <2> DEFINE started == [run[r] EXCEPT !.phase = "executing", !.running = TRUE]
             thrown == [run[r] EXCEPT !.phase = "thrown"]
  <2>1. /\ run[r].phase = "checking"
        /\ \/ run' = [run EXCEPT ![r] = thrown]
           \/ Finish(r, run[r], "refused", "string")
           \/ Attempt(r, started, handlers)
           \/ Finish(r, started, "failed", "string")
    BY <1>2 DEF Check
  <2>2. /\ started \in Records /\ started.attempts = run[r].attempts
        /\ started.phase = "executing"
    <3>1. [run[r] EXCEPT !.phase = "executing"] \in Records
      BY OneSubmission DEF Records, Phases, Open
    <3>2. started = [[run[r] EXCEPT !.phase = "executing"] EXCEPT !.running = TRUE]
      OBVIOUS
    <3> QED
      BY <3>1, <3>2, OneSubmission DEF Records
  <2>3. thrown.attempts = run[r].attempts /\ thrown.phase = "thrown"
    BY OneSubmission DEF Records
  <2>4. run[r] \in Records /\ run \in [Runs -> Records]
    BY DEF KInv, Types
  <2> HIDE DEF started, thrown
  <2>5. CASE run' = [run EXCEPT ![r] = thrown]
    BY <1>0, <2>3, <2>4, <2>5 DEF NoAttempt
  <2>6. CASE Finish(r, run[r], "refused", "string")
    BY <1>0, <2>4, <2>6, FinishShape DEF NoAttempt
  <2>7. CASE Attempt(r, started, handlers)
    BY <1>0, <2>1, <2>2, <2>7, AttemptShape DEF NoAttempt
  <2>8. CASE Finish(r, started, "failed", "string")
    BY <1>0, <2>2, <2>8, FinishShape DEF NoAttempt
  <2> QED
    BY <2>1, <2>5, <2>6, <2>7, <2>8
<1>3. ASSUME NEW r \in Runs, NEW n, Returns(r, n)
      PROVE  NoAttempt(q) \/ OneAttempt(q)
  <2> DEFINE now == After(r, "completed")
  <2>1. /\ run[r].phase = "executing"
        /\ \/ Finish(r, now, "failed", "string")
           \/ Finish(r, now, "completed", "none")
           \/ Done(now.attempts) < Tracks[r] /\ Attempt(r, now, handlers \ {<<r, n>>})
    BY <1>3 DEF Returns, Answers, After
  <2>2. now \in Records /\ now.phase = run[r].phase
    BY AttemptEnded
  <2>3. now.attempts = Append(run[r].attempts, "completed")
    BY OneSubmission DEF After, Records
  <2> HIDE DEF now
  <2>4. CASE Finish(r, now, "failed", "string") \/ Finish(r, now, "completed", "none")
    BY <1>0, <2>1, <2>2, <2>3, <2>4, FinishShape DEF OneAttempt
  <2>5. CASE Done(now.attempts) < Tracks[r] /\ Attempt(r, now, handlers \ {<<r, n>>})
    BY <1>0, <2>1, <2>2, <2>3, <2>5, AttemptShape DEF OneAttempt
  <2> QED
    BY <2>1, <2>4, <2>5
<1>4. ASSUME NEW r \in Runs, NEW code \in Codes, NEW others, AttemptFails(r, code, others),
             run[r].phase = "executing"
      PROVE  NoAttempt(q) \/ OneAttempt(q)
  <2> DEFINE now == After(r, code)
  <2>1. \/ Tries(now.attempts) < MaxAttempts[r] /\ Attempt(r, now, others)
        \/ Finish(r, now, "failed", code)
    BY <1>4 DEF AttemptFails, MayRetry, After
  <2>2. now \in Records /\ now.phase = run[r].phase
    BY AttemptEnded
  <2>3. now.attempts = Append(run[r].attempts, code) /\ code # "completed"
    BY OneSubmission DEF After, Records, Codes, Declarable
  <2> HIDE DEF now
  <2>4. CASE Finish(r, now, "failed", code)
    BY <1>0, <1>4, <2>2, <2>3, <2>4, FinishShape DEF OneAttempt
  <2>5. CASE Tries(now.attempts) < MaxAttempts[r] /\ Attempt(r, now, others)
    <3>1. CASE q = r
      <4>1. run'[q] = now
        BY <2>5, <3>1, AttemptShape
      <4> QED
        BY <1>4, <2>2, <2>3, <2>5, <3>1, <4>1 DEF OneAttempt
    <3>2. CASE q # r
      BY <1>0, <2>5, <3>2, AttemptShape
    <3> QED
      BY <3>1, <3>2
  <2> QED
    BY <2>1, <2>4, <2>5
<1>5. ASSUME NEW r \in Runs, NEW phase \in {"append", "thrown", "answered"},
             run' = [run EXCEPT ![r].phase = phase]
      PROVE  NoAttempt(q)
  <2>1. run[r] \in Records /\ run \in [Runs -> Records]
    BY DEF KInv, Types
  <2> QED
    BY <1>5, <2>1 DEF NoAttempt, Records
<1>6. CASE AppendRecord
  <2>1. Head(chain) \in Runs
    BY <1>6 DEF AppendRecord, KInv, Types
  <2> QED
    BY <1>5, <1>6, <2>1 DEF AppendRecord
<1>7. CASE Kill
  <2>1. run'[q] = run[q] \/ run'[q] = [run[q] EXCEPT !.phase = "killed"]
    BY <1>7 DEF Kill
  <2> QED
    BY <1>0, <2>1, OneSubmission DEF NoAttempt, Records
<1>8. ASSUME NEW h \in handlers, Returns(h[1], h[2]) \/ Throws(h[1], h[2]) \/ EndsLate(h[1], h[2])
      PROVE  NoAttempt(q) \/ OneAttempt(q)
  <2>1. h[1] \in Runs
    BY DEF KInv, Types
  <2>2. CASE Throws(h[1], h[2])
    <3>1. run[h[1]].phase = "executing"
          /\ \E code \in Codes : AttemptFails(h[1], code, handlers \ {<<h[1], h[2]>>})
      BY <2>2 DEF Throws, Answers
    <3> QED
      BY <1>4, <2>1, <3>1
  <2>3. CASE EndsLate(h[1], h[2])
    BY <1>0, <2>3 DEF EndsLate
  <2> QED
    BY <1>3, <1>8, <2>1, <2>2, <2>3
<1>9. ASSUME NEW r \in Runs, Timeout(r)
      PROVE  NoAttempt(q) \/ OneAttempt(q)
  BY <1>4, <1>9 DEF Timeout, TimesOut, Codes, Declarable
<1>10. ASSUME NEW r \in Runs, WriteOutput(r)
       PROVE  NoAttempt(q)
  BY <1>5, <1>10 DEF WriteOutput
<1>11. CASE UNCHANGED vars
  BY <1>0, <1>11 DEF vars
<1> QED
  BY <1>1, <1>2, <1>6, <1>7, <1>8, <1>9, <1>10, <1>11 DEF Next

(* The budget is there at first, and is kept. *)
LEMMA InitInBudget == Init => InBudget
<1> SUFFICES ASSUME Init, NEW r \in Runs
             PROVE  Budget(r, run[r])
  BY DEF InBudget
<1>1. run[r].attempts = <<>> /\ run[r].phase = "idle"
  BY DEF Init, Fresh, Received
<1>2. Tracks[r] * MaxAttempts[r] \in Nat
  BY KernelAssumption, Product
<1> QED
  BY <1>1, <1>2 DEF Budget

LEMMA BudgetStep ==
  ASSUME KInv, InBudget, [Next]_vars
  PROVE  InBudget'
<1> SUFFICES ASSUME NEW q \in Runs
             PROVE  Budget(q, run'[q])
  BY DEF InBudget, Budget, Done, Tries
<1> DEFINE s == run[q].attempts
           t == run'[q].attempts
           m == MaxAttempts[q]
<1>1. /\ Tracks[q] \in Nat \ {0} /\ m \in Nat \ {0}
      /\ Tracks[q] * m \in Nat
  <2>1. Tracks[q] \in Nat \ {0} /\ m \in Nat \ {0}
    BY KernelAssumption
  <2> QED
    BY <2>1, Product
<1>2. s \in Seq(Codes \cup {"completed"}) /\ Len(s) \in Nat
  BY OneSubmission DEF Records
<1>3. Budget(q, run[q])
  BY DEF InBudget
<1>4. /\ Done(s) \in Nat /\ Tries(s) \in Nat
      /\ s = <<>> => Done(s) = 0 /\ Tries(s) = 0 /\ Len(s) = 0
  BY <1>2, Counts
<1>5. CASE NoAttempt(q)
  <2>1. CASE run[q].phase = "checking" /\ run'[q].phase = "executing"
    <3>1. s = <<>> /\ t = s
      BY <1>3, <1>5, <2>1 DEF Budget, NoAttempt
    <3>2. Done(s) * m = 0
      BY <1>1, <1>4, <3>1
    <3> QED
      BY <1>1, <1>3, <1>4, <2>1, <3>1, <3>2 DEF Budget
  <2>2. CASE run'[q].phase = run[q].phase \/ run'[q].phase \notin {"idle", "checking", "executing"}
    BY <1>3, <1>5, <2>2 DEF Budget, NoAttempt
  <2> QED
    BY <1>5, <2>1, <2>2 DEF NoAttempt
<1>6. CASE Began(q)
  BY <1>1, <1>6 DEF Began, Budget
<1>7. CASE OneAttempt(q)
  <2>1. PICK c \in Codes \cup {"completed"} :
          /\ t = Append(s, c)
          /\ \/ run'[q].phase \notin {"idle", "checking", "executing"}
             \/ /\ run'[q].phase = "executing"
                /\ IF c = "completed" THEN Done(t) < Tracks[q] ELSE Tries(t) < m
    BY <1>7 DEF OneAttempt
  <2>2. /\ Done(s) < Tracks[q] /\ Tries(s) < m /\ Len(s) <= Done(s) * m + Tries(s)
    BY <1>3, <1>7 DEF Budget, OneAttempt
  <2>3. Len(t) = Len(s) + 1
    BY <1>2, <2>1
  <2>4. /\ Len(s) + 1 <= Tracks[q] * m /\ Len(s) + 1 <= (Done(s) + 1) * m
        /\ Len(s) + 1 <= Done(s) * m + (Tries(s) + 1)
    BY <1>1, <1>2, <1>4, <2>2, RoomForOne
  <2>5. Len(t) <= Tracks[q] * m
    BY <2>3, <2>4
  <2>6. CASE c = "completed"
    <3>1. Done(t) = Done(s) + 1 /\ Tries(t) = 0
      BY <1>2, <2>1, <2>6, Counts
    <3>2. Len(t) <= Done(t) * m + Tries(t)
      <4>1. (Done(s) + 1) * m \in Nat
        BY <1>1, <1>4
      <4> QED
        BY <2>3, <2>4, <3>1, <4>1
    <3>3. Tries(t) < m
      BY <1>1, <3>1
    <3> QED
      BY <2>1, <2>5, <2>6, <3>2, <3>3 DEF Budget
  <2>7. CASE c # "completed"
    <3>1. Done(t) = Done(s) /\ Tries(t) = Tries(s) + 1
      BY <1>2, <2>1, <2>7, Counts
    <3>2. Len(t) <= Done(t) * m + Tries(t)
      BY <2>3, <2>4, <3>1
    <3> QED
      BY <2>1, <2>2, <2>5, <2>7, <3>1, <3>2 DEF Budget
  <2> QED
    BY <2>6, <2>7
<1> QED
  BY <1>5, <1>6, <1>7, StepShape

(* An output file belongs to a completed run. *)
OutputsCompleted == \A r \in outputs : run[r].terminal = "completed"

(* What has come to an end ends once: only its phase still changes. *)
LEMMA TerminalKept ==
  ASSUME KInv, [Next]_vars, NEW q \in Runs, run[q].phase \notin {"idle", "checking", "executing"}
  PROVE  run'[q].terminal = run[q].terminal
<1>0. run \in [Runs -> Records] /\ run[q] \in Records
  BY DEF KInv, Types
<1>1. ASSUME NEW r \in Runs, r # q, NEW now, run' = [run EXCEPT ![r] = now]
      PROVE  run'[q].terminal = run[q].terminal
  BY <1>0, <1>1
<1>2. ASSUME NEW r \in Runs, NEW phase, run' = [run EXCEPT ![r].phase = phase]
      PROVE  run'[q].terminal = run[q].terminal
  BY <1>0, <1>2 DEF Records
<1>3. ASSUME NEW r \in Runs, NEW e \in Events, Submit(r, e)
      PROVE  run'[q].terminal = run[q].terminal
  <2>1. r # q /\ \E now : run' = [run EXCEPT ![r] = now]
    BY <1>3 DEF Submit, Finish
  <2> QED
    BY <1>1, <2>1
<1>4. ASSUME NEW r \in Runs, Check(r)
      PROVE  run'[q].terminal = run[q].terminal
  <2>1. r # q
    BY <1>4 DEF Check
  <2>2. \E now : run' = [run EXCEPT ![r] = now]
    BY <1>4 DEF Check, Finish, Attempt
  <2> QED
    BY <1>1, <2>1, <2>2
<1>5. ASSUME NEW h \in handlers, Returns(h[1], h[2]) \/ Throws(h[1], h[2])
      PROVE  run'[q].terminal = run[q].terminal
  <2>1. h[1] \in Runs /\ h[1] # q
    BY <1>5 DEF Returns, Throws, Answers, KInv, Types
  <2>2. \E now : run' = [run EXCEPT ![h[1]] = now]
    BY <1>5 DEF Returns, Throws, AttemptFails, Finish, Attempt
  <2> QED
    BY <1>1, <2>1, <2>2
<1>6. ASSUME NEW r \in Runs, Timeout(r)
      PROVE  run'[q].terminal = run[q].terminal
  <2>1. r # q /\ \E now : run' = [run EXCEPT ![r] = now]
    BY <1>6 DEF Timeout, TimesOut, AttemptFails, Finish, Attempt
  <2> QED
    BY <1>1, <2>1
<1>7. ASSUME NEW r \in Runs, WriteOutput(r)
      PROVE  run'[q].terminal = run[q].terminal
  BY <1>2, <1>7 DEF WriteOutput
<1>8. CASE AppendRecord
  <2>1. Head(chain) \in Runs
    BY <1>8 DEF AppendRecord, KInv, Types
  <2> QED
    BY <1>2, <1>8, <2>1 DEF AppendRecord
<1>9. CASE Kill
  <2>1. run'[q] = run[q] \/ run'[q] = [run[q] EXCEPT !.phase = "killed"]
    BY <1>9 DEF Kill
  <2> QED
    BY <1>0, <2>1 DEF Records
<1>10. ASSUME (\E h \in handlers : EndsLate(h[1], h[2])) \/ UNCHANGED vars
       PROVE  run' = run
  BY <1>10 DEF EndsLate, vars
<1> QED
  BY <1>3, <1>4, <1>5, <1>6, <1>7, <1>8, <1>9, <1>10 DEF Next

(* So the outputs go on belonging to completed runs. *)
LEMMA OutputsStep ==
  ASSUME KInv, OutputsCompleted, [Next]_vars
  PROVE  OutputsCompleted'
<1> SUFFICES ASSUME NEW q \in outputs'
             PROVE  run'[q].terminal = "completed"
  BY DEF OutputsCompleted
<1>1. q \in outputs \/ (q \in Runs /\ run[q].phase = "output")
  BY DEF Next, Submit, Check, Returns, Throws, Timeout, EndsLate, WriteOutput, AppendRecord, Kill, vars
<1>2. q \in Runs
  BY <1>1 DEF KInv, Types
<1>3. run[q].terminal = "completed" /\ run[q].phase \notin {"idle", "checking", "executing"}
  BY <1>1, <1>2, OneSubmission DEF RecordSound, OutputsCompleted
<1> QED
  BY <1>2, <1>3, TerminalKept

-----------------------------------------------------------------------------
(* Theorems *)

(* An event whose run was executed and answered is not executed again by   *)
(* any later submission, with failing writes, damaged logs and kills.      *)
THEOREM NeverReplayed == Spec => []AnsweredNeverReplayed
<1>1. KInv => AnsweredNeverReplayed
  BY DEF KInv
<1> QED
  BY <1>1, SpecKInv, PTL

(* The record of a completed run never precedes its output, and shows a    *)
(* completed attempt of every step.                                        *)
THEOREM CompletedAlwaysBacked == Spec => []CompletedIsBacked
<1>1. KInv => CompletedIsBacked
  BY DEF KInv, FilesSound, RecordSound, CompletedIsBacked
<1> QED
  BY <1>1, SpecKInv, PTL

(* No answer of a handler is taken for another attempt's, and only         *)
(* handlers that timed out outlive their attempt.                          *)
THEOREM OnlyTimedOutLinger == Spec => []OnlyTimedOutHandlersLinger
<1>1. KInv => OnlyTimedOutHandlersLinger
  BY DEF KInv
<1> QED
  BY <1>1, SpecKInv, PTL

(* The variables of the kernel keep their types; no step of a capability   *)
(* has more attempts than its manifest allows.                             *)
THEOREM KernelTypeCorrect == Spec => []KernelTypeOK
<1>1. Init => InBudget
  BY InitInBudget
<1>2. KInv /\ InBudget /\ OutputsCompleted => KernelTypeOK
  <2> SUFFICES ASSUME KInv, InBudget, OutputsCompleted
               PROVE  KernelTypeOK
    OBVIOUS
  <2>1. ASSUME NEW h \in handlers
        PROVE  h[1] \in Runs /\ h[2] \in 1 .. Tracks[h[1]] * MaxAttempts[h[1]]
    <3> DEFINE r == h[1]
               s == run[r].attempts
    <3>1. r \in Runs /\ h[2] \in Nat \ {0}
      BY DEF KInv, Types
    <3>2. /\ Tracks[r] \in Nat \ {0} /\ MaxAttempts[r] \in Nat \ {0}
          /\ s \in Seq(Codes \cup {"completed"}) /\ Len(s) \in Nat
      BY <3>1, KernelAssumption, OneSubmission DEF Records
    <3>3. Tracks[r] * MaxAttempts[r] \in Nat /\ Len(s) <= Tracks[r] * MaxAttempts[r]
      BY <3>1, <3>2, Product DEF InBudget, Budget
    <3>4. CASE run[r].phase = "executing" /\ h[2] = Len(s) + 1
      <4>1. /\ Done(s) \in Nat /\ Tries(s) \in Nat /\ Done(s) < Tracks[r]
            /\ Tries(s) < MaxAttempts[r] /\ Len(s) <= Done(s) * MaxAttempts[r] + Tries(s)
        BY <3>1, <3>2, <3>4, Counts DEF InBudget, Budget
      <4>2. Len(s) + 1 <= Tracks[r] * MaxAttempts[r]
        BY <3>2, <4>1, RoomForOne
      <4> QED
        BY <3>1, <3>2, <3>3, <3>4, <4>2
    <3>5. CASE h[2] <= Len(s)
      BY <3>1, <3>2, <3>3, <3>5
    <3> QED
      BY <3>4, <3>5 DEF KInv, OnlyTimedOutHandlersLinger
  <2>2. log \subseteq {r \in Runs : run[r].terminal # "none"}
    BY DEF KInv, FilesSound, Types
  <2>3. outputs \subseteq {r \in Runs : run[r].terminal = "completed"}
    BY DEF KInv, Types, OutputsCompleted
  <2> QED
    BY <2>1, <2>2, <2>3 DEF KInv, Types, Records, Phases, ChainOrder, KernelTypeOK
<1>3. KInv /\ InBudget /\ [Next]_vars => InBudget'
  BY BudgetStep
<1>4. Init => OutputsCompleted
  BY DEF Init, OutputsCompleted
<1>5. KInv /\ OutputsCompleted /\ [Next]_vars => OutputsCompleted'
  BY OutputsStep
<1> QED
  BY <1>1, <1>2, <1>3, <1>4, <1>5, SpecKInv, PTL DEF Spec

-----------------------------------------------------------------------------
(* How far a submission is from its end *)

Stage(phase) ==
  CASE phase = "idle" -> 5 [] phase = "checking" -> 4 [] phase = "executing" -> 3
    [] phase = "output" -> 2 [] phase = "append" -> 1 [] OTHER -> 0

AttemptsLeft(r, now) ==
  IF now.phase \in {"idle", "checking", "executing"}
  THEN Tracks[r] * MaxAttempts[r] - Len(now.attempts) ELSE 0

(* The steps a submission can still take; retries are among them. *)
Left(r) == Stage(run[r].phase) + AttemptsLeft(r, run[r])

(* A step passes a submission by, or brings it to a later stage, or is one *)
(* more attempt.                                                           *)
Advances(r) ==
  \/ run'[r] = run[r]
  \/ Stage(run'[r].phase) < Stage(run[r].phase)
  \/ /\ run[r].phase = "executing" /\ run'[r].phase = "executing"
     /\ Len(run'[r].attempts) = Len(run[r].attempts) + 1

LEMMA FinishAdvances ==
  ASSUME KInv, NEW r \in Runs, NEW now \in Records, NEW terminal, NEW code,
         Finish(r, now, terminal, code),
         terminal = "completed" => run[r].phase = "executing",
         run[r].phase \in {"idle", "checking", "executing"}, NEW q \in Runs
  PROVE  Advances(q)
<1>1. PICK phase \in {"output", "thrown", "append"} :
        run' = [run EXCEPT ![r] = [[now EXCEPT !.terminal = terminal] EXCEPT !.phase = phase]]
  BY DEF Finish
<1>2. run \in [Runs -> Records]
  BY DEF KInv, Types
<1>3. run'[r].phase = phase /\ (q # r => run'[q] = run[q])
  BY <1>1, <1>2 DEF Records
<1>4. Stage(phase) < Stage(run[r].phase)
  BY DEF Stage
<1> QED
  BY <1>3, <1>4 DEF Advances

LEMMA FailAdvances ==
  ASSUME KInv, NEW r \in Runs, NEW code \in Codes, NEW others, AttemptFails(r, code, others),
         run[r].phase = "executing", NEW q \in Runs
  PROVE  Advances(q)
<1> DEFINE now == After(r, code)
<1>1. Attempt(r, now, others) \/ Finish(r, now, "failed", code)
  BY DEF AttemptFails, After
<1>2. now \in Records /\ now.phase = "executing" /\ Len(now.attempts) = Len(run[r].attempts) + 1
  BY AttemptEnded
<1> HIDE DEF now
<1>3. CASE Attempt(r, now, others)
  BY <1>2, <1>3, AttemptShape DEF Advances
<1>4. CASE Finish(r, now, "failed", code)
  BY <1>2, <1>4, FinishAdvances
<1> QED
  BY <1>1, <1>3, <1>4

(* No step takes a submission back. *)
LEMMA StepAdvances ==
  ASSUME KInv, [Next]_vars, NEW q \in Runs
  PROVE  Advances(q)
<1>0. run \in [Runs -> Records]
  BY DEF KInv, Types
<1>1. ASSUME NEW r \in Runs, NEW e \in Events, Submit(r, e)
      PROVE  Advances(q)
  <2> DEFINE past == {p \in Runs : run[p].phase = "answered" /\ run[p].running /\ run[p].event = e}
  <2>1. Received("idle", e, past) \in Records
    BY DEF Received, Records, Phases, Open, Terminals
  <2>2. /\ run[r].phase = "idle"
        /\ \/ run' = [run EXCEPT ![r] = Received("checking", e, past)]
           \/ Finish(r, Received("idle", e, past), "refused", "string")
    BY <1>1 DEF Submit
  <2> HIDE DEF past
  <2>3. CASE run' = [run EXCEPT ![r] = Received("checking", e, past)]
    <3>1. run'[r].phase = "checking" /\ (q # r => run'[q] = run[q])
      BY <1>0, <2>3 DEF Received
    <3> QED
      BY <2>2, <3>1 DEF Advances, Stage
  <2>4. CASE Finish(r, Received("idle", e, past), "refused", "string")
    BY <2>1, <2>2, <2>4, FinishAdvances
  <2> QED
    BY <2>2, <2>3, <2>4
<1>2. ASSUME NEW r \in Runs, Check(r)
      PROVE  Advances(q)
  <2> DEFINE started == [run[r] EXCEPT !.phase = "executing", !.running = TRUE]
  <2>1. /\ run[r].phase = "checking"
        /\ \/ run' = [run EXCEPT ![r].phase = "thrown"]
           \/ Finish(r, run[r], "refused", "string")
           \/ Attempt(r, started, handlers)
           \/ Finish(r, started, "failed", "string")
    BY <1>2 DEF Check
  <2>2. started \in Records /\ started.phase = "executing"
    <3>1. [run[r] EXCEPT !.phase = "executing"] \in Records
      BY OneSubmission DEF Records, Phases, Open
    <3>2. started = [[run[r] EXCEPT !.phase = "executing"] EXCEPT !.running = TRUE]
      OBVIOUS
    <3> QED
      BY <3>1, <3>2, OneSubmission DEF Records
  <2> HIDE DEF started
  <2>3. CASE run' = [run EXCEPT ![r].phase = "thrown"]
    <3>1. run'[r].phase = "thrown" /\ (q # r => run'[q] = run[q])
      BY <1>0, <2>3 DEF Records
    <3> QED
      BY <2>1, <3>1 DEF Advances, Stage
  <2>4. CASE Finish(r, run[r], "refused", "string") \/ Finish(r, started, "failed", "string")
    BY <1>0, <2>1, <2>2, <2>4, FinishAdvances
  <2>5. CASE Attempt(r, started, handlers)
    BY <2>1, <2>2, <2>5, AttemptShape DEF Advances, Stage
  <2> QED
    BY <2>1, <2>3, <2>4, <2>5
<1>3. ASSUME NEW r \in Runs, NEW n, Returns(r, n)
      PROVE  Advances(q)
  <2> DEFINE now == After(r, "completed")
  <2>1. /\ run[r].phase = "executing"
        /\ \/ Finish(r, now, "failed", "string")
           \/ Finish(r, now, "completed", "none")
           \/ Attempt(r, now, handlers \ {<<r, n>>})
    BY <1>3 DEF Returns, Answers, After
  <2>2. now \in Records /\ now.phase = "executing" /\ Len(now.attempts) = Len(run[r].attempts) + 1
    BY <2>1, AttemptEnded
  <2> HIDE DEF now
  <2>3. CASE Finish(r, now, "failed", "string") \/ Finish(r, now, "completed", "none")
    BY <2>1, <2>2, <2>3, FinishAdvances
  <2>4. CASE Attempt(r, now, handlers \ {<<r, n>>})
    BY <2>1, <2>2, <2>4, AttemptShape DEF Advances
  <2> QED
    BY <2>1, <2>3, <2>4
<1>4. ASSUME NEW h \in handlers, Throws(h[1], h[2])
      PROVE  Advances(q)
  <2>1. h[1] \in Runs /\ run[h[1]].phase = "executing"
        /\ \E code \in Codes : AttemptFails(h[1], code, handlers \ {<<h[1], h[2]>>})
    BY <1>4 DEF Throws, Answers, KInv, Types
  <2> QED
    BY <2>1, FailAdvances
<1>5. ASSUME NEW r \in Runs, Timeout(r)
      PROVE  Advances(q)
  BY <1>5, FailAdvances DEF Timeout, TimesOut, Codes, Declarable
<1>6. ASSUME NEW r \in Runs, NEW phase, Stage(phase) < Stage(run[r].phase),
             run' = [run EXCEPT ![r].phase = phase]
      PROVE  Advances(q)
  <2>1. run'[r].phase = phase /\ (q # r => run'[q] = run[q])
    BY <1>0, <1>6 DEF Records
  <2> QED
    BY <1>6, <2>1 DEF Advances
<1>7. ASSUME NEW r \in Runs, WriteOutput(r)
      PROVE  Advances(q)
  <2>1. run[r].phase = "output" /\ \E phase \in {"append", "thrown"} : run' = [run EXCEPT ![r].phase = phase]
    BY <1>7 DEF WriteOutput
  <2>2. \A phase \in {"append", "thrown"} : Stage(phase) < Stage(run[r].phase)
    BY <2>1 DEF Stage
  <2> QED
    BY <1>6, <2>1, <2>2
<1>8. CASE AppendRecord
  <2>1. Head(chain) \in Runs /\ Head(chain) = chain[1] /\ 1 \in DOMAIN chain
    BY <1>8 DEF AppendRecord, KInv, Types
  <2>2. run[Head(chain)].phase = "append"
    BY <2>1 DEF KInv, ChainOrder
  <2>3. \E phase \in {"answered", "thrown"} : run' = [run EXCEPT ![Head(chain)].phase = phase]
    BY <1>8 DEF AppendRecord
  <2>4. \A phase \in {"answered", "thrown"} : Stage(phase) < Stage(run[Head(chain)].phase)
    BY <2>2 DEF Stage
  <2> QED
    BY <1>6, <2>1, <2>3, <2>4
<1>9. CASE Kill
  <2>1. \/ run'[q] = run[q]
        \/ run[q].phase \in Open /\ run'[q] = [run[q] EXCEPT !.phase = "killed"]
    BY <1>9 DEF Kill
  <2>2. run[q] \in Records
    BY <1>0
  <2> QED
    BY <2>1, <2>2 DEF Advances, Stage, Open, Records
<1>10. CASE (\E h \in handlers : EndsLate(h[1], h[2])) \/ UNCHANGED vars
  BY <1>10 DEF EndsLate, vars, Advances
<1>11. ASSUME NEW h \in handlers, Returns(h[1], h[2])
       PROVE  Advances(q)
  BY <1>3, <1>11 DEF KInv, Types
<1> QED
  BY <1>1, <1>2, <1>4, <1>5, <1>7, <1>8, <1>9, <1>10, <1>11 DEF Next

(* What is left of a submission is a number, and an advance lowers it. *)
LEMMA LeftType ==
  ASSUME KInv, InBudget, NEW r \in Runs
  PROVE  /\ Stage(run[r].phase) \in Nat /\ AttemptsLeft(r, run[r]) \in Nat
         /\ Tracks[r] * MaxAttempts[r] \in Nat /\ Len(run[r].attempts) \in Nat
         /\ Left(r) <= Tracks[r] * MaxAttempts[r] + 5
<1>1. Tracks[r] * MaxAttempts[r] \in Nat
  BY KernelAssumption, Product
<1>2. Len(run[r].attempts) \in Nat /\ Len(run[r].attempts) <= Tracks[r] * MaxAttempts[r]
  BY OneSubmission DEF Records, InBudget, Budget
<1> DEFINE all == Tracks[r] * MaxAttempts[r]
           used == Len(run[r].attempts)
<1>3. /\ AttemptsLeft(r, run[r]) = all - used \/ AttemptsLeft(r, run[r]) = 0
      /\ Stage(run[r].phase) \in 0 .. 5
  BY DEF AttemptsLeft, Stage
<1>4. all \in Nat /\ used \in Nat /\ used <= all
  BY <1>1, <1>2
<1> HIDE DEF all, used
<1>5. AttemptsLeft(r, run[r]) \in 0 .. all
  BY <1>3, <1>4
<1>6. Left(r) <= all + 5
  BY <1>3, <1>4, <1>5 DEF Left
<1> QED
  BY <1>1, <1>2, <1>3, <1>4, <1>5, <1>6 DEF all

LEMMA LeftShrinks ==
  ASSUME KInv, InBudget, [Next]_vars, NEW r \in Runs
  PROVE  run'[r] = run[r] \/ Left(r)' < Left(r)
<1>1. KInv' /\ InBudget' /\ Advances(r) /\ (NoAttempt(r) \/ OneAttempt(r) \/ Began(r))
  BY NextKInv, BudgetStep, StepAdvances, StepShape
<1> DEFINE all == Tracks[r] * MaxAttempts[r]
           used == Len(run[r].attempts)
           after == Len(run'[r].attempts)
<1>2. all \in Nat /\ used \in Nat /\ after \in Nat /\ used <= all /\ after <= all
  BY <1>1, LeftType DEF InBudget, Budget
<1>3. CASE run'[r] = run[r]
  BY <1>3
<1>4. CASE /\ run[r].phase = "executing" /\ run'[r].phase = "executing"
           /\ Len(run'[r].attempts) = Len(run[r].attempts) + 1
  <2>1. Left(r) = 3 + (all - used) /\ Left(r)' = 3 + (all - after) /\ after = used + 1
    BY <1>4 DEF Left, Stage, AttemptsLeft
  <2> HIDE DEF all, used, after
  <2> QED
    BY <1>2, <2>1
<1>5. CASE Stage(run'[r].phase) < Stage(run[r].phase)
  <2> DEFINE early == {"idle", "checking", "executing"}
             before == IF run[r].phase \in early THEN all - used ELSE 0
             behind == IF run'[r].phase \in early THEN all - after ELSE 0
  <2>1. /\ Left(r) = Stage(run[r].phase) + before
        /\ Left(r)' = Stage(run'[r].phase) + behind
    BY DEF Left, AttemptsLeft
  <2>2. run'[r].phase \in early => run[r].phase \in early
    BY <1>5 DEF Stage
  <2>3. run'[r].phase \in early => used <= after
    <3>1. ASSUME run'[r].phase \in early, Began(r)
          PROVE  used <= after
      <4>1. run[r].phase \in {"idle", "checking"}
        BY <1>5, <3>1 DEF Stage, Began
      <4>2. run[r].attempts = <<>> /\ run'[r].attempts = <<>>
        BY <3>1, <4>1 DEF InBudget, Budget, Began
      <4> QED
        BY <1>2, <4>2
    <3>2. CASE NoAttempt(r)
      BY <1>2, <3>2 DEF NoAttempt
    <3>3. CASE OneAttempt(r)
      <4>1. run[r].attempts \in Seq(Codes \cup {"completed"})
        BY OneSubmission DEF Records
      <4>2. after = used + 1
        BY <3>3, <4>1 DEF OneAttempt
      <4> QED
        BY <1>2, <4>2
    <3> QED
      BY <1>1, <3>1, <3>2, <3>3
  <2>4. Stage(run[r].phase) \in Nat /\ Stage(run'[r].phase) \in Nat
    BY DEF Stage
  <2> HIDE DEF all, used, after, early
  <2>5. before \in Nat /\ behind \in Nat /\ behind <= before
    BY <1>2, <2>2, <2>3
  <2> HIDE DEF before, behind
  <2> QED
    BY <1>5, <2>1, <2>4, <2>5
<1> QED
  BY <1>1, <1>3, <1>4, <1>5 DEF Advances

(* No submission goes round in circles, whatever its handlers, timers,     *)
(* retries and writes do: each step that touches it takes one from what    *)
(* is left of it, which is at most five more than its attempts; and one    *)
(* that waits to be recorded waits for a chain that is not empty.          *)
THEOREM SubmissionsAdvance ==
  Spec => /\ [](\A r \in Runs : /\ Left(r) \in 0 .. Tracks[r] * MaxAttempts[r] + 5
                                /\ run[r].phase = "append" => chain # <<>>)
          /\ [][\A r \in Runs : run'[r] = run[r] \/ Left(r)' < Left(r)]_vars
<1> DEFINE Shrinks == \A r \in Runs : run'[r] = run[r] \/ Left(r)' < Left(r)
           Bounded == \A r \in Runs : /\ Left(r) \in 0 .. Tracks[r] * MaxAttempts[r] + 5
                                      /\ run[r].phase = "append" => chain # <<>>
<1>1. KInv /\ InBudget => Bounded
  <2> SUFFICES ASSUME KInv, InBudget, NEW r \in Runs
               PROVE  /\ Left(r) \in 0 .. Tracks[r] * MaxAttempts[r] + 5
                      /\ run[r].phase = "append" => chain # <<>>
    OBVIOUS
  <2>1. run[r].phase = "append" => chain # <<>>
    BY DEF KInv, ChainOrder
  <2>2. Left(r) \in Nat
    BY LeftType DEF Left
  <2> QED
    BY <2>1, <2>2, LeftType
<1>2. KInv /\ InBudget /\ [Next]_vars => InBudget' /\ Shrinks
  BY LeftShrinks, BudgetStep
<1>3. Init => InBudget
  BY InitInBudget
<1> QED
  BY <1>1, <1>2, <1>3, SpecKInv, PTL DEF Spec

=============================================================================
