-------------------------- MODULE CapabilityKernel --------------------------
(***************************************************************************)
(* The capability trigger kernel (companion/capability-kernel/kernel.js)   *)
(* and its provenance store (provenance-store.js): an event is submitted,  *)
(* checked against the log of earlier runs, planned, executed step by step *)
(* with timeouts and retries, and leaves a record in the log.              *)
(*                                                                         *)
(* Submissions of one process interleave wherever the kernel awaits.  The  *)
(* process may be killed at any time, and a write to the disk may fail.    *)
(* What matching, policy and the schemas decide about an event and about   *)
(* the outputs of its steps is left open.                                  *)
(***************************************************************************)
EXTENDS Naturals, Sequences, FiniteSets

CONSTANTS Submissions,  \* bound on the number of submissions
          Events,       \* event_ids
          Tracks,       \* Tracks[r]: the steps of the capability r executes
          MaxAttempts,  \* MaxAttempts[r]: retry.max_attempts of each of them
          Retryable,    \* retry.retryable_codes of each step
          MaxKills      \* bound on how often the process is killed

Runs == 1 .. Submissions     \* in the order in which they begin

ASSUME KernelAssumption ==
  /\ Submissions \in Nat /\ Events # {}
  /\ Tracks \in [Runs -> Nat \ {0}]
  /\ MaxAttempts \in [Runs -> Nat \ {0}]
  /\ Retryable \subseteq {"HANDLER_TIMEOUT", "string"}
  /\ MaxKills \in Nat

VARIABLES
  run,       \* run[r]: what submitEvent knows of submission r
  chain,     \* the runs whose records wait to be appended, in order
  log,       \* the runs with a readable record in runs.jsonl
  damaged,   \* whether runs.jsonl contains part of a line
  outputs,   \* the runs that have an output file
  handlers,  \* <<r, n>>: the handler called in attempt n of r is running
  kills      \* how often the process was killed

vars == <<run, chain, log, damaged, outputs, handlers, kills>>

(* "refused" stands for ignored, rejected and approval_required. *)
Terminals == {"completed", "refused", "failed"}

(* Error codes: the timeout's, any other string, and a number.  A manifest *)
(* can declare strings retryable.                                          *)
Declarable == {"HANDLER_TIMEOUT", "string"}
Codes == Declarable \cup {"number"}

Open == {"checking", "executing", "output", "append"}
Ended == {"answered", "thrown", "killed"}

Received(phase, e, past) ==
  [phase |-> phase, event |-> e, past |-> past,
   running |-> FALSE, attempts |-> <<>>, terminal |-> "none"]

Fresh == Received("idle", CHOOSE e \in Events : TRUE, {})

Init ==
  /\ run = [r \in Runs |-> Fresh]
  /\ chain = <<>>
  /\ log = {}
  /\ damaged = FALSE
  /\ outputs = {}
  /\ handlers = {}
  /\ kills = 0

-----------------------------------------------------------------------------
(* Operators *)

(* The steps whose attempts have completed, and the attempts at the next.  *)
Done(attempts) == Cardinality({n \in DOMAIN attempts : attempts[n] = "completed"})
Tries(attempts) ==
  Cardinality({n \in DOMAIN attempts :
                 \A k \in n .. Len(attempts) : attempts[k] # "completed"})

(* Mutant of HasExecutedEvent: only a completed run counts. *)
HasCompletedEvent(e) ==
  \E q \in log : run[q].event = e /\ run[q].terminal = "completed"

HasExecutedEvent(e) == \E q \in log : run[q].event = e /\ run[q].running

(* Mutant of Finish: the output is written after the record. *)
FinishRecordFirst(r, now, terminal, code) ==
  LET ended == [now EXCEPT !.terminal = terminal]
  IN  IF code = "number"
      THEN /\ run' = [run EXCEPT ![r] = [ended EXCEPT !.phase = "thrown"]]
           /\ UNCHANGED chain
      ELSE /\ run' = [run EXCEPT ![r] = [ended EXCEPT !.phase = "append"]]
           /\ chain' = Append(chain, r)

(* finish: a completed run writes its output first; otherwise the record   *)
(* joins the chain of appends.  The code becomes the reason of the last    *)
(* transition, which the record's schema requires to be a string: with any *)
(* other the record is refused, and the submission throws without it.      *)
Finish(r, now, terminal, code) ==
  LET ended == [now EXCEPT !.terminal = terminal]
  IN  IF terminal = "completed"
      THEN /\ run' = [run EXCEPT ![r] = [ended EXCEPT !.phase = "output"]]
           /\ UNCHANGED chain
      ELSE IF code = "number"
      THEN /\ run' = [run EXCEPT ![r] = [ended EXCEPT !.phase = "thrown"]]
           /\ UNCHANGED chain
      ELSE /\ run' = [run EXCEPT ![r] = [ended EXCEPT !.phase = "append"]]
           /\ chain' = Append(chain, r)

(* The next attempt calls its handler. *)
Attempt(r, now, others) ==
  /\ run' = [run EXCEPT ![r] = now]
  /\ handlers' = others \cup {<<r, Len(now.attempts) + 1>>}
  /\ UNCHANGED chain

(* Mutant of MayRetry: one attempt too many. *)
MayRetryOnceMore(r, now, code) ==
  Tries(now.attempts) <= MaxAttempts[r] /\ code \in Retryable

(* The attempt that failed with code is followed by another. *)
MayRetry(r, now, code) ==
  Tries(now.attempts) < MaxAttempts[r] /\ code \in Retryable

(* Mutant of Answers: also a handler that has timed out is listened to. *)
AnswersLate(r, n) == <<r, n>> \in handlers /\ run[r].phase = "executing"

(* Whether the race of attempt n is still open for its handler. *)
Answers(r, n) ==
  /\ <<r, n>> \in handlers /\ run[r].phase = "executing"
  /\ n = Len(run[r].attempts) + 1

(* Mutant of TimesOut: the retry has no timer. *)
TimesOutOnce(r) == run[r].phase = "executing" /\ run[r].attempts = <<>>

TimesOut(r) == run[r].phase = "executing"

-----------------------------------------------------------------------------
(* submitEvent *)

(* Up to the duplicate check; an invalid event, or one from a source that  *)
(* is not trusted, does not get so far.  "past" is kept for the properties *)
(* only: the runs that have executed the event and have been answered.     *)
Submit(r, e) ==
  LET past == {q \in Runs : run[q].phase = "answered" /\ run[q].running
                             /\ run[q].event = e}
  IN  /\ run[r].phase = "idle"
      /\ \A q \in 1 .. r - 1 : run[q].phase # "idle"
      /\ \/ /\ run' = [run EXCEPT ![r] = Received("checking", e, past)]
            /\ UNCHANGED chain
         \/ Finish(r, Received("idle", e, past), "refused", "string")
      /\ UNCHANGED <<log, damaged, outputs, handlers, kills>>

(* The log has been read: a line that cannot be parsed throws.  A new      *)
(* event is matched, checked against the policy and planned, or turned     *)
(* away on the way; the first step's input may be invalid.                 *)
Check(r) ==
  LET started == [run[r] EXCEPT !.phase = "executing", !.running = TRUE]
  IN  /\ run[r].phase = "checking"
      /\ \/ /\ damaged
            /\ run' = [run EXCEPT ![r].phase = "thrown"]
            /\ UNCHANGED <<chain, handlers>>
         \/ /\ ~damaged /\ HasExecutedEvent(run[r].event)
            /\ Finish(r, run[r], "refused", "string")
            /\ UNCHANGED handlers
         \/ /\ ~damaged /\ ~HasExecutedEvent(run[r].event)
            /\ \/ /\ Finish(r, run[r], "refused", "string")
                  /\ UNCHANGED handlers
               \/ Attempt(r, started, handlers)
               \/ /\ Finish(r, started, "failed", "string")
                  /\ UNCHANGED handlers
      /\ UNCHANGED <<log, damaged, outputs, kills>>

(* The handler of attempt n returns.  Its output may fail its schema, the  *)
(* last one the manifest's, and the next step's input its own.             *)
Returns(r, n) ==
  LET now == [run[r] EXCEPT !.attempts = Append(@, "completed")]
      others == handlers \ {<<r, n>>}
  IN  /\ Answers(r, n)
      /\ \/ Finish(r, now, "failed", "string") /\ handlers' = others
         \/ /\ Done(now.attempts) = Tracks[r]
            /\ Finish(r, now, "completed", "none")
            /\ handlers' = others
         \/ Done(now.attempts) < Tracks[r] /\ Attempt(r, now, others)
      /\ UNCHANGED <<log, damaged, outputs, kills>>

(* An attempt has failed with code: it is retried or fails the run. *)
AttemptFails(r, code, others) ==
  LET now == [run[r] EXCEPT !.attempts = Append(@, code)]
  IN  IF MayRetry(r, now, code) THEN Attempt(r, now, others)
      ELSE Finish(r, now, "failed", code) /\ handlers' = others

Throws(r, n) ==
  /\ Answers(r, n)
  /\ \E code \in Codes \ {"HANDLER_TIMEOUT"} :
       AttemptFails(r, code, handlers \ {<<r, n>>})
  /\ UNCHANGED <<log, damaged, outputs, kills>>

(* The timer wins the race; the handler goes on. *)
Timeout(r) ==
  /\ TimesOut(r)
  /\ AttemptFails(r, "HANDLER_TIMEOUT", handlers)
  /\ UNCHANGED <<log, damaged, outputs, kills>>

(* A handler that has timed out ends, and nobody listens. *)
EndsLate(r, n) ==
  /\ <<r, n>> \in handlers /\ ~Answers(r, n)
  /\ handlers' = handlers \ {<<r, n>>}
  /\ UNCHANGED <<run, chain, log, damaged, outputs, kills>>

(* writeOutput: a temporary file, renamed. *)
WriteOutput(r) ==
  /\ run[r].phase = "output"
  /\ \/ /\ outputs' = outputs \cup {r}
        /\ run' = [run EXCEPT ![r].phase = "append"]
        /\ chain' = Append(chain, r)
     \/ /\ run' = [run EXCEPT ![r].phase = "thrown"]
        /\ UNCHANGED <<outputs, chain>>
  /\ UNCHANGED <<log, damaged, handlers, kills>>

(* The next record of the chain is appended; behind part of a line it      *)
(* cannot be read either.  The append may fail, leaving part of the line;  *)
(* the next one is tried all the same.                                     *)
AppendRecord ==
  /\ chain # <<>>
  /\ chain' = Tail(chain)
  /\ \/ /\ log' = IF damaged THEN log ELSE log \cup {Head(chain)}
        /\ run' = [run EXCEPT ![Head(chain)].phase = "answered"]
        /\ UNCHANGED damaged
     \/ /\ run' = [run EXCEPT ![Head(chain)].phase = "thrown"]
        /\ damaged' \in {damaged, TRUE}
        /\ UNCHANGED log
  /\ UNCHANGED <<outputs, handlers, kills>>

(* The process is killed, perhaps during a write. *)
Kill ==
  /\ kills < MaxKills /\ kills' = kills + 1
  /\ run' = [r \in Runs |-> IF run[r].phase \in Open
                            THEN [run[r] EXCEPT !.phase = "killed"] ELSE run[r]]
  /\ chain' = <<>> /\ handlers' = {}
  /\ \/ UNCHANGED <<log, damaged>>
     \/ chain # <<>> /\ damaged' = TRUE /\ UNCHANGED log
     \/ /\ chain # <<>> /\ ~damaged
        /\ log' = log \cup {Head(chain)} /\ UNCHANGED damaged
  /\ outputs' \in {outputs} \cup {outputs \cup {r} :
                                   r \in {q \in Runs : run[q].phase = "output"}}

Next ==
  \/ \E r \in Runs : \/ \E e \in Events : Submit(r, e)
                     \/ Check(r) \/ Timeout(r) \/ WriteOutput(r)
  \/ \E h \in handlers : \/ Returns(h[1], h[2]) \/ Throws(h[1], h[2])
                         \/ EndsLate(h[1], h[2])
  \/ AppendRecord
  \/ Kill

Spec == Init /\ [][Next]_vars

(* The file system answers and the timers of the process fire.  Nothing is *)
(* assumed of the handlers.                                                *)
Fairness ==
  /\ \A r \in Runs : WF_vars(Check(r) \/ Timeout(r) \/ WriteOutput(r))
  /\ WF_vars(AppendRecord)

FairSpec == Spec /\ Fairness

-----------------------------------------------------------------------------
(* Properties *)

(* The type invariant; the chain holds each waiting record once. *)
KernelTypeOK ==
  /\ run \in [Runs -> [phase : {"idle"} \cup Open \cup Ended, event : Events,
                       past : SUBSET Runs, running : BOOLEAN,
                       attempts : Seq(Codes \cup {"completed"}),
                       terminal : Terminals \cup {"none"}]]
  /\ chain \in Seq(Runs)
  /\ \A r \in Runs : run[r].phase = "append" <=> \E i \in DOMAIN chain : chain[i] = r
  /\ \A i, j \in DOMAIN chain : chain[i] = chain[j] => i = j
  /\ log \subseteq {r \in Runs : run[r].terminal # "none"}
  /\ damaged \in BOOLEAN
  /\ outputs \subseteq {r \in Runs : run[r].terminal = "completed"}
  /\ \A h \in handlers : h[1] \in Runs /\ h[2] \in 1 .. Tracks[h[1]] * MaxAttempts[h[1]]
  /\ kills \in 0 .. MaxKills

(* An event whose run was executed and answered is not executed again by   *)
(* what is submitted afterwards (hasExecutedEvent), also when the log was  *)
(* damaged in between: only a run that threw, or died, has left no trace,  *)
(* and only one that was under way at the same time is not seen.           *)
AnsweredNeverReplayed ==
  \A r \in Runs : run[r].running => run[r].past = {}

(* The record of a completed run never precedes its output, and it shows   *)
(* one completed attempt of every step, after which nothing was tried      *)
(* (finish, submitEvent).                                                  *)
CompletedIsBacked ==
  \A r \in Runs :
    run[r].terminal = "completed" /\ (r \in log \/ run[r].phase \in {"append", "answered"})
    => /\ r \in outputs
       /\ Done(run[r].attempts) = Tracks[r]
       /\ run[r].attempts[Len(run[r].attempts)] = "completed"

(* A handler runs for the attempt the kernel is waiting for, or is one     *)
(* that has timed out: no answer is taken for another attempt's, and no    *)
(* other attempt leaves a handler behind (withTimeout).                    *)
OnlyTimedOutHandlersLinger ==
  \A h \in handlers :
    LET now == run[h[1]]
    IN  \/ now.phase = "executing" /\ h[2] = Len(now.attempts) + 1
        \/ h[2] <= Len(now.attempts) /\ now.attempts[h[2]] = "HANDLER_TIMEOUT"

(* Every submission comes to an end, whatever its handlers do. *)
SubmissionsEnd ==
  <>[](\A r \in Runs : run[r].phase \notin Open)

=============================================================================
