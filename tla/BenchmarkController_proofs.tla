-------------------- MODULE BenchmarkController_proofs --------------------
(***************************************************************************)
(* What holds of BenchmarkController for any runs, keys, lines, failing    *)
(* writes and restarts: how a run ends, what gives the capacity back, that *)
(* a completed run stays completed, and that every run comes to rest.      *)
(***************************************************************************)
EXTENDS BenchmarkController, SequenceTheorems, TLAPS

(* x waits in the sequence s. *)
Waits(s, x) == \E i \in DOMAIN s : s[i] = x

(* No progress behind the last line of a run that completed. *)
Ordered(s) ==
  \A i, j \in DOMAIN s : i < j /\ s[i] = "completed" => s[j] # "progress"

Alive == {"unborn", "working", "ending"}

(* What each caller awaits. *)
CallsSound(r) ==
  /\ call[r]["start"] \in {"idle", "create", "start"}
  /\ call[r]["cancel"] \in {"idle", "cancel"}
  /\ call[r]["queue"] \in {"idle", "recover", "append"} \cup EventTasks \cup ErrorTasks
  /\ call[r]["exit"] \in {"idle", "exit"}
  /\ call[r]["queue"] = "recover" => <<r, "queue">> \in unsaved

(* Nothing precedes the start of a run, or the birth of its worker. *)
StartSound(r) ==
  /\ status[r] = "none" =>
       /\ \A c \in Callers : IsIdle(r, c)
       /\ worker[r] \notin Alive /\ pipe[r] = <<>> /\ tasks[r] = <<>>
  /\ ~IsIdle(r, "start") => worker[r] = "none" /\ status[r] \notin {"completed", "failed"}
  /\ worker[r] \in {"none", "unborn"} =>
       /\ pipe[r] = <<>> /\ tasks[r] = <<>> /\ IsIdle(r, "queue") /\ IsIdle(r, "exit")
       /\ r \notin terminalEvent /\ r \notin failed
  /\ worker[r] = "unborn" => status[r] \notin {"completed", "failed"}

(* While the worker is at work it has only made progress; what it says is  *)
(* read and handled in order.                                              *)
OutputSound(r) ==
  /\ worker[r] = "working" =>
       /\ status[r] # "completed"
       /\ ~Waits(pipe[r], "completed") /\ ~Waits(pipe[r], "failed")
       /\ \A x \in Tasks \ {"progress"} : ~Waits(tasks[r], x)
       /\ call[r]["queue"] \in {"idle", "progress", "recover"}
  /\ Ordered(tasks[r]) /\ Ordered(pipe[r])
  /\ Waits(tasks[r], "completed") \/ status[r] = "completed" => ~Waits(pipe[r], "progress")
  /\ status[r] = "completed" => ~Waits(tasks[r], "progress")

(* An exit comes from a process that is gone, and so does the error of one *)
(* that was never born, which said nothing else.                           *)
ExitSound(r) ==
  /\ Waits(tasks[r], "exit") \/ Waits(tasks[r], "exitAfterEnd") \/ ~IsIdle(r, "exit")
       => worker[r] = "exited"
  /\ Waits(tasks[r], "error") =>
       /\ tasks[r] = <<"error">> /\ pipe[r] = <<>> /\ worker[r] = "exited"
       /\ IsIdle(r, "queue") /\ status[r] \notin {"completed", "failed"}
  /\ call[r]["queue"] = "error" =>
       tasks[r] = <<>> /\ pipe[r] = <<>> /\ worker[r] = "exited"

(* What will end an open run is still to come. *)
EndSound(r) ==
  Open(r) /\ r \notin revived =>
    /\ worker[r] # "none" \/ ~IsIdle(r, "start") \/ <<r, "start">> \in unsaved
    /\ r \in terminalEvent => Waits(tasks[r], "completed") \/ Waits(tasks[r], "failed")
    /\ r \in failed => Waits(tasks[r], "protocol") \/ Waits(tasks[r], "error")
    /\ worker[r] = "exited" =>
         r \in terminalEvent \/ r \in failed \/ Waits(tasks[r], "exit")

RunSound(r) ==
  CallsSound(r) /\ StartSound(r) /\ OutputSound(r) /\ ExitSound(r) /\ EndSound(r)

Unreleased(r) == \E c \in {"start", "cancel"} : <<r, c>> \in unsaved

(* What will give the capacity back is still to come. *)
HeldSound(r) ==
  active = r =>
    /\ status[r] = "cancelled" => ~IsIdle(r, "cancel") \/ Unreleased(r)
    /\ \/ ~IsIdle(r, "start") \/ ~IsIdle(r, "cancel") \/ ~IsIdle(r, "exit") \/ Unreleased(r)
       \/ worker[r] \in Alive
       \/ \E x \in ExitTasks \cup {"error"} : Waits(tasks[r], x)
       \/ call[r]["queue"] = "error"

BInv ==
  BenchTypeOK /\ (\A r \in Runs : RunSound(r) /\ HeldSound(r)) /\ OneOpenRunPerKey

(* If nobody calls while a start is in progress: one start at a time holds *)
(* the place it has found free, and nothing ends it.                       *)
PlaceSound(r) ==
  /\ call[r]["start"] = "create" => active = NoRun
  /\ call[r]["start"] = "start" => active = r
  /\ ~IsIdle(r, "start") => IsIdle(r, "cancel")
  /\ worker[r] = "working" =>
       r \in workers /\ IsIdle(r, "cancel") /\ (active = r \/ <<r, "queue">> \in unsaved)

OneStart == \A q, r \in Runs : ~IsIdle(q, "start") /\ ~IsIdle(r, "start") => q = r

CapacityInv == OneStart /\ \A r \in Runs : PlaceSound(r)

-----------------------------------------------------------------------------
(* Sequences *)

LEMMA WaitsAppend ==
  ASSUME NEW S, NEW s \in Seq(S), NEW e \in S, NEW x
  PROVE  /\ Append(s, e) \in Seq(S)
         /\ Waits(Append(s, e), x) <=> Waits(s, x) \/ x = e
<1>1. Append(s, e) \in Seq(S) /\ Len(Append(s, e)) = Len(s) + 1
  OBVIOUS
<1>2. \A i \in 1 .. Len(s) : Append(s, e)[i] = s[i]
  OBVIOUS
<1>3. Append(s, e)[Len(s) + 1] = e
  OBVIOUS
<1>4. Len(s) \in Nat /\ DOMAIN s = 1 .. Len(s) /\ DOMAIN Append(s, e) = 1 .. Len(s) + 1
  BY <1>1
<1> QED
  BY <1>1, <1>2, <1>3, <1>4 DEF Waits

LEMMA WaitsTail ==
  ASSUME NEW S, NEW s \in Seq(S), s # <<>>, NEW x
  PROVE  /\ Tail(s) \in Seq(S) /\ Head(s) \in S /\ Waits(s, Head(s))
         /\ Waits(s, x) <=> x = Head(s) \/ Waits(Tail(s), x)
<1>1. Len(s) \in Nat \ {0} /\ DOMAIN s = 1 .. Len(s) /\ Head(s) = s[1]
  BY EmptySeq
<1>2. Tail(s) \in Seq(S) /\ DOMAIN Tail(s) = 1 .. Len(s) - 1
  BY <1>1
<1>3. \A i \in 1 .. Len(s) - 1 : Tail(s)[i] = s[i + 1]
  BY <1>1
<1>4. ASSUME Waits(s, x), x # Head(s) PROVE Waits(Tail(s), x)
  <2>1. PICK i \in 1 .. Len(s) : s[i] = x
    BY <1>4, <1>1 DEF Waits
  <2>2. i - 1 \in 1 .. Len(s) - 1 /\ (i - 1) + 1 = i
    BY <1>4, <2>1, <1>1
  <2>3. Tail(s)[i - 1] = x
    BY <2>1, <2>2, <1>3
  <2> QED
    BY <2>2, <2>3, <1>2 DEF Waits
<1>5. ASSUME Waits(Tail(s), x) PROVE Waits(s, x)
  <2>1. PICK i \in 1 .. Len(s) - 1 : Tail(s)[i] = x
    BY <1>5, <1>2 DEF Waits
  <2>2. i + 1 \in 1 .. Len(s) /\ s[i + 1] = x
    BY <2>1, <1>1, <1>3
  <2> QED
    BY <2>2, <1>1 DEF Waits
<1>6. Waits(s, Head(s)) /\ Head(s) \in S
  BY <1>1 DEF Waits
<1> QED
  BY <1>2, <1>4, <1>5, <1>6

LEMMA WaitsDrop ==
  ASSUME NEW S, NEW s \in Seq(S), NEW n \in DOMAIN s, NEW x
  PROVE  /\ SubSeq(s, n + 1, Len(s)) \in Seq(S)
         /\ Waits(SubSeq(s, n + 1, Len(s)), x) => Waits(s, x)
         /\ Waits(s, x) =>
              Waits(SubSeq(s, n + 1, Len(s)), x) \/ \E i \in 1 .. n : s[i] = x
<1> DEFINE rest == SubSeq(s, n + 1, Len(s))
<1>1. Len(s) \in Nat /\ DOMAIN s = 1 .. Len(s) /\ n \in 1 .. Len(s)
  OBVIOUS
<1>2. rest \in Seq(S) /\ DOMAIN rest = 1 .. Len(s) - n
  BY <1>1
<1>3. \A i \in 1 .. Len(s) - n : rest[i] = s[n + i]
  BY <1>1
<1> HIDE DEF rest
<1>4. ASSUME Waits(rest, x) PROVE Waits(s, x)
  <2>1. PICK i \in 1 .. Len(s) - n : rest[i] = x
    BY <1>4, <1>2 DEF Waits
  <2>2. n + i \in 1 .. Len(s) /\ s[n + i] = x
    BY <2>1, <1>1, <1>3
  <2> QED
    BY <2>2, <1>1 DEF Waits
<1>5. ASSUME Waits(s, x), \A i \in 1 .. n : s[i] # x PROVE Waits(rest, x)
  <2>1. PICK i \in 1 .. Len(s) : s[i] = x
    BY <1>5, <1>1 DEF Waits
  <2>2. i - n \in 1 .. Len(s) - n /\ n + (i - n) = i
    BY <1>5, <2>1, <1>1
  <2>3. rest[i - n] = x
    BY <2>1, <2>2, <1>3
  <2> QED
    BY <2>2, <2>3, <1>2 DEF Waits
<1> QED
  BY <1>2, <1>4, <1>5 DEF rest

LEMMA OrderedAppend ==
  ASSUME NEW S, NEW s \in Seq(S), NEW e \in S, Ordered(s),
         e = "progress" => ~Waits(s, "completed")
  PROVE  Ordered(Append(s, e))
<1>1. Len(s) \in Nat /\ DOMAIN s = 1 .. Len(s) /\ DOMAIN Append(s, e) = 1 .. Len(s) + 1
  OBVIOUS
<1>2. \A i \in 1 .. Len(s) : Append(s, e)[i] = s[i]
  OBVIOUS
<1>3. Append(s, e)[Len(s) + 1] = e
  OBVIOUS
<1>4. SUFFICES ASSUME NEW i \in 1 .. Len(s) + 1, NEW j \in 1 .. Len(s) + 1, i < j,
                      Append(s, e)[i] = "completed", Append(s, e)[j] = "progress"
               PROVE  FALSE
  BY <1>1 DEF Ordered
<1>5. i \in 1 .. Len(s) /\ s[i] = "completed"
  BY <1>1, <1>2, <1>4
<1>6. CASE j \in 1 .. Len(s)
  BY <1>1, <1>2, <1>4, <1>5, <1>6 DEF Ordered
<1>7. CASE j = Len(s) + 1
  BY <1>1, <1>3, <1>4, <1>5, <1>7 DEF Waits
<1> QED
  BY <1>1, <1>6, <1>7

LEMMA OrderedDrop ==
  ASSUME NEW S, NEW s \in Seq(S), NEW n \in DOMAIN s, Ordered(s)
  PROVE  Ordered(SubSeq(s, n + 1, Len(s)))
<1> DEFINE rest == SubSeq(s, n + 1, Len(s))
<1>1. Len(s) \in Nat /\ DOMAIN s = 1 .. Len(s) /\ n \in 1 .. Len(s)
  OBVIOUS
<1>2. DOMAIN rest = 1 .. Len(s) - n
  BY <1>1
<1>3. \A i \in 1 .. Len(s) - n : rest[i] = s[n + i]
  BY <1>1
<1> HIDE DEF rest
<1>4. ASSUME NEW i \in DOMAIN rest, NEW j \in DOMAIN rest, i < j, rest[i] = "completed"
      PROVE  rest[j] # "progress"
  <2>1. n + i \in DOMAIN s /\ n + j \in DOMAIN s /\ n + i < n + j
    BY <1>1, <1>2, <1>4
  <2> QED
    BY <2>1, <1>2, <1>3, <1>4 DEF Ordered
<1>5. Ordered(rest)
  BY <1>4 DEF Ordered
<1> QED
  BY <1>5 DEF rest

LEMMA OrderedTail ==
  ASSUME NEW S, NEW s \in Seq(S), s # <<>>, Ordered(s)
  PROVE  /\ Ordered(Tail(s))
         /\ Head(s) = "completed" => ~Waits(Tail(s), "progress")
<1>1. Len(s) \in Nat \ {0} /\ DOMAIN s = 1 .. Len(s) /\ Head(s) = s[1]
  BY EmptySeq
<1>2. DOMAIN Tail(s) = 1 .. Len(s) - 1
  BY <1>1
<1>3. \A i \in 1 .. Len(s) - 1 : Tail(s)[i] = s[i + 1]
  BY <1>1
<1>4. ASSUME NEW i \in DOMAIN Tail(s), NEW j \in DOMAIN Tail(s), i < j, Tail(s)[i] = "completed"
      PROVE  Tail(s)[j] # "progress"
  <2>1. i + 1 \in DOMAIN s /\ j + 1 \in DOMAIN s /\ i + 1 < j + 1
    BY <1>1, <1>2, <1>4
  <2> QED
    BY <2>1, <1>2, <1>3, <1>4 DEF Ordered
<1>5. ASSUME Head(s) = "completed", NEW j \in DOMAIN Tail(s) PROVE Tail(s)[j] # "progress"
  <2>1. 1 \in DOMAIN s /\ j + 1 \in DOMAIN s /\ 1 < j + 1
    BY <1>1, <1>2, <1>5
  <2> QED
    BY <2>1, <1>1, <1>2, <1>3, <1>5 DEF Ordered
<1> QED
  BY <1>4, <1>5 DEF Ordered, Waits

LEMMA NothingWaits == Ordered(<<>>) /\ \A x : ~Waits(<<>>, x)
BY DEF Ordered, Waits

-----------------------------------------------------------------------------
(* Frames *)

Same(q) ==
  /\ status'[q] = status[q] /\ call'[q] = call[q] /\ worker'[q] = worker[q]
  /\ pipe'[q] = pipe[q] /\ tasks'[q] = tasks[q]
  /\ q \in terminalEvent' <=> q \in terminalEvent
  /\ q \in failed' <=> q \in failed
  /\ q \in revived' <=> q \in revived
  /\ \A c \in Callers : <<q, c>> \in unsaved' <=> <<q, c>> \in unsaved

(* A step on r leaves the other runs alone, does not open r beside another *)
(* run with its key, and leaves r completed.                               *)
Others(r) ==
  \A q \in Runs \ {r} : Same(q) /\ (active' = q => active = q) /\ key'[q] = key[q]

RunKept(r) ==
  /\ Open(r)' /\ r \notin revived' =>
       (Open(r) /\ r \notin revived /\ key'[r] = key[r]) \/ ~Duplicate(key'[r])
  /\ status[r] = "completed" => status'[r] = "completed"

Kept(r) ==
  BenchTypeOK' /\ RunSound(r)' /\ HeldSound(r)' /\ Others(r) /\ RunKept(r)

LEMMA SameSound ==
  ASSUME NEW q \in Runs, Same(q), RunSound(q) PROVE RunSound(q)'
<1>1. CallsSound(q)'
  BY DEF RunSound, CallsSound, Same, Callers
<1>2. StartSound(q)'
  BY DEF RunSound, StartSound, Same, Callers, IsIdle
<1>3. OutputSound(q)'
  BY DEF RunSound, OutputSound, Same
<1>4. ExitSound(q)'
  BY DEF RunSound, ExitSound, Same, IsIdle
<1>5. EndSound(q)'
  BY DEF RunSound, EndSound, Same, IsIdle, Open, Callers
<1> QED
  BY <1>1, <1>2, <1>3, <1>4, <1>5 DEF RunSound

LEMMA SameHeld ==
  ASSUME NEW q \in Runs, Same(q), active' = q => active = q, HeldSound(q)
  PROVE  HeldSound(q)'
BY DEF HeldSound, Same, IsIdle, Unreleased, Callers

LEMMA KeptInv ==
  ASSUME BInv, NEW r \in Runs, Kept(r) PROVE BInv'
<1>1. \A q \in Runs \ {r} : RunSound(q)' /\ HeldSound(q)'
  BY SameSound, SameHeld DEF BInv, Kept, Others
<1>2. ASSUME NEW p \in Runs, NEW q \in Runs, p # q, Open(p)', Open(q)', key'[p] = key'[q],
             p \notin revived', q \notin revived'
      PROVE  FALSE
  <2>1. \A x \in Runs \ {r} : Open(x)' /\ x \notin revived'
          => Open(x) /\ x \notin revived /\ key'[x] = key[x]
    BY DEF Kept, Others, Same, Open
  <2>2. CASE p = r
    BY <1>2, <2>1, <2>2 DEF Kept, RunKept, BInv, OneOpenRunPerKey, Duplicate
  <2>3. CASE q = r
    BY <1>2, <2>1, <2>3 DEF Kept, RunKept, BInv, OneOpenRunPerKey, Duplicate
  <2>4. CASE p # r /\ q # r
    BY <1>2, <2>1, <2>4 DEF BInv, OneOpenRunPerKey
  <2> QED
    BY <2>2, <2>3, <2>4
<1>3. OneOpenRunPerKey'
  BY <1>2 DEF OneOpenRunPerKey
<1> QED
  BY <1>1, <1>3 DEF Kept, BInv

LEMMA CallUpdate ==
  ASSUME BenchTypeOK, NEW r \in Runs, NEW c \in Callers, NEW t \in CallTasks \cup {"idle"},
         Awaits(r, c, t)
  PROVE  /\ call' \in [Runs -> [Callers -> CallTasks \cup {"idle"}]]
         /\ call'[r][c] = t
         /\ \A d \in Callers \ {c} : call'[r][d] = call[r][d]
         /\ \A q \in Runs \ {r} : call'[q] = call[q]
BY DEF BenchTypeOK, Awaits

LEMMA StatusUpdate ==
  ASSUME BenchTypeOK, NEW r \in Runs, NEW s \in Statuses, SetStatus(r, s)
  PROVE  /\ status' \in [Runs -> Statuses] /\ revived' \subseteq Runs
         /\ status'[r] = s
         /\ r \in revived' <=> r \in revived \/ (status[r] \in Terminal /\ s \in OpenStatuses)
         /\ \A q \in Runs \ {r} : status'[q] = status[q] /\ (q \in revived' <=> q \in revived)
BY DEF BenchTypeOK, SetStatus

LEMMA SavedType ==
  ASSUME BenchTypeOK, NEW r \in Runs, Saved(r) PROVE file' \in [Runs -> Statuses]
BY DEF BenchTypeOK, Saved

-----------------------------------------------------------------------------
(* startRun and cancelRun *)

LEMMA StartKept ==
  ASSUME BInv, NEW r \in Runs, NEW k \in Keys, Start(r, k) PROVE Kept(r)
<1> USE DEF BInv
<1>0. "create" \in CallTasks /\ "start" \in Callers /\ "queued" \in Statuses
  BY DEF CallTasks, Callers, Statuses, OpenStatuses
<1>1. /\ call' \in [Runs -> [Callers -> CallTasks \cup {"idle"}]]
      /\ call'[r]["start"] = "create"
      /\ \A d \in Callers \ {"start"} : call'[r][d] = call[r][d]
      /\ \A q \in Runs \ {r} : call'[q] = call[q]
  BY <1>0, CallUpdate DEF Start
<1>2. /\ status' \in [Runs -> Statuses] /\ revived' \subseteq Runs
      /\ status'[r] = "queued"
      /\ r \in revived' <=> r \in revived
      /\ \A q \in Runs \ {r} : status'[q] = status[q] /\ (q \in revived' <=> q \in revived)
  BY <1>0, StatusUpdate DEF Start, Terminal
<1>3. /\ status[r] = "none" /\ worker[r] = "none" /\ ~Duplicate(k) /\ active = NoRun
      /\ key' = [key EXCEPT ![r] = k] /\ active' = active
      /\ UNCHANGED <<file, worker, workers, pipe, tasks, terminalEvent, failed, unsaved, restarts>>
  BY DEF Start
<1>4. /\ \A c \in Callers : IsIdle(r, c)
      /\ pipe[r] = <<>> /\ tasks[r] = <<>> /\ r \notin terminalEvent /\ r \notin failed
  BY <1>3 DEF RunSound, StartSound
<1>5. BenchTypeOK'
  BY <1>1, <1>2, <1>3 DEF BenchTypeOK
<1>6. CallsSound(r)'
  BY <1>1, <1>4 DEF CallsSound, Callers, IsIdle
<1>7. StartSound(r)'
  BY <1>1, <1>2, <1>3, <1>4 DEF StartSound, Callers, IsIdle
<1>8. OutputSound(r)'
  BY <1>2, <1>3 DEF RunSound, OutputSound
<1>9. ExitSound(r)' /\ EndSound(r)'
  BY <1>1, <1>2, <1>3, <1>4 DEF ExitSound, EndSound, Waits, IsIdle, Callers
<1>10. HeldSound(r)'
  BY <1>3, BenchmarkAssumption DEF HeldSound
<1>11. Others(r)
  BY <1>1, <1>2, <1>3 DEF Others, Same, BenchTypeOK
<1>12. RunKept(r)
  BY <1>3 DEF RunKept, BenchTypeOK
<1> QED
  BY <1>5, <1>6, <1>7, <1>8, <1>9, <1>10, <1>11, <1>12 DEF Kept, RunSound

LEMMA CreatedKept ==
  ASSUME BInv, NEW r \in Runs, Created(r) PROVE Kept(r)
<1> USE DEF BInv
<1>0. "start" \in CallTasks /\ "start" \in Callers /\ "preflight" \in Statuses
  BY DEF CallTasks, Callers, Statuses, OpenStatuses
<1>1. /\ call' \in [Runs -> [Callers -> CallTasks \cup {"idle"}]]
      /\ call'[r]["start"] = "start"
      /\ \A d \in Callers \ {"start"} : call'[r][d] = call[r][d]
      /\ \A q \in Runs \ {r} : call'[q] = call[q]
  BY <1>0, CallUpdate DEF Created
<1>2. /\ status' \in [Runs -> Statuses] /\ revived' \subseteq Runs
      /\ status'[r] = "preflight"
      /\ r \in revived' <=> r \in revived \/ status[r] \in Terminal
      /\ \A q \in Runs \ {r} : status'[q] = status[q] /\ (q \in revived' <=> q \in revived)
  BY <1>0, StatusUpdate DEF Created, OpenStatuses
<1>3. /\ call[r]["start"] = "create" /\ active' = r
      /\ UNCHANGED <<key, worker, workers, pipe, tasks, terminalEvent, failed, unsaved, restarts>>
  BY DEF Created
<1>4. /\ worker[r] = "none" /\ status[r] \notin {"none", "completed", "failed"}
      /\ IsIdle(r, "queue") /\ IsIdle(r, "exit")
      /\ pipe[r] = <<>> /\ tasks[r] = <<>> /\ r \notin terminalEvent /\ r \notin failed
  BY <1>0, <1>3 DEF RunSound, StartSound, IsIdle
<1>5. BenchTypeOK'
  BY <1>1, <1>2, <1>3, SavedType DEF BenchTypeOK, Created
<1>6. CallsSound(r)'
  BY <1>1, <1>3, <1>4 DEF RunSound, CallsSound, Callers, IsIdle
<1>7. StartSound(r)'
  BY <1>1, <1>2, <1>3, <1>4 DEF StartSound, Callers, IsIdle
<1>8. OutputSound(r)'
  BY <1>2, <1>3, <1>4 DEF RunSound, OutputSound
<1>9. ExitSound(r)' /\ EndSound(r)'
  BY <1>1, <1>2, <1>3, <1>4 DEF ExitSound, EndSound, Waits, IsIdle, Callers
<1>10. HeldSound(r)'
  BY <1>1, <1>2 DEF HeldSound, IsIdle
<1>11. Others(r)
  BY <1>1, <1>2, <1>3 DEF Others, Same
<1>12. RunKept(r)
  BY <1>2, <1>3, <1>4 DEF RunKept, Open, BenchTypeOK, Statuses, Terminal, OpenStatuses
<1> QED
  BY <1>5, <1>6, <1>7, <1>8, <1>9, <1>10, <1>11, <1>12 DEF Kept, RunSound

LEMMA StartWorkerKept ==
  ASSUME BInv, NEW r \in Runs, StartWorker(r) PROVE Kept(r)
<1> USE DEF BInv
<1>0. "idle" \in CallTasks \cup {"idle"} /\ "start" \in Callers
  BY DEF CallTasks, Callers
<1>1. /\ call' \in [Runs -> [Callers -> CallTasks \cup {"idle"}]]
      /\ call'[r]["start"] = "idle"
      /\ \A d \in Callers \ {"start"} : call'[r][d] = call[r][d]
      /\ \A q \in Runs \ {r} : call'[q] = call[q]
  BY <1>0, CallUpdate DEF StartWorker, Returns, Awaits
<1>2. PICK w \in {"working", "unborn"} : worker' = [worker EXCEPT ![r] = w]
  BY DEF StartWorker
<1>3. /\ call[r]["start"] = "start" /\ workers' = workers \cup {r}
      /\ UNCHANGED <<status, key, active, pipe, tasks, terminalEvent, failed, unsaved, revived, restarts>>
  BY DEF StartWorker
<1>4. /\ worker[r] = "none" /\ status[r] \notin {"none", "completed", "failed"}
      /\ IsIdle(r, "queue") /\ IsIdle(r, "exit")
      /\ pipe[r] = <<>> /\ tasks[r] = <<>> /\ r \notin terminalEvent /\ r \notin failed
  BY <1>0, <1>3 DEF RunSound, StartSound, IsIdle
<1>5. worker' \in [Runs -> {"none", "unborn", "working", "ending", "exited"}]
      /\ worker'[r] = w /\ \A q \in Runs \ {r} : worker'[q] = worker[q]
  BY <1>2 DEF BenchTypeOK
<1>6. BenchTypeOK'
  BY <1>1, <1>3, <1>5, SavedType DEF BenchTypeOK, StartWorker
<1>7. CallsSound(r)'
  BY <1>1, <1>3, <1>4 DEF RunSound, CallsSound, Callers, IsIdle
<1>8. StartSound(r)'
  BY <1>1, <1>3, <1>4, <1>5 DEF StartSound, Callers, IsIdle
<1>9. OutputSound(r)'
  <2>1. call'[r]["queue"] = "idle"
    BY <1>1, <1>4 DEF Callers, IsIdle
  <2>2. /\ Ordered(tasks'[r]) /\ Ordered(pipe'[r])
        /\ \A x : ~Waits(tasks'[r], x) /\ ~Waits(pipe'[r], x)
    BY <1>3, <1>4, NothingWaits
  <2> QED
    BY <1>3, <1>4, <2>1, <2>2 DEF OutputSound
<1>10. ExitSound(r)' /\ EndSound(r)'
  BY <1>1, <1>3, <1>4, <1>5 DEF ExitSound, EndSound, Waits, IsIdle, Callers
<1>11. HeldSound(r)'
  BY <1>1, <1>3, <1>5 DEF HeldSound, Alive, IsIdle, Callers, Unreleased
<1>12. Others(r)
  BY <1>1, <1>3, <1>5 DEF Others, Same
<1>13. RunKept(r)
  BY <1>3 DEF RunKept, Open
<1> QED
  BY <1>6, <1>7, <1>8, <1>9, <1>10, <1>11, <1>12, <1>13 DEF Kept, RunSound

LEMMA CancelKept ==
  ASSUME BInv, NEW r \in Runs, Cancel(r) PROVE Kept(r)
<1> USE DEF BInv
<1>0. "cancel" \in CallTasks /\ "cancel" \in Callers /\ "cancelled" \in Statuses
  BY DEF CallTasks, Callers, Statuses, Terminal
<1>1. /\ call' \in [Runs -> [Callers -> CallTasks \cup {"idle"}]]
      /\ call'[r]["cancel"] = "cancel"
      /\ \A d \in Callers \ {"cancel"} : call'[r][d] = call[r][d]
      /\ \A q \in Runs \ {r} : call'[q] = call[q]
  BY <1>0, CallUpdate DEF Cancel
<1>2. /\ status' \in [Runs -> Statuses] /\ revived' \subseteq Runs
      /\ status'[r] = "cancelled"
      /\ r \in revived' <=> r \in revived
      /\ \A q \in Runs \ {r} : status'[q] = status[q] /\ (q \in revived' <=> q \in revived)
  BY <1>0, StatusUpdate DEF Cancel, OpenStatuses
<1>3. /\ Open(r) /\ IsIdle(r, "cancel")
      /\ UNCHANGED <<key, file, active, workers, pipe, tasks, terminalEvent, failed, unsaved, restarts>>
  BY DEF Cancel
<1>4. /\ worker' \in [Runs -> {"none", "unborn", "working", "ending", "exited"}]
      /\ \A q \in Runs \ {r} : worker'[q] = worker[q]
      /\ worker'[r] = worker[r] \/ (worker[r] = "working" /\ worker'[r] = "ending")
  BY DEF Cancel, Kill, BenchTypeOK
<1>5. BenchTypeOK'
  BY <1>1, <1>2, <1>3, <1>4 DEF BenchTypeOK
<1>6. CallsSound(r)'
  BY <1>1, <1>3 DEF RunSound, CallsSound, Callers
<1>7. StartSound(r)'
  BY <1>1, <1>2, <1>3, <1>4 DEF RunSound, StartSound, Callers, IsIdle
<1>8. OutputSound(r)'
  BY <1>1, <1>2, <1>3, <1>4 DEF RunSound, OutputSound, Callers, IsIdle, Open, OpenStatuses
<1>9. ExitSound(r)'
  BY <1>1, <1>2, <1>3, <1>4 DEF RunSound, ExitSound, IsIdle, Callers
<1>10. EndSound(r)' /\ RunKept(r)
  BY <1>2, <1>3 DEF EndSound, RunKept, Open, OpenStatuses
<1>11. HeldSound(r)'
  BY <1>1 DEF HeldSound, IsIdle
<1>12. Others(r)
  BY <1>1, <1>2, <1>3, <1>4 DEF Others, Same
<1> QED
  BY <1>5, <1>6, <1>7, <1>8, <1>9, <1>10, <1>11, <1>12 DEF Kept, RunSound

LEMMA CancelledKept ==
  ASSUME BInv, NEW r \in Runs, Cancelled(r) PROVE Kept(r)
<1> USE DEF BInv
<1>0. "idle" \in CallTasks \cup {"idle"} /\ "cancel" \in Callers
  BY DEF CallTasks, Callers
<1>1. /\ call' \in [Runs -> [Callers -> CallTasks \cup {"idle"}]]
      /\ call'[r]["cancel"] = "idle"
      /\ \A d \in Callers \ {"cancel"} : call'[r][d] = call[r][d]
      /\ \A q \in Runs \ {r} : call'[q] = call[q]
  BY <1>0, CallUpdate DEF Cancelled, Returns, Awaits
<1>2. /\ workers' = workers \ {r} /\ active' = IF active = r THEN NoRun ELSE active
      /\ UNCHANGED <<status, key, worker, pipe, tasks, terminalEvent, failed, unsaved, revived, restarts>>
  BY DEF Cancelled, Release
<1>3. BenchTypeOK'
  BY <1>1, <1>2, SavedType DEF BenchTypeOK, Cancelled
<1>4. CallsSound(r)' /\ StartSound(r)'
  BY <1>1, <1>2 DEF RunSound, CallsSound, StartSound, Callers, IsIdle
<1>5. OutputSound(r)'
  BY <1>1, <1>2 DEF RunSound, OutputSound, Callers
<1>6. ExitSound(r)' /\ EndSound(r)'
  BY <1>1, <1>2 DEF RunSound, ExitSound, EndSound, IsIdle, Callers, Open
<1>7. HeldSound(r)'
  BY <1>2, BenchmarkAssumption DEF HeldSound
<1>8. Others(r)
  BY <1>1, <1>2, BenchmarkAssumption DEF Others, Same
<1>9. RunKept(r)
  BY <1>2 DEF RunKept, Open
<1> QED
  BY <1>3, <1>4, <1>5, <1>6, <1>7, <1>8, <1>9 DEF Kept, RunSound

-----------------------------------------------------------------------------
(* The worker *)

LEMMA WriteKept ==
  ASSUME BInv, NEW r \in Runs, NEW line \in Lines, Write(r, line) PROVE Kept(r)
<1> USE DEF BInv
<1>1. /\ worker[r] = "working" /\ pipe' = [pipe EXCEPT ![r] = Append(@, line)]
      /\ UNCHANGED <<status, key, file, active, call, workers, tasks, terminalEvent, failed, unsaved, revived, restarts>>
  BY DEF Write
<1>2. /\ worker' \in [Runs -> {"none", "unborn", "working", "ending", "exited"}]
      /\ \A q \in Runs \ {r} : worker'[q] = worker[q]
      /\ worker'[r] = IF line \in {"completed", "failed"} THEN "ending" ELSE "working"
  BY DEF Write, BenchTypeOK
<1>3. /\ pipe[r] \in Seq(Lines) /\ pipe'[r] = Append(pipe[r], line)
      /\ Append(pipe[r], line) \in Seq(Lines)
      /\ pipe' \in [Runs -> Seq(Lines)] /\ \A q \in Runs \ {r} : pipe'[q] = pipe[q]
  BY <1>1, WaitsAppend DEF BenchTypeOK
<1>4. \A x : Waits(pipe'[r], x) <=> Waits(pipe[r], x) \/ x = line
  BY <1>3, WaitsAppend
<1>5. /\ status[r] # "completed" /\ status[r] # "none" /\ IsIdle(r, "start")
      /\ ~Waits(pipe[r], "completed") /\ ~Waits(pipe[r], "failed")
      /\ ~Waits(tasks[r], "completed") /\ IsIdle(r, "exit")
  BY <1>1, <1>2 DEF RunSound, OutputSound, StartSound, ExitSound, Tasks, EventTasks, Alive, Callers, IsIdle
<1>6. Ordered(pipe'[r])
  BY <1>3, <1>5, OrderedAppend DEF RunSound, OutputSound
<1>7. BenchTypeOK'
  BY <1>1, <1>2, <1>3 DEF BenchTypeOK
<1>8. CallsSound(r)'
  BY <1>1 DEF RunSound, CallsSound
<1>9. StartSound(r)'
  BY <1>1, <1>2, <1>5 DEF StartSound, IsIdle
<1>10. OutputSound(r)'
  BY <1>1, <1>2, <1>4, <1>5, <1>6 DEF RunSound, OutputSound
<1>11. ExitSound(r)'
  BY <1>1, <1>2 DEF RunSound, ExitSound, IsIdle
<1>12. EndSound(r)' /\ RunKept(r)
  BY <1>1, <1>2 DEF RunSound, EndSound, Open, RunKept, IsIdle
<1>13. HeldSound(r)'
  BY <1>1, <1>2 DEF HeldSound, Alive, IsIdle, Unreleased
<1>14. Others(r)
  BY <1>1, <1>2, <1>3 DEF Others, Same
<1> QED
  BY <1>7, <1>8, <1>9, <1>10, <1>11, <1>12, <1>13, <1>14 DEF Kept, RunSound

(* A task joins the queue of a run whose worker is alive or told to end. *)
LEMMA TaskJoins ==
  ASSUME BenchTypeOK, NEW r \in Runs, NEW t \in Tasks,
         tasks' = [tasks EXCEPT ![r] = Append(@, t)]
  PROVE  /\ tasks' \in [Runs -> Seq(Tasks)] /\ tasks'[r] = Append(tasks[r], t)
         /\ \A q \in Runs \ {r} : tasks'[q] = tasks[q]
         /\ \A x : Waits(tasks'[r], x) <=> Waits(tasks[r], x) \/ x = t
         /\ Ordered(tasks[r]) /\ (t = "progress" => ~Waits(tasks[r], "completed"))
              => Ordered(tasks'[r])
<1>1. /\ tasks[r] \in Seq(Tasks) /\ tasks'[r] = Append(tasks[r], t)
      /\ \A q \in Runs \ {r} : tasks'[q] = tasks[q]
  BY DEF BenchTypeOK
<1>2. tasks' \in [Runs -> Seq(Tasks)]
  BY <1>1, WaitsAppend DEF BenchTypeOK
<1> QED
  BY <1>1, <1>2, WaitsAppend, OrderedAppend

LEMMA ExitKept ==
  ASSUME BInv, NEW r \in Runs, Exit(r) PROVE Kept(r)
<1> USE DEF BInv
<1> DEFINE t == IF r \in terminalEvent THEN "exitAfterEnd" ELSE "exit"
<1>1. /\ worker[r] \in {"working", "ending"} /\ worker' = [worker EXCEPT ![r] = "exited"]
      /\ tasks' = [tasks EXCEPT ![r] = Append(@, t)]
      /\ UNCHANGED <<status, key, file, active, call, workers, pipe, terminalEvent, failed, unsaved, revived, restarts>>
  BY DEF Exit
<1>2. t \in Tasks /\ t \in ExitTasks /\ t \notin {"progress", "completed", "error", "failed"}
  BY DEF Tasks, ExitTasks
<1>3. (t = "exit" <=> r \notin terminalEvent) /\ t \in {"exit", "exitAfterEnd"}
  OBVIOUS
<1> HIDE DEF t
<1>4. /\ tasks' \in [Runs -> Seq(Tasks)] /\ tasks'[r] = Append(tasks[r], t)
      /\ \A q \in Runs \ {r} : tasks'[q] = tasks[q]
      /\ \A x : Waits(tasks'[r], x) <=> Waits(tasks[r], x) \/ x = t
      /\ Ordered(tasks'[r])
  BY <1>1, <1>2, TaskJoins DEF RunSound, OutputSound
<1>5. /\ worker' \in [Runs -> {"none", "unborn", "working", "ending", "exited"}]
      /\ worker'[r] = "exited" /\ \A q \in Runs \ {r} : worker'[q] = worker[q]
  BY <1>1 DEF BenchTypeOK
<1>6. /\ status[r] # "none" /\ IsIdle(r, "start")
      /\ ~Waits(tasks[r], "error") /\ call[r]["queue"] # "error"
  BY <1>1 DEF RunSound, StartSound, ExitSound, Alive, Callers, IsIdle
<1>7. BenchTypeOK'
  BY <1>1, <1>4, <1>5 DEF BenchTypeOK
<1>8. CallsSound(r)' /\ StartSound(r)'
  BY <1>1, <1>5, <1>6 DEF RunSound, CallsSound, StartSound, IsIdle
<1>9. OutputSound(r)'
  BY <1>1, <1>2, <1>4, <1>5 DEF RunSound, OutputSound
<1>10. ExitSound(r)'
  BY <1>1, <1>2, <1>4, <1>5, <1>6 DEF ExitSound
<1>11. EndSound(r)' /\ RunKept(r)
  BY <1>1, <1>2, <1>3, <1>4, <1>5 DEF RunSound, EndSound, Open, RunKept, IsIdle
<1>12. HeldSound(r)'
  BY <1>1, <1>2, <1>4 DEF HeldSound, IsIdle, Unreleased
<1>13. Others(r)
  BY <1>1, <1>4, <1>5 DEF Others, Same
<1> QED
  BY <1>7, <1>8, <1>9, <1>10, <1>11, <1>12, <1>13 DEF Kept, RunSound

LEMMA TimeoutKept ==
  ASSUME BInv, NEW r \in Runs, Timeout(r) PROVE Kept(r)
<1> USE DEF BInv
<1>1. /\ worker[r] = "working" /\ worker' = [worker EXCEPT ![r] = "ending"]
      /\ failed' = failed \cup {r}
      /\ tasks' = [tasks EXCEPT ![r] = Append(@, "protocol")]
      /\ UNCHANGED <<status, key, file, active, call, workers, pipe, terminalEvent, unsaved, revived, restarts>>
  BY DEF Timeout, Kill
<1>2. "protocol" \in Tasks
  BY DEF Tasks, ErrorTasks
<1>3. /\ tasks' \in [Runs -> Seq(Tasks)] /\ tasks'[r] = Append(tasks[r], "protocol")
      /\ \A q \in Runs \ {r} : tasks'[q] = tasks[q]
      /\ \A x : Waits(tasks'[r], x) <=> Waits(tasks[r], x) \/ x = "protocol"
      /\ Ordered(tasks'[r])
  BY <1>1, <1>2, TaskJoins DEF RunSound, OutputSound
<1>4. /\ worker' \in [Runs -> {"none", "unborn", "working", "ending", "exited"}]
      /\ worker'[r] = "ending" /\ \A q \in Runs \ {r} : worker'[q] = worker[q]
  BY <1>1 DEF BenchTypeOK
<1>5. /\ status[r] # "none" /\ IsIdle(r, "start") /\ IsIdle(r, "exit")
      /\ ~Waits(tasks[r], "error") /\ call[r]["queue"] # "error"
      /\ ~Waits(tasks[r], "exit") /\ ~Waits(tasks[r], "exitAfterEnd")
  BY <1>1 DEF RunSound, StartSound, ExitSound, Alive, Callers, IsIdle
<1>6. BenchTypeOK'
  BY <1>1, <1>3, <1>4 DEF BenchTypeOK
<1>7. CallsSound(r)' /\ StartSound(r)'
  BY <1>1, <1>4, <1>5 DEF RunSound, CallsSound, StartSound, IsIdle
<1>8. OutputSound(r)'
  BY <1>1, <1>3, <1>4 DEF RunSound, OutputSound
<1>9. ExitSound(r)'
  BY <1>1, <1>3, <1>4, <1>5 DEF ExitSound, IsIdle
<1>10. EndSound(r)' /\ RunKept(r)
  BY <1>1, <1>3, <1>4 DEF RunSound, EndSound, Open, RunKept, IsIdle
<1>11. HeldSound(r)'
  BY <1>1, <1>4 DEF HeldSound, IsIdle, Alive, Unreleased
<1>12. Others(r)
  BY <1>1, <1>3, <1>4 DEF Others, Same
<1> QED
  BY <1>6, <1>7, <1>8, <1>9, <1>10, <1>11, <1>12 DEF Kept, RunSound

LEMMA SpawnErrorKept ==
  ASSUME BInv, NEW r \in Runs, SpawnError(r) PROVE Kept(r)
<1> USE DEF BInv
<1>1. /\ worker[r] = "unborn" /\ worker' = [worker EXCEPT ![r] = "exited"]
      /\ failed' = failed \cup {r}
      /\ tasks' = [tasks EXCEPT ![r] = Append(@, "error")]
      /\ UNCHANGED <<status, key, file, active, call, workers, pipe, terminalEvent, unsaved, revived, restarts>>
  BY DEF SpawnError
<1>2. "error" \in Tasks
  BY DEF Tasks, ErrorTasks
<1>3. /\ tasks' \in [Runs -> Seq(Tasks)] /\ tasks'[r] = Append(tasks[r], "error")
      /\ \A q \in Runs \ {r} : tasks'[q] = tasks[q]
      /\ \A x : Waits(tasks'[r], x) <=> Waits(tasks[r], x) \/ x = "error"
      /\ Ordered(tasks'[r])
  BY <1>1, <1>2, TaskJoins DEF RunSound, OutputSound
<1>4. /\ worker' \in [Runs -> {"none", "unborn", "working", "ending", "exited"}]
      /\ worker'[r] = "exited" /\ \A q \in Runs \ {r} : worker'[q] = worker[q]
  BY <1>1 DEF BenchTypeOK
<1>5. /\ status[r] \notin {"none", "completed", "failed"}
      /\ IsIdle(r, "start") /\ IsIdle(r, "exit") /\ IsIdle(r, "queue")
      /\ tasks[r] = <<>> /\ pipe[r] = <<>>
  BY <1>1 DEF RunSound, StartSound, ExitSound, Alive, Callers, IsIdle
<1>6. BenchTypeOK'
  BY <1>1, <1>3, <1>4 DEF BenchTypeOK
<1>7. CallsSound(r)' /\ StartSound(r)'
  BY <1>1, <1>4, <1>5 DEF RunSound, CallsSound, StartSound, IsIdle
<1>8. OutputSound(r)'
  BY <1>1, <1>3, <1>4, <1>5, NothingWaits DEF RunSound, OutputSound
<1>9. tasks'[r] = <<"error">>
  BY <1>3, <1>5
<1>10. ExitSound(r)'
  BY <1>1, <1>3, <1>4, <1>5, <1>9, NothingWaits DEF ExitSound, IsIdle
<1>11. EndSound(r)' /\ RunKept(r)
  BY <1>1, <1>3, <1>4 DEF RunSound, EndSound, Open, RunKept, IsIdle
<1>12. HeldSound(r)'
  BY <1>1, <1>3 DEF HeldSound, IsIdle, Unreleased
<1>13. Others(r)
  BY <1>1, <1>3, <1>4 DEF Others, Same
<1> QED
  BY <1>6, <1>7, <1>8, <1>10, <1>11, <1>12, <1>13 DEF Kept, RunSound

LEMMA ReadKept ==
  ASSUME BInv, NEW r \in Runs, Read(r) PROVE Kept(r)
<1> USE DEF BInv
<1> DEFINE line == Head(pipe[r])
           t == IF line = "bad" THEN "protocol" ELSE line
<1>1. /\ pipe[r] # <<>> /\ pipe' = [pipe EXCEPT ![r] = Tail(@)]
      /\ tasks' = [tasks EXCEPT ![r] = Append(@, t)]
      /\ terminalEvent' = IF line \in {"completed", "failed"} THEN terminalEvent \cup {r} ELSE terminalEvent
      /\ failed' = IF line = "bad" THEN failed \cup {r} ELSE failed
      /\ worker' = IF line = "bad" THEN Kill(r) ELSE worker
      /\ UNCHANGED <<status, key, file, active, call, workers, unsaved, revived, restarts>>
  BY DEF Read
<1>2. /\ pipe[r] \in Seq(Lines) /\ Tail(pipe[r]) \in Seq(Lines) /\ line \in Lines
      /\ \A x : Waits(pipe[r], x) <=> x = line \/ Waits(Tail(pipe[r]), x)
      /\ Ordered(Tail(pipe[r])) /\ (line = "completed" => ~Waits(Tail(pipe[r]), "progress"))
  BY <1>1, WaitsTail, OrderedTail DEF BenchTypeOK, RunSound, OutputSound
<1>3. /\ pipe' \in [Runs -> Seq(Lines)] /\ pipe'[r] = Tail(pipe[r])
      /\ \A q \in Runs \ {r} : pipe'[q] = pipe[q]
  BY <1>1, <1>2 DEF BenchTypeOK
<1>4. t \in Tasks /\ t \in {"progress", "completed", "failed", "protocol"}
  BY <1>2 DEF Tasks, ErrorTasks, EventTasks, Lines
<1>5. /\ line = "bad" <=> t = "protocol"
      /\ line = "progress" <=> t = "progress"
      /\ line = "completed" <=> t = "completed"
      /\ line = "failed" <=> t = "failed"
  BY <1>2 DEF Lines
<1> HIDE DEF t, line
<1>6. t = "progress" => ~Waits(tasks[r], "completed") /\ status[r] # "completed"
  BY <1>2, <1>5 DEF RunSound, OutputSound
<1>7. /\ tasks' \in [Runs -> Seq(Tasks)] /\ tasks'[r] = Append(tasks[r], t)
      /\ \A q \in Runs \ {r} : tasks'[q] = tasks[q]
      /\ \A x : Waits(tasks'[r], x) <=> Waits(tasks[r], x) \/ x = t
      /\ Ordered(tasks'[r])
  BY <1>1, <1>4, <1>6, TaskJoins DEF RunSound, OutputSound
<1>8. /\ worker' \in [Runs -> {"none", "unborn", "working", "ending", "exited"}]
      /\ \A q \in Runs \ {r} : worker'[q] = worker[q]
      /\ worker'[r] = IF t = "protocol" /\ worker[r] = "working" THEN "ending" ELSE worker[r]
  BY <1>1, <1>5 DEF BenchTypeOK, Kill
<1>9. /\ r \in terminalEvent' <=> r \in terminalEvent \/ t \in {"completed", "failed"}
      /\ r \in failed' <=> r \in failed \/ t = "protocol"
      /\ terminalEvent' \subseteq Runs /\ failed' \subseteq Runs
      /\ \A q \in Runs \ {r} : (q \in terminalEvent' <=> q \in terminalEvent)
                                /\ (q \in failed' <=> q \in failed)
  BY <1>1, <1>5 DEF BenchTypeOK
<1>10. /\ status[r] # "none" /\ worker[r] \notin {"none", "unborn"} /\ IsIdle(r, "start")
       /\ ~Waits(tasks[r], "error") /\ call[r]["queue"] # "error"
  BY <1>1 DEF RunSound, StartSound, ExitSound, IsIdle
<1>11. worker[r] = "working" => line \in {"progress", "bad"}
  BY <1>2 DEF RunSound, OutputSound, Lines
<1>12. BenchTypeOK'
  BY <1>1, <1>3, <1>7, <1>8, <1>9 DEF BenchTypeOK
<1>13. CallsSound(r)' /\ StartSound(r)'
  BY <1>1, <1>8, <1>10 DEF RunSound, CallsSound, StartSound, IsIdle
<1>14. OutputSound(r)'
  BY <1>1, <1>2, <1>3, <1>5, <1>6, <1>7, <1>8, <1>11 DEF RunSound, OutputSound
<1>15. ExitSound(r)'
  BY <1>1, <1>4, <1>7, <1>8, <1>10 DEF RunSound, ExitSound, IsIdle
<1>16. EndSound(r)' /\ RunKept(r)
  BY <1>1, <1>7, <1>8, <1>9 DEF RunSound, EndSound, Open, RunKept, IsIdle
<1>17. HeldSound(r)'
  BY <1>1, <1>7, <1>8 DEF HeldSound, IsIdle, Unreleased, Alive
<1>18. Others(r)
  BY <1>1, <1>3, <1>7, <1>8, <1>9 DEF Others, Same
<1> QED
  BY <1>12, <1>13, <1>14, <1>15, <1>16, <1>17, <1>18 DEF Kept, RunSound

-----------------------------------------------------------------------------
(* The tasks of the eventQueue *)

(* The first task is taken. *)
LEMMA TaskTaken ==
  ASSUME BenchTypeOK, NEW r \in Runs, tasks[r] # <<>>, TakeTask(r)
  PROVE  /\ tasks' \in [Runs -> Seq(Tasks)] /\ tasks'[r] = Tail(tasks[r])
         /\ Head(tasks[r]) \in Tasks
         /\ \A q \in Runs \ {r} : tasks'[q] = tasks[q]
         /\ \A x : Waits(tasks[r], x) <=> x = Head(tasks[r]) \/ Waits(tasks'[r], x)
         /\ Ordered(tasks[r]) =>
              Ordered(tasks'[r]) /\ (Head(tasks[r]) = "completed" => ~Waits(tasks'[r], "progress"))
<1>1. tasks[r] \in Seq(Tasks) /\ tasks' = [tasks EXCEPT ![r] = Tail(@)]
  BY DEF BenchTypeOK, TakeTask
<1>2. /\ Tail(tasks[r]) \in Seq(Tasks) /\ Head(tasks[r]) \in Tasks
      /\ \A x : Waits(tasks[r], x) <=> x = Head(tasks[r]) \/ Waits(Tail(tasks[r]), x)
      /\ Ordered(tasks[r]) => Ordered(Tail(tasks[r]))
              /\ (Head(tasks[r]) = "completed" => ~Waits(Tail(tasks[r]), "progress"))
  BY <1>1, WaitsTail, OrderedTail
<1>3. tasks'[r] = Tail(tasks[r]) /\ \A q \in Runs \ {r} : tasks'[q] = tasks[q]
  BY <1>1 DEF BenchTypeOK
<1>4. tasks' \in [Runs -> Seq(Tasks)]
  BY <1>1, <1>2 DEF BenchTypeOK
<1> QED
  BY <1>2, <1>3, <1>4

LEMMA HandleEventKept ==
  ASSUME BInv, NEW r \in Runs, HandleEvent(r) PROVE Kept(r)
<1> USE DEF BInv
<1> DEFINE e == Head(tasks[r])
           s == IF e = "progress" THEN "running" ELSE "completed"
<1>1. /\ IsIdle(r, "queue") /\ tasks[r] # <<>> /\ e \in {"progress", "completed"}
      /\ SetStatus(r, s) /\ Awaits(r, "queue", e) /\ TakeTask(r)
      /\ UNCHANGED <<key, file, active, worker, workers, pipe, terminalEvent, failed, unsaved, restarts>>
  BY DEF HandleEvent
<1>2. e \in CallTasks \cup {"idle"} /\ "queue" \in Callers /\ s \in Statuses /\ e \in EventTasks
  BY <1>1 DEF CallTasks, Tasks, EventTasks, Callers, Statuses, OpenStatuses, Terminal
<1>3. /\ s \in {"running", "completed"} /\ (e = "progress" <=> s = "running")
      /\ (e = "completed" <=> s = "completed")
  BY <1>1
<1>4. /\ tasks' \in [Runs -> Seq(Tasks)] /\ tasks'[r] = Tail(tasks[r])
      /\ \A q \in Runs \ {r} : tasks'[q] = tasks[q]
      /\ \A x : Waits(tasks[r], x) <=> x = e \/ Waits(tasks'[r], x)
      /\ Ordered(tasks'[r]) /\ (e = "completed" => ~Waits(tasks'[r], "progress"))
  BY <1>1, TaskTaken DEF RunSound, OutputSound
<1> HIDE DEF e, s
<1>5. /\ call' \in [Runs -> [Callers -> CallTasks \cup {"idle"}]]
      /\ call'[r]["queue"] = e
      /\ \A d \in Callers \ {"queue"} : call'[r][d] = call[r][d]
      /\ \A q \in Runs \ {r} : call'[q] = call[q]
  BY <1>1, <1>2, CallUpdate
<1>6. /\ status' \in [Runs -> Statuses] /\ revived' \subseteq Runs
      /\ status'[r] = s
      /\ r \in revived' <=> r \in revived \/ (status[r] \in Terminal /\ s \in OpenStatuses)
      /\ \A q \in Runs \ {r} : status'[q] = status[q] /\ (q \in revived' <=> q \in revived)
  BY <1>1, <1>2, StatusUpdate
<1>7. /\ status[r] # "none" /\ worker[r] \notin {"none", "unborn"} /\ IsIdle(r, "start")
      /\ ~Waits(tasks[r], "error")
  <2>1. status[r] # "none" /\ worker[r] \notin {"none", "unborn"} /\ IsIdle(r, "start")
    BY <1>1 DEF RunSound, StartSound
  <2>2. ASSUME Waits(tasks[r], "error") PROVE FALSE
    <3>1. tasks[r] = <<"error">>
      BY <2>2 DEF RunSound, ExitSound
    <3>2. e = "error"
      BY <3>1 DEF e
    <3> QED
      BY <3>2, <1>1
  <2> QED
    BY <2>1, <2>2
<1>8. /\ e = "completed" => worker[r] # "working" /\ ~Waits(pipe[r], "progress")
      /\ e = "progress" => status[r] # "completed"
  BY <1>4, <1>2 DEF RunSound, OutputSound, Tasks, EventTasks
<1>9. BenchTypeOK'
  BY <1>1, <1>4, <1>5, <1>6 DEF BenchTypeOK
<1>10. CallsSound(r)' /\ StartSound(r)'
  BY <1>1, <1>2, <1>3, <1>5, <1>6, <1>7 DEF RunSound, CallsSound, StartSound, IsIdle, Callers, EventTasks
<1>11. OutputSound(r)'
  BY <1>1, <1>3, <1>4, <1>5, <1>6, <1>8 DEF RunSound, OutputSound
<1>12. ExitSound(r)'
  BY <1>1, <1>4, <1>5, <1>7 DEF RunSound, ExitSound, IsIdle, Callers
<1>13. EndSound(r)' /\ RunKept(r)
  <2>1. CASE s = "completed"
    BY <1>6, <2>1 DEF EndSound, RunKept, Open, OpenStatuses
  <2>2. CASE s = "running" /\ status[r] \in Terminal
    BY <1>3, <1>6, <1>8, <2>2 DEF EndSound, RunKept, OpenStatuses
  <2>3. CASE s = "running" /\ Open(r)
    BY <1>1, <1>3, <1>4, <1>5, <1>6, <1>7, <1>8, <2>3 DEF RunSound, EndSound, RunKept, IsIdle, Callers
  <2> QED
    BY <1>3, <1>7, <2>1, <2>2, <2>3 DEF BenchTypeOK, Statuses, Open
<1>14. HeldSound(r)'
  BY <1>1, <1>3, <1>4, <1>5, <1>6 DEF HeldSound, IsIdle, Unreleased, Callers, ExitTasks
<1>15. Others(r)
  BY <1>1, <1>4, <1>5, <1>6 DEF Others, Same
<1> QED
  BY <1>9, <1>10, <1>11, <1>12, <1>13, <1>14, <1>15 DEF Kept, RunSound

(* The error of a worker that was never born is the only task it leaves. *)
LEMMA ErrorIsAlone ==
  ASSUME BInv, NEW r \in Runs, tasks[r] # <<>>, TakeTask(r)
  PROVE  /\ ~Waits(tasks'[r], "error")
         /\ Head(tasks[r]) = "error" => tasks'[r] = <<>>
<1> USE DEF BInv
<1>1. /\ \A x : Waits(tasks[r], x) <=> x = Head(tasks[r]) \/ Waits(tasks'[r], x)
      /\ tasks'[r] = Tail(tasks[r])
  BY TaskTaken
<1>2. Waits(tasks[r], "error") => tasks[r] = <<"error">>
  BY DEF RunSound, ExitSound
<1>3. Tail(<<"error">>) = <<>>
  OBVIOUS
<1>4. Waits(tasks[r], "error") => tasks'[r] = <<>>
  BY <1>1, <1>2, <1>3
<1> QED
  BY <1>1, <1>4, NothingWaits

(* A run that has tasks has been started, and its worker was born. *)
LEMMA TasksAreLate ==
  ASSUME BInv, NEW r \in Runs, tasks[r] # <<>>
  PROVE  status[r] # "none" /\ worker[r] \notin {"none", "unborn"} /\ IsIdle(r, "start")
BY DEF BInv, RunSound, StartSound

LEMMA HandleFailureKept ==
  ASSUME BInv, NEW r \in Runs, HandleFailure(r) PROVE Kept(r)
<1> USE DEF BInv
<1> DEFINE h == Head(tasks[r])
           c == IF ExitMustFail(r) THEN "exit" ELSE "queue"
<1>1. /\ IsIdle(r, "queue") /\ tasks[r] # <<>> /\ Open(r)
      /\ SetStatus(r, "failed") /\ Awaits(r, c, h) /\ TakeTask(r)
      /\ UNCHANGED <<key, file, active, worker, workers, pipe, terminalEvent, failed, unsaved, restarts>>
  BY DEF HandleFailure, FailRun, MayFailRun
<1>2. \/ c = "queue" /\ h \in {"protocol", "error", "failed"}
      \/ c = "exit" /\ h = "exit"
  BY DEF HandleFailure, ExitMustFail, ErrorTasks
<1>3. /\ tasks' \in [Runs -> Seq(Tasks)] /\ h \in Tasks
      /\ \A q \in Runs \ {r} : tasks'[q] = tasks[q]
      /\ \A x : Waits(tasks[r], x) <=> x = h \/ Waits(tasks'[r], x)
      /\ Ordered(tasks'[r])
      /\ ~Waits(tasks'[r], "error") /\ (h = "error" => tasks'[r] = <<>>)
  BY <1>1, TaskTaken, ErrorIsAlone DEF RunSound, OutputSound
<1>4. status[r] # "none" /\ worker[r] \notin {"none", "unborn"} /\ IsIdle(r, "start")
  BY <1>1, TasksAreLate
<1> HIDE DEF h, c
<1>5. c \in Callers /\ h \in CallTasks /\ "failed" \in Statuses
  BY <1>2, <1>3 DEF Callers, CallTasks, Statuses, Terminal
<1>6. /\ call' \in [Runs -> [Callers -> CallTasks \cup {"idle"}]]
      /\ call'[r][c] = h
      /\ \A d \in Callers \ {c} : call'[r][d] = call[r][d]
      /\ \A q \in Runs \ {r} : call'[q] = call[q]
  BY <1>1, <1>5, CallUpdate
<1>7. /\ status' \in [Runs -> Statuses] /\ revived' \subseteq Runs /\ status'[r] = "failed"
      /\ \A q \in Runs \ {r} : status'[q] = status[q] /\ (q \in revived' <=> q \in revived)
  BY <1>1, <1>5, StatusUpdate
<1>8. /\ worker[r] # "working" /\ (h = "exit" => worker[r] = "exited")
      /\ h = "error" => pipe[r] = <<>> /\ worker[r] = "exited"
  BY <1>2, <1>3 DEF RunSound, OutputSound, ExitSound
<1>9. BenchTypeOK'
  BY <1>1, <1>3, <1>6, <1>7 DEF BenchTypeOK
<1>10. CallsSound(r)' /\ StartSound(r)'
  BY <1>1, <1>2, <1>4, <1>6, <1>7 DEF RunSound, CallsSound, StartSound, IsIdle, Callers, EventTasks, ErrorTasks
<1>11. OutputSound(r)'
  BY <1>1, <1>3, <1>7, <1>8 DEF RunSound, OutputSound
<1>12. ExitSound(r)'
  BY <1>1, <1>2, <1>3, <1>6, <1>8 DEF RunSound, ExitSound, IsIdle, Callers
<1>13. EndSound(r)' /\ RunKept(r)
  BY <1>1, <1>7 DEF EndSound, RunKept, Open, OpenStatuses
<1>14. HeldSound(r)'
  BY <1>1, <1>2, <1>3, <1>6, <1>7 DEF HeldSound, IsIdle, Unreleased, Callers, ExitTasks
<1>15. Others(r)
  BY <1>1, <1>3, <1>6, <1>7 DEF Others, Same
<1> QED
  BY <1>9, <1>10, <1>11, <1>12, <1>13, <1>14, <1>15 DEF Kept, RunSound

LEMMA HandleSettledKept ==
  ASSUME BInv, NEW r \in Runs, HandleSettled(r) PROVE Kept(r)
<1> USE DEF BInv
<1> DEFINE h == Head(tasks[r])
<1>1. /\ IsIdle(r, "queue") /\ tasks[r] # <<>> /\ TakeTask(r)
      /\ IF h = "failed" THEN Awaits(r, "queue", "append") ELSE UNCHANGED call
      /\ workers' = IF h \in ExitTasks THEN workers \ {r} ELSE workers
      /\ active' = IF h \in ExitTasks /\ active = r THEN NoRun ELSE active
      /\ UNCHANGED <<status, key, file, worker, pipe, terminalEvent, failed, unsaved, revived, restarts>>
  BY DEF HandleSettled, EndsRun, Release
<1>2. \/ h \in {"protocol", "error", "failed"} /\ ~Open(r)
      \/ h \in {"exit", "exitAfterEnd"} /\ (h = "exit" /\ Open(r) => r \in failed)
  BY DEF HandleSettled, ExitMustFail, MayFailRun, ErrorTasks, ExitTasks
<1>3. /\ tasks' \in [Runs -> Seq(Tasks)]
      /\ \A q \in Runs \ {r} : tasks'[q] = tasks[q]
      /\ \A x : Waits(tasks[r], x) <=> x = h \/ Waits(tasks'[r], x)
      /\ Ordered(tasks'[r]) /\ h \in Tasks
      /\ ~Waits(tasks'[r], "error")
  BY <1>1, TaskTaken, ErrorIsAlone DEF RunSound, OutputSound
<1>4. status[r] # "none" /\ worker[r] \notin {"none", "unborn"} /\ IsIdle(r, "start")
  BY <1>1, TasksAreLate
<1> HIDE DEF h
<1>5. "queue" \in Callers /\ "append" \in CallTasks
  BY DEF Callers, CallTasks
<1>6. /\ call' \in [Runs -> [Callers -> CallTasks \cup {"idle"}]]
      /\ call'[r]["queue"] \in {"idle", "append"}
      /\ \A d \in Callers \ {"queue"} : call'[r][d] = call[r][d]
      /\ \A q \in Runs \ {r} : call'[q] = call[q]
  <2>1. CASE h = "failed"
    BY <1>1, <1>5, <2>1, CallUpdate
  <2>2. CASE h # "failed"
    BY <1>1, <2>2 DEF BenchTypeOK, IsIdle
  <2> QED
    BY <2>1, <2>2
<1>7. worker[r] # "working"
  BY <1>2, <1>3 DEF RunSound, OutputSound
<1>8. BenchTypeOK'
  BY <1>1, <1>3, <1>6 DEF BenchTypeOK
<1>9. CallsSound(r)' /\ StartSound(r)'
  BY <1>1, <1>4, <1>6 DEF RunSound, CallsSound, StartSound, IsIdle, Callers
<1>10. OutputSound(r)'
  BY <1>1, <1>3, <1>7 DEF RunSound, OutputSound
<1>11. ExitSound(r)'
  BY <1>1, <1>3, <1>6 DEF RunSound, ExitSound, IsIdle, Callers
<1>12. EndSound(r)' /\ RunKept(r)
  BY <1>1, <1>2, <1>3, <1>4 DEF RunSound, EndSound, RunKept, Open
<1>13. HeldSound(r)'
  <2>1. CASE h \in ExitTasks
    BY <1>1, <2>1, BenchmarkAssumption DEF HeldSound
  <2>2. CASE h \in {"protocol", "failed"}
    BY <1>1, <1>3, <1>6, <2>2 DEF HeldSound, IsIdle, Unreleased, Callers, ExitTasks
  <2>3. CASE h = "error"
    <3>1. status[r] = "cancelled"
      BY <1>2, <1>3, <1>4, <2>3 DEF RunSound, ExitSound, Open, BenchTypeOK, Statuses, Terminal, ExitTasks
    <3> QED
      BY <1>1, <1>6, <2>3, <3>1 DEF HeldSound, IsIdle, Unreleased, Callers, ExitTasks
  <2> QED
    BY <1>2, <2>1, <2>2, <2>3 DEF ExitTasks
<1>14. Others(r)
  BY <1>1, <1>3, <1>6, BenchmarkAssumption DEF Others, Same
<1> QED
  BY <1>8, <1>9, <1>10, <1>11, <1>12, <1>13, <1>14 DEF Kept, RunSound

LEMMA TaskDoneKept ==
  ASSUME BInv, NEW r \in Runs, NEW c \in Callers, TaskDone(r, c) PROVE Kept(r)
<1> USE DEF BInv
<1> DEFINE t == call[r][c]
           n == IF t \in {"completed", "failed"} THEN "append" ELSE "idle"
<1>1. /\ c \in {"queue", "exit"} /\ t # "idle" /\ Awaits(r, c, n)
      /\ workers' = IF c = "exit" THEN workers \ {r} ELSE workers
      /\ active' = IF t \in {"progress", "append"} \/ active # r THEN active ELSE NoRun
      /\ UNCHANGED <<status, key, worker, pipe, tasks, terminalEvent, failed, unsaved, revived, restarts>>
  BY DEF TaskDone, IsIdle, Release, Returns, Awaits
<1>2. /\ c = "exit" => t = "exit" /\ worker[r] = "exited"
      /\ status[r] # "none" /\ worker[r] \notin {"none", "unborn"} /\ IsIdle(r, "start")
  <2>1. ~IsIdle(r, c) /\ c \in {"queue", "exit"}
    BY <1>1 DEF IsIdle
  <2>2. status[r] # "none" /\ worker[r] \notin {"none", "unborn"}
    BY <2>1 DEF RunSound, StartSound
  <2>3. IsIdle(r, "start")
    BY <2>2 DEF RunSound, StartSound
  <2>4. ASSUME c = "exit" PROVE t = "exit" /\ worker[r] = "exited"
    <3>1. ~IsIdle(r, "exit") /\ call[r]["exit"] # "idle"
      BY <1>1, <2>1, <2>4
    <3>2. worker[r] = "exited" /\ call[r]["exit"] = "exit"
      BY <3>1 DEF RunSound, CallsSound, ExitSound
    <3> QED
      BY <2>4, <3>2
  <2> QED
    BY <2>2, <2>3, <2>4
<1>3. n \in CallTasks \cup {"idle"} /\ n \in {"append", "idle"} /\ (n = "append" => t \in {"completed", "failed"})
  BY DEF CallTasks
<1> HIDE DEF n
<1>4. /\ call' \in [Runs -> [Callers -> CallTasks \cup {"idle"}]]
      /\ call'[r][c] = n
      /\ \A d \in Callers \ {c} : call'[r][d] = call[r][d]
      /\ \A q \in Runs \ {r} : call'[q] = call[q]
  BY <1>1, <1>3, CallUpdate
<1>5. n = "append" => c = "queue" /\ worker[r] # "working"
  BY <1>1, <1>2, <1>3 DEF RunSound, OutputSound
<1>6. BenchTypeOK'
  BY <1>1, <1>4, SavedType DEF BenchTypeOK, TaskDone
<1>7. CallsSound(r)' /\ StartSound(r)'
  BY <1>1, <1>2, <1>3, <1>4, <1>5 DEF RunSound, CallsSound, StartSound, IsIdle, Callers
<1>8. OutputSound(r)'
  BY <1>1, <1>3, <1>4, <1>5 DEF RunSound, OutputSound, Callers
<1>9. ExitSound(r)'
  BY <1>1, <1>2, <1>3, <1>4 DEF RunSound, ExitSound, IsIdle, Callers
<1>10. EndSound(r)' /\ RunKept(r)
  BY <1>1, <1>2, <1>4 DEF RunSound, EndSound, RunKept, Open, IsIdle, Callers
<1>11. HeldSound(r)'
  <2>1. CASE t \notin {"progress", "append"}
    BY <1>1, <2>1, BenchmarkAssumption DEF HeldSound
  <2>2. CASE t \in {"progress", "append"}
    <3>1. c = "queue"
      BY <1>1, <1>2, <2>2
    <3> QED
      BY <1>1, <1>4, <2>2, <3>1 DEF HeldSound, IsIdle, Unreleased, Callers
  <2> QED
    BY <2>1, <2>2
<1>12. Others(r)
  BY <1>1, <1>4, BenchmarkAssumption DEF Others, Same
<1> QED
  BY <1>6, <1>7, <1>8, <1>9, <1>10, <1>11, <1>12 DEF Kept, RunSound

-----------------------------------------------------------------------------
(* Writes that fail, and restarts *)

(* A rejected queue keeps the exits. *)
LEMMA Skipped ==
  ASSUME BInv, NEW r \in Runs, ~IsIdle(r, "queue"),
         NEW i \in Catches(r), tasks' = [tasks EXCEPT ![r] = SubSeq(@, i + 1, Len(@))]
  PROVE  /\ tasks' \in [Runs -> Seq(Tasks)] /\ \A q \in Runs \ {r} : tasks'[q] = tasks[q]
         /\ \A x : Waits(tasks'[r], x) => Waits(tasks[r], x)
         /\ \A x \in ExitTasks : Waits(tasks[r], x) => Waits(tasks'[r], x)
         /\ Ordered(tasks'[r]) /\ tasks[r] # <<>>
<1> USE DEF BInv
<1>1. /\ tasks[r] \in Seq(Tasks) /\ i \in DOMAIN tasks[r] /\ Ordered(tasks[r])
      /\ \A j \in 1 .. i : tasks[r][j] \in EventTasks \cup ErrorTasks
  <2>1. tasks[r] \in Seq(Tasks) /\ Ordered(tasks[r])
    BY DEF BenchTypeOK, RunSound, OutputSound
  <2>2. /\ i \in DOMAIN tasks[r] /\ tasks[r][i] \in EventTasks
        /\ \A j \in 1 .. i - 1 : tasks[r][j] \in ErrorTasks
    BY DEF Catches
  <2>3. i \in Nat /\ \A j \in 1 .. i : j = i \/ j \in 1 .. i - 1
    BY <2>1, <2>2
  <2> QED
    BY <2>1, <2>2, <2>3
<1>2. /\ tasks'[r] = SubSeq(tasks[r], i + 1, Len(tasks[r]))
      /\ \A q \in Runs \ {r} : tasks'[q] = tasks[q]
  BY DEF BenchTypeOK
<1>3. /\ tasks'[r] \in Seq(Tasks) /\ Ordered(tasks'[r])
      /\ \A x : /\ Waits(tasks'[r], x) => Waits(tasks[r], x)
                /\ Waits(tasks[r], x) => Waits(tasks'[r], x) \/ \E j \in 1 .. i : tasks[r][j] = x
  <2>1. Ordered(tasks'[r])
    BY <1>1, <1>2, OrderedDrop
  <2>2. ASSUME NEW x
        PROVE  /\ tasks'[r] \in Seq(Tasks)
               /\ Waits(tasks'[r], x) => Waits(tasks[r], x)
               /\ Waits(tasks[r], x) => Waits(tasks'[r], x) \/ \E j \in 1 .. i : tasks[r][j] = x
    <3>1. /\ SubSeq(tasks[r], i + 1, Len(tasks[r])) \in Seq(Tasks)
          /\ Waits(SubSeq(tasks[r], i + 1, Len(tasks[r])), x) => Waits(tasks[r], x)
          /\ Waits(tasks[r], x) => Waits(SubSeq(tasks[r], i + 1, Len(tasks[r])), x)
                                    \/ \E j \in 1 .. i : tasks[r][j] = x
      BY <1>1, WaitsDrop
    <3> QED
      BY <1>2, <3>1
  <2> QED
    BY <2>1, <2>2
<1>4. \A x \in ExitTasks : Waits(tasks[r], x) => Waits(tasks'[r], x)
  <2>1. \A x \in ExitTasks : x \notin EventTasks \cup ErrorTasks
    BY DEF ExitTasks, EventTasks, ErrorTasks
  <2> QED
    BY <1>1, <1>3, <2>1
<1>5. tasks' \in [Runs -> Seq(Tasks)]
  BY <1>2, <1>3 DEF BenchTypeOK
<1>6. tasks[r] # <<>>
  BY <1>1
<1> QED
  BY <1>2, <1>3, <1>4, <1>5, <1>6

(* The write of startRun or cancelRun fails. *)
LEMMA RequestFailsKept ==
  ASSUME BInv, NEW r \in Runs, NEW c \in {"start", "cancel"},
         ~IsIdle(r, c), Returns(r, c), Saved(r) \/ UNCHANGED file,
         unsaved' = unsaved \cup {<<r, c>>},
         UNCHANGED <<status, revived, tasks, key, active, worker, workers, pipe,
                     terminalEvent, failed, restarts>>
  PROVE  Kept(r)
<1> USE DEF BInv
<1>1. c \in Callers /\ "idle" \in CallTasks \cup {"idle"}
  BY DEF Callers
<1>2. /\ call' \in [Runs -> [Callers -> CallTasks \cup {"idle"}]]
      /\ call'[r][c] = "idle"
      /\ \A d \in Callers \ {c} : call'[r][d] = call[r][d]
      /\ \A q \in Runs \ {r} : call'[q] = call[q]
  BY <1>1, CallUpdate DEF Returns, Awaits
<1>3. /\ unsaved' \subseteq Runs \X Callers
      /\ <<r, c>> \in unsaved' /\ \A d \in Callers : <<r, d>> \in unsaved => <<r, d>> \in unsaved'
      /\ \A q \in Runs \ {r} : \A d \in Callers : <<q, d>> \in unsaved' <=> <<q, d>> \in unsaved
  BY <1>1 DEF BenchTypeOK
<1>4. BenchTypeOK'
  BY <1>2, <1>3, SavedType DEF BenchTypeOK
<1>5. CallsSound(r)' /\ StartSound(r)'
  BY <1>2, <1>3 DEF RunSound, CallsSound, StartSound, IsIdle, Callers
<1>6. OutputSound(r)' /\ ExitSound(r)'
  BY <1>2 DEF RunSound, OutputSound, ExitSound, IsIdle, Callers
<1>7. EndSound(r)' /\ RunKept(r)
  BY <1>2, <1>3 DEF RunSound, EndSound, RunKept, Open, IsIdle, Callers
<1>8. HeldSound(r)'
  BY <1>2, <1>3 DEF HeldSound, IsIdle, Unreleased, Callers
<1>9. Others(r)
  BY <1>2, <1>3 DEF Others, Same
<1> QED
  BY <1>4, <1>5, <1>6, <1>7, <1>8, <1>9 DEF Kept, RunSound

LEMMA WriteFailsKept ==
  ASSUME BInv, NEW r \in Runs, NEW c \in Callers, WriteFails(r, c) PROVE Kept(r)
<1> USE DEF BInv
<1>1. /\ ~IsIdle(r, c) /\ (Saved(r) \/ UNCHANGED file)
      /\ unsaved' = unsaved \cup {<<r, c>>}
      /\ UNCHANGED <<key, active, worker, workers, pipe, terminalEvent, failed, restarts>>
  BY DEF WriteFails
<1>2. CASE c \in {"start", "cancel"} /\ Returns(r, c) /\ UNCHANGED <<status, revived, tasks>>
  BY <1>1, <1>2, RequestFailsKept
<1>3. CASE /\ Recover(r)
           /\ \/ call[r][c] \in EventTasks \cup {"append"} /\ UNCHANGED tasks
              \/ /\ call[r][c] \in ErrorTasks \cup {"recover"}
                 /\ \E i \in Catches(r) : tasks' = [tasks EXCEPT ![r] = SubSeq(@, i + 1, Len(@))]
  <2>1. c = "queue"
    BY <1>1, <1>3 DEF RunSound, CallsSound, Callers, IsIdle, EventTasks, ErrorTasks
  <2>2. /\ status[r] # "none" /\ worker[r] \notin {"none", "unborn"} /\ IsIdle(r, "start")
        /\ ~Waits(tasks[r], "error")
    <3>1. status[r] # "none" /\ worker[r] \notin {"none", "unborn"}
      BY <1>1, <2>1 DEF RunSound, StartSound
    <3>2. IsIdle(r, "start") /\ ~Waits(tasks[r], "error")
      BY <1>1, <2>1, <3>1 DEF RunSound, StartSound, ExitSound
    <3> QED
      BY <3>1, <3>2
  <2>3. /\ tasks' \in [Runs -> Seq(Tasks)] /\ \A q \in Runs \ {r} : tasks'[q] = tasks[q]
        /\ \A x : Waits(tasks'[r], x) => Waits(tasks[r], x)
        /\ \A x \in ExitTasks : Waits(tasks[r], x) => Waits(tasks'[r], x)
        /\ Ordered(tasks'[r])
    <3>1. CASE UNCHANGED tasks
      BY <3>1 DEF BenchTypeOK, RunSound, OutputSound
    <3>2. CASE \E i \in Catches(r) : tasks' = [tasks EXCEPT ![r] = SubSeq(@, i + 1, Len(@))]
      BY <1>1, <2>1, <3>2, Skipped
    <3> QED
      BY <1>3, <3>1, <3>2
  <2>4. call[r]["queue"] # "error"
    <3>1. ASSUME call[r]["queue"] = "error" PROVE FALSE
      <4>1. tasks[r] = <<>>
        BY <3>1 DEF RunSound, ExitSound
      <4>2. \E i \in Catches(r) : tasks' = [tasks EXCEPT ![r] = SubSeq(@, i + 1, Len(@))]
        BY <1>3, <2>1, <3>1 DEF EventTasks
      <4> QED
        BY <1>1, <2>1, <4>1, <4>2, Skipped
    <3> QED
      BY <3>1
  <2>5. PICK n \in {"recover", "idle"} : Awaits(r, "queue", n)
    BY <1>3 DEF Recover, FailRun, Returns, Awaits
  <2>6. /\ call' \in [Runs -> [Callers -> CallTasks \cup {"idle"}]]
        /\ call'[r]["queue"] = n
        /\ \A d \in Callers \ {"queue"} : call'[r][d] = call[r][d]
        /\ \A q \in Runs \ {r} : call'[q] = call[q]
    <3>1. n \in CallTasks \cup {"idle"} /\ "queue" \in Callers
      BY DEF CallTasks, Callers
    <3> QED
      BY <2>5, <3>1, CallUpdate
  <2>7. /\ status' \in [Runs -> Statuses] /\ revived' \subseteq Runs
        /\ (status'[r] = "failed" /\ status[r] # "completed") \/ status'[r] = status[r]
        /\ ~Open(r)'
        /\ \A q \in Runs \ {r} : status'[q] = status[q] /\ (q \in revived' <=> q \in revived)
    <3>1. CASE FailRun(r, "queue", "recover")
      <4>1. "failed" \in Statuses /\ SetStatus(r, "failed") /\ Open(r)
        BY <3>1 DEF Statuses, Terminal, FailRun, MayFailRun
      <4> QED
        BY <4>1, StatusUpdate DEF Open, OpenStatuses
    <3>2. CASE ~Open(r) /\ UNCHANGED <<status, revived>>
      BY <3>2 DEF BenchTypeOK, Open
    <3> QED
      BY <1>3, <3>1, <3>2 DEF Recover, MayFailRun
  <2>8. /\ unsaved' \subseteq Runs \X Callers
        /\ <<r, "queue">> \in unsaved' /\ \A d \in Callers : <<r, d>> \in unsaved => <<r, d>> \in unsaved'
        /\ \A q \in Runs \ {r} : \A d \in Callers : <<q, d>> \in unsaved' <=> <<q, d>> \in unsaved
    BY <1>1, <2>1 DEF BenchTypeOK
  <2>9. BenchTypeOK'
    BY <1>1, <2>3, <2>6, <2>7, <2>8, SavedType DEF BenchTypeOK
  <2>10. CallsSound(r)' /\ StartSound(r)'
    BY <1>1, <2>2, <2>6, <2>7, <2>8 DEF RunSound, CallsSound, StartSound, IsIdle, Callers
  <2>11. OutputSound(r)'
    BY <1>1, <2>3, <2>6, <2>7 DEF RunSound, OutputSound
  <2>12. ExitSound(r)'
    BY <1>1, <2>2, <2>3, <2>6 DEF RunSound, ExitSound, IsIdle, Callers
  <2>13. EndSound(r)' /\ RunKept(r)
    BY <2>7 DEF EndSound, RunKept
  <2>14. HeldSound(r)'
    BY <1>1, <2>2, <2>3, <2>4, <2>6, <2>7, <2>8 DEF HeldSound, IsIdle, Unreleased, Callers
  <2>15. Others(r)
    BY <1>1, <2>3, <2>6, <2>7, <2>8 DEF Others, Same
  <2> QED
    BY <2>9, <2>10, <2>11, <2>12, <2>13, <2>14, <2>15 DEF Kept, RunSound
<1> QED
  BY <1>2, <1>3 DEF WriteFails

LEMMA RebootInv ==
  ASSUME BInv, Reboot PROVE BInv'
<1> USE DEF BInv
<1>1. /\ \A r \in Runs : status'[r] = Recovered(file[r])
      /\ \A r \in Runs : \A c \in Callers : call'[r][c] = "idle"
      /\ \A r \in Runs : worker'[r] \in {"none", "exited"} /\ (worker[r] = "none" => worker'[r] = "none")
      /\ \A r \in Runs : pipe'[r] = <<>> /\ tasks'[r] = <<>>
      /\ active' = NoRun /\ terminalEvent' = {} /\ failed' = {}
  BY DEF Reboot
<1>2. \A r \in Runs : Recovered(file[r]) \in Terminal \cup {"none"}
  BY DEF BenchTypeOK, Recovered, Statuses, Terminal, OpenStatuses
<1>3. BenchTypeOK'
  <2>1. status' \in [Runs -> Statuses] /\ file' \in [Runs -> Statuses]
    BY <1>2 DEF Reboot, Statuses
  <2>2. call' \in [Runs -> [Callers -> CallTasks \cup {"idle"}]]
    BY DEF Reboot
  <2>3. worker' \in [Runs -> {"none", "unborn", "working", "ending", "exited"}]
    BY DEF Reboot
  <2>4. pipe' \in [Runs -> Seq(Lines)] /\ tasks' \in [Runs -> Seq(Tasks)]
    BY DEF Reboot
  <2>5. /\ workers' \subseteq Runs /\ terminalEvent' \subseteq Runs /\ failed' \subseteq Runs
        /\ revived' \subseteq Runs /\ unsaved' \subseteq Runs \X Callers
        /\ active' \in Runs \cup {NoRun} /\ key' \in [Runs -> Keys] /\ restarts' \in Nat
    BY DEF Reboot, BenchTypeOK
  <2> QED
    BY <2>1, <2>2, <2>3, <2>4, <2>5 DEF BenchTypeOK
<1>4. ASSUME NEW r \in Runs PROVE RunSound(r)' /\ HeldSound(r)' /\ ~Open(r)'
  <2>1. ~Open(r)'
    BY <1>1, <1>2 DEF Open, Terminal, OpenStatuses
  <2>2. CallsSound(r)' /\ StartSound(r)'
    BY <1>1 DEF CallsSound, StartSound, Callers, IsIdle, Alive
  <2>3. /\ Ordered(tasks'[r]) /\ Ordered(pipe'[r])
        /\ \A x : ~Waits(tasks'[r], x) /\ ~Waits(pipe'[r], x)
    BY <1>1, NothingWaits
  <2>4. OutputSound(r)' /\ ExitSound(r)'
    BY <1>1, <2>3 DEF OutputSound, ExitSound, Callers, IsIdle
  <2>5. EndSound(r)' /\ HeldSound(r)'
    BY <1>1, <2>1, BenchmarkAssumption DEF EndSound, HeldSound
  <2> QED
    BY <2>1, <2>2, <2>4, <2>5 DEF RunSound
<1>5. OneOpenRunPerKey'
  BY <1>4 DEF OneOpenRunPerKey
<1> QED
  BY <1>3, <1>4, <1>5

-----------------------------------------------------------------------------
(* The invariant *)

LEMMA StepKept ==
  ASSUME BInv, NEW r \in Runs, Step(r) PROVE Kept(r) \/ Reboot
<1>1. CASE \E k \in Keys : Start(r, k)
  BY <1>1, StartKept
<1>2. CASE Cancel(r)
  BY <1>2, CancelKept
<1>3. CASE \E line \in Lines : Write(r, line)
  BY <1>3, WriteKept
<1>4. CASE Exit(r) \/ Timeout(r) \/ SpawnError(r)
  BY <1>4, ExitKept, TimeoutKept, SpawnErrorKept
<1>5. CASE Read(r)
  BY <1>5, ReadKept
<1>6. CASE HandleTask(r)
  BY <1>6, HandleEventKept, HandleFailureKept, HandleSettledKept DEF HandleTask
<1>7. ASSUME NEW c \in Callers, WriteReturns(r, c) PROVE Kept(r) \/ Reboot
  <2>1. CASE Created(r) \/ StartWorker(r)
    BY <2>1, CreatedKept, StartWorkerKept
  <2>2. CASE Cancelled(r) \/ TaskDone(r, c)
    BY <2>2, CancelledKept, TaskDoneKept
  <2>3. CASE WriteFails(r, c)
    BY <2>3, WriteFailsKept
  <2>4. CASE Unhandled(r)
    BY <2>4 DEF Unhandled
  <2> QED
    BY <1>7, <2>1, <2>2, <2>3, <2>4 DEF WriteReturns
<1> QED
  BY <1>1, <1>2, <1>3, <1>4, <1>5, <1>6, <1>7 DEF Step

LEMMA InitBInv == Init => BInv
<1> SUFFICES ASSUME Init PROVE BInv
  OBVIOUS
<1>1. BenchTypeOK
  BY DEF Init, BenchTypeOK, Statuses
<1>2. ASSUME NEW r \in Runs PROVE RunSound(r) /\ HeldSound(r) /\ ~Open(r)
  <2>1. /\ status[r] = "none" /\ worker[r] = "none" /\ pipe[r] = <<>> /\ tasks[r] = <<>>
        /\ \A c \in Callers : call[r][c] = "idle"
        /\ terminalEvent = {} /\ failed = {} /\ active = NoRun
    BY DEF Init
  <2>2. ~Open(r)
    BY <2>1 DEF Open, OpenStatuses
  <2>3. CallsSound(r) /\ StartSound(r)
    BY <2>1 DEF CallsSound, StartSound, Callers, IsIdle, Alive
  <2>4. OutputSound(r) /\ ExitSound(r)
    BY <2>1, NothingWaits DEF OutputSound, ExitSound, Callers, IsIdle
  <2>5. EndSound(r) /\ HeldSound(r)
    BY <2>1, <2>2, BenchmarkAssumption DEF EndSound, HeldSound
  <2> QED
    BY <2>2, <2>3, <2>4, <2>5 DEF RunSound
<1>3. OneOpenRunPerKey
  BY <1>2 DEF OneOpenRunPerKey
<1> QED
  BY <1>1, <1>2, <1>3 DEF BInv

LEMMA NextBInv == BInv /\ [Next]_vars => BInv'
<1> SUFFICES ASSUME BInv, [Next]_vars PROVE BInv'
  OBVIOUS
<1>1. CASE UNCHANGED vars
  <2>1. ASSUME NEW r \in Runs PROVE RunSound(r)' /\ HeldSound(r)'
    BY <1>1, SameSound, SameHeld DEF vars, Same, BInv
  <2>2. BenchTypeOK' /\ OneOpenRunPerKey'
    BY <1>1 DEF vars, BInv, BenchTypeOK, OneOpenRunPerKey, Open
  <2> QED
    BY <2>1, <2>2 DEF BInv
<1>2. CASE Restart
  BY <1>2, RebootInv DEF Restart
<1>3. CASE \E r \in Runs : Step(r)
  BY <1>3, StepKept, KeptInv, RebootInv
<1> QED
  BY <1>1, <1>2, <1>3 DEF Next

(* The invariant holds in every state of every behaviour. *)
THEOREM SpecBInv == Spec => []BInv
<1> QED
  BY InitBInv, NextBInv, PTL DEF Spec

-----------------------------------------------------------------------------
(* Theorems *)

(* The variables of the controller keep their types (BenchTypeOK). *)
THEOREM BenchTypeCorrect == Spec => []BenchTypeOK
<1>1. BInv => BenchTypeOK
  BY DEF BInv
<1> QED
  BY <1>1, SpecBInv, PTL

(* A run nothing will change any more has ended, however its worker went:  *)
(* what will end an open run is still to come (startWorker, failRun).      *)
THEOREM QuietRunsHaveEnded == Spec => []QuietRunHasEnded
<1>1. ASSUME BInv PROVE QuietRunHasEnded
  <2>1. SUFFICES ASSUME NEW r \in Runs, Open(r), Quiet(r), r \notin revived,
                        <<r, "start">> \notin unsaved
                 PROVE  FALSE
    BY DEF QuietRunHasEnded
  <2>2. worker[r] = "exited"
    BY <1>1, <2>1 DEF BInv, RunSound, EndSound, Quiet, Callers
  <2>3. \A x : ~Waits(tasks[r], x)
    BY <2>1, NothingWaits DEF Quiet
  <2> QED
    BY <1>1, <2>1, <2>2, <2>3 DEF BInv, RunSound, EndSound
<1> QED
  BY <1>1, SpecBInv, PTL

(* The place for a run is given back by the time nothing will change the   *)
(* run any more (onExit, processWorkerEvent, failRun, cancelRun).          *)
THEOREM QuietRunsAreReleased == Spec => []QuietIsReleased
<1>1. ASSUME BInv PROVE QuietIsReleased
  <2>1. SUFFICES ASSUME NEW r \in Runs, active = r, Quiet(r) PROVE Unreleased(r)
    BY DEF QuietIsReleased, Unreleased
  <2>2. \A x : ~Waits(tasks[r], x)
    BY <2>1, NothingWaits DEF Quiet
  <2> QED
    BY <1>1, <2>1, <2>2 DEF BInv, HeldSound, Quiet, IsIdle, Callers, Alive
<1> QED
  BY <1>1, SpecBInv, PTL

(* Two runs with one request key are never open together, whatever starts  *)
(* overlap or fail half way (findByRequestKey).                            *)
THEOREM OneOpenRunForEachKey == Spec => []OneOpenRunPerKey
<1>1. BInv => OneOpenRunPerKey
  BY DEF BInv
<1> QED
  BY <1>1, SpecBInv, PTL

(* A completed run stays completed, whatever arrives afterwards.           *)
THEOREM CompletedStaysCompleted == Spec => CompletedIsFinal
<1>1. ASSUME BInv, [Next]_vars
      PROVE  \A r \in Runs : status[r] = "completed" /\ restarts' = restarts => status'[r] = "completed"
  <2>1. SUFFICES ASSUME NEW r \in Runs, status[r] = "completed", restarts' = restarts
                 PROVE  status'[r] = "completed"
    OBVIOUS
  <2>2. ~Reboot
    BY <1>1, <2>1 DEF Reboot, BInv, BenchTypeOK
  <2>3. CASE UNCHANGED vars
    BY <2>1, <2>3 DEF vars
  <2>4. ASSUME NEW q \in Runs, Step(q) PROVE status'[r] = "completed"
    <3>1. Kept(q)
      BY <1>1, <2>2, <2>4, StepKept
    <3> QED
      BY <2>1, <3>1 DEF Kept, Others, Same, RunKept
  <2> QED
    BY <1>1, <2>2, <2>3, <2>4 DEF Next, Restart
<1> QED
  BY <1>1, SpecBInv, PTL DEF Spec, CompletedIsFinal

-----------------------------------------------------------------------------
(* Capacity *)

(* What a step on r that starts nothing may do to the capacity. *)
GivesBack(r) ==
  /\ \A q \in Runs \ {r} : q \in workers' <=> q \in workers
  /\ active' = active \/ (active = r /\ active' = NoRun)
  /\ ~IsIdle(r, "start")' => ~IsIdle(r, "start")
  /\ PlaceSound(r)'

LEMMA GivesBackInv ==
  ASSUME CapacityInv, NEW r \in Runs, Others(r), GivesBack(r) PROVE CapacityInv'
<1>1. ASSUME NEW q \in Runs \ {r}
      PROVE  PlaceSound(q)' /\ (IsIdle(q, "start")' <=> IsIdle(q, "start"))
  <2>1. PlaceSound(q) /\ Same(q)
    BY DEF CapacityInv, Others
  <2>2. IsIdle(q, "start")' <=> IsIdle(q, "start")
    BY <2>1 DEF Same, IsIdle
  <2>3. PlaceSound(q)'
    BY <2>1 DEF GivesBack, PlaceSound, Same, IsIdle, Callers
  <2> QED
    BY <2>2, <2>3
<1>2. OneStart'
  BY <1>1 DEF CapacityInv, OneStart, GivesBack
<1> QED
  BY <1>1, <1>2 DEF CapacityInv, GivesBack

(* A step on r that keeps the place and does not put its worker to work. *)
LEMMA NothingTaken ==
  ASSUME CapacityInv, NEW r \in Runs,
         worker'[r] = "working" => worker[r] = "working",
         call'[r]["start"] = call[r]["start"], call'[r]["cancel"] = call[r]["cancel"],
         UNCHANGED <<workers, active>>,
         <<r, "queue">> \in unsaved => <<r, "queue">> \in unsaved'
  PROVE  GivesBack(r)
BY DEF CapacityInv, GivesBack, PlaceSound, IsIdle

LEMMA StepCapacity ==
  ASSUME BInv, CapacityInv, ~Overlap, NEW r \in Runs, Step(r), ~Reboot
  PROVE  CapacityInv'
<1> USE DEF BInv
<1>1. Others(r)
  BY StepKept DEF Kept
<1>2. call \in [Runs -> [Callers -> CallTasks \cup {"idle"}]] /\ worker \in [Runs -> {"none", "unborn", "working", "ending", "exited"}]
  BY DEF BenchTypeOK
<1>3. "start" \in Callers /\ "cancel" \in Callers /\ "queue" \in Callers
  BY DEF Callers
<1>4. PlaceSound(r) /\ OneStart
  BY DEF CapacityInv
<1>5. ASSUME NEW k \in Keys, Start(r, k) PROVE CapacityInv'
  <2>1. /\ \A q \in Runs : IsIdle(q, "start")
        /\ active = NoRun /\ active' = active /\ workers' = workers
        /\ status[r] = "none" /\ worker'[r] = worker[r]
        /\ call' = [call EXCEPT ![r]["start"] = "create"]
    BY <1>5 DEF Start, Awaits
  <2>2. worker[r] # "working" /\ IsIdle(r, "cancel")
    BY <1>3, <1>5 DEF Start, RunSound, StartSound
  <2>3. PlaceSound(r)'
    BY <1>2, <1>3, <2>1, <2>2 DEF PlaceSound, IsIdle
  <2>4. ASSUME NEW q \in Runs \ {r} PROVE PlaceSound(q)' /\ IsIdle(q, "start")'
    BY <1>1, <2>1, <1>3 DEF CapacityInv, PlaceSound, Others, Same, IsIdle
  <2> QED
    BY <2>3, <2>4 DEF CapacityInv, OneStart
<1>6. CASE Created(r)
  <2>1. /\ call[r]["start"] = "create" /\ active' = r /\ workers' = workers
        /\ worker'[r] = worker[r] /\ call' = [call EXCEPT ![r]["start"] = "start"]
    BY <1>6 DEF Created, Awaits
  <2>2. /\ worker[r] = "none" /\ IsIdle(r, "cancel") /\ active = NoRun
        /\ \A q \in Runs \ {r} : IsIdle(q, "start")
    BY <1>3, <1>4, <2>1 DEF RunSound, StartSound, PlaceSound, OneStart, IsIdle
  <2>3. PlaceSound(r)'
    BY <1>2, <1>3, <2>1, <2>2 DEF PlaceSound, IsIdle
  <2>4. ASSUME NEW q \in Runs \ {r} PROVE PlaceSound(q)' /\ IsIdle(q, "start")'
    BY <1>1, <1>3, <2>1, <2>2, BenchmarkAssumption DEF CapacityInv, PlaceSound, Others, Same, IsIdle
  <2> QED
    BY <2>3, <2>4 DEF CapacityInv, OneStart
<1>7. CASE StartWorker(r)
  <2>1. /\ call[r]["start"] = "start" /\ workers' = workers \cup {r} /\ active' = active
        /\ call' = [call EXCEPT ![r]["start"] = "idle"]
    BY <1>7 DEF StartWorker, Returns
  <2>2. GivesBack(r)
    BY <1>2, <1>3, <1>4, <2>1 DEF GivesBack, PlaceSound, IsIdle
  <2> QED
    BY <1>1, <2>2, GivesBackInv
<1>8. CASE Cancel(r)
  <2>1. /\ IsIdle(r, "start") /\ active' = active /\ workers' = workers
        /\ call' = [call EXCEPT ![r]["cancel"] = "cancel"]
        /\ worker' = IF r \in workers THEN Kill(r) ELSE worker
    BY <1>8 DEF Cancel, Awaits
  <2>2. worker'[r] # "working"
    BY <1>2, <1>4, <2>1 DEF PlaceSound, Kill
  <2>3. GivesBack(r)
    BY <1>2, <1>3, <2>1, <2>2 DEF GivesBack, PlaceSound, IsIdle
  <2> QED
    BY <1>1, <2>3, GivesBackInv
<1>9. CASE Cancelled(r)
  <2>1. /\ call[r]["cancel"] = "cancel" /\ workers' = workers \ {r}
        /\ active' = IF active = r THEN NoRun ELSE active
        /\ call' = [call EXCEPT ![r]["cancel"] = "idle"] /\ worker' = worker
    BY <1>9 DEF Cancelled, Returns, Release
  <2>2. worker[r] # "working" /\ IsIdle(r, "start")
    BY <1>4, <2>1 DEF PlaceSound, IsIdle
  <2>3. GivesBack(r)
    BY <1>2, <1>3, <2>1, <2>2 DEF GivesBack, PlaceSound, IsIdle
  <2> QED
    BY <1>1, <2>3, GivesBackInv
<1>10. CASE (\E line \in Lines : Write(r, line)) \/ Exit(r) \/ Timeout(r) \/ SpawnError(r) \/ Read(r)
  <2>1. /\ UNCHANGED <<call, workers, active, unsaved>>
        /\ worker'[r] = "working" => worker[r] = "working"
    BY <1>2, <1>10 DEF Write, Exit, Timeout, SpawnError, Read, Kill
  <2> QED
    BY <1>1, <2>1, NothingTaken, GivesBackInv
<1>11. CASE HandleEvent(r) \/ HandleFailure(r)
  <2>1. /\ UNCHANGED <<worker, workers, active, unsaved>>
        /\ \E c \in {"queue", "exit"} : \E t : call' = [call EXCEPT ![r][c] = t]
    BY <1>11 DEF HandleEvent, HandleFailure, FailRun, Awaits
  <2>2. call'[r]["start"] = call[r]["start"] /\ call'[r]["cancel"] = call[r]["cancel"]
    BY <1>2, <1>3, <2>1
  <2> QED
    BY <1>1, <2>1, <2>2, NothingTaken, GivesBackInv
<1>12. CASE HandleSettled(r)
  <2> DEFINE h == Head(tasks[r])
  <2>1. /\ workers' = IF h \in ExitTasks THEN workers \ {r} ELSE workers
        /\ active' = IF h \in ExitTasks /\ active = r THEN NoRun ELSE active
        /\ UNCHANGED <<worker, unsaved>> /\ tasks[r] # <<>> /\ h \notin {"progress", "completed"}
    BY <1>12 DEF HandleSettled, EndsRun, Release, ExitTasks, ErrorTasks
  <2>2. call'[r]["start"] = call[r]["start"] /\ call'[r]["cancel"] = call[r]["cancel"]
    BY <1>2, <1>3, <1>12 DEF HandleSettled, Awaits
  <2>3. Waits(tasks[r], h) /\ h \in Tasks
    BY <2>1, WaitsTail DEF BenchTypeOK
  <2>4. worker[r] # "working" /\ IsIdle(r, "start")
    BY <2>1, <2>3, TasksAreLate DEF RunSound, OutputSound
  <2> HIDE DEF h
  <2>5. GivesBack(r)
    BY <1>4, <2>1, <2>2, <2>4 DEF GivesBack, PlaceSound, IsIdle
  <2> QED
    BY <1>1, <2>5, GivesBackInv
<1>13. ASSUME NEW c \in Callers, TaskDone(r, c) PROVE CapacityInv'
  <2>1. /\ c \in {"queue", "exit"} /\ call[r][c] # "idle"
        /\ workers' = IF c = "exit" THEN workers \ {r} ELSE workers
        /\ active' = IF call[r][c] \in {"progress", "append"} \/ active # r THEN active ELSE NoRun
        /\ UNCHANGED <<worker, unsaved>>
    BY <1>13 DEF TaskDone, IsIdle, Release
  <2>2. call'[r]["start"] = call[r]["start"] /\ call'[r]["cancel"] = call[r]["cancel"]
    BY <1>2, <1>3, <1>13, <2>1 DEF TaskDone, Awaits, Returns
  <2>3. IsIdle(r, "start")
    BY <2>1 DEF RunSound, StartSound, IsIdle
  <2>4. worker[r] = "working" => c = "queue" /\ call[r]["queue"] \in {"progress", "recover"}
    BY <2>1 DEF RunSound, OutputSound, ExitSound, IsIdle
  <2>5. worker[r] = "working" /\ call[r]["queue"] = "recover" => <<r, "queue">> \in unsaved
    BY DEF RunSound, CallsSound
  <2>6. GivesBack(r)
    BY <1>4, <2>1, <2>2, <2>3, <2>4, <2>5 DEF GivesBack, PlaceSound, IsIdle
  <2> QED
    BY <1>1, <2>6, GivesBackInv
<1>14. ASSUME NEW c \in Callers, WriteFails(r, c) PROVE CapacityInv'
  <2>1. /\ UNCHANGED <<worker, workers, active>>
        /\ <<r, "queue">> \in unsaved => <<r, "queue">> \in unsaved'
        /\ \E d \in {c, "queue"} : \E t : call' = [call EXCEPT ![r][d] = t] /\ (d # "queue" => t = "idle")
    BY <1>14 DEF WriteFails, Recover, FailRun, Returns, Awaits
  <2>2. /\ call'[r]["start"] = call[r]["start"] \/ call'[r]["start"] = "idle"
        /\ call'[r]["cancel"] = call[r]["cancel"] \/ call'[r]["cancel"] = "idle"
    BY <1>2, <1>3, <2>1
  <2>3. GivesBack(r)
    BY <1>4, <2>1, <2>2 DEF GivesBack, PlaceSound, IsIdle
  <2> QED
    BY <1>1, <2>3, GivesBackInv
<1>15. ASSUME NEW c \in Callers, WriteReturns(r, c) PROVE CapacityInv'
  BY <1>6, <1>7, <1>9, <1>13, <1>14, <1>15 DEF WriteReturns, Unhandled
<1> QED
  BY <1>5, <1>8, <1>10, <1>11, <1>12, <1>15 DEF Step, HandleTask

LEMMA RebootCapacity ==
  ASSUME Reboot PROVE CapacityInv'
<1>1. \A r \in Runs : worker'[r] # "working" /\ \A c \in Callers : call'[r][c] = "idle"
  BY DEF Reboot
<1> QED
  BY <1>1 DEF CapacityInv, OneStart, PlaceSound, IsIdle, Callers

(* If clients wait until a start is answered, the run whose worker is at   *)
(* work is the active one (startRun's check of activeRunId), unless the    *)
(* record of one of its events could not be written.                       *)
THEOREM WorkingStaysActive == ~Overlap /\ Spec => []WorkingIsActive
<1> SUFFICES ASSUME ~Overlap PROVE Spec => []WorkingIsActive
  OBVIOUS
<1>1. Init => CapacityInv
  BY DEF Init, CapacityInv, OneStart, PlaceSound, IsIdle, Callers
<1>2. BInv /\ CapacityInv /\ [Next]_vars => CapacityInv'
  <2> SUFFICES ASSUME BInv, CapacityInv, [Next]_vars PROVE CapacityInv'
    OBVIOUS
  <2>1. CASE UNCHANGED vars
    BY <2>1 DEF vars, CapacityInv, OneStart, PlaceSound, IsIdle
  <2>2. CASE Reboot
    BY <2>2, RebootCapacity
  <2>3. CASE ~Reboot /\ \E r \in Runs : Step(r)
    BY <2>3, StepCapacity
  <2> QED
    BY <2>1, <2>2, <2>3 DEF Next, Restart
<1>3. CapacityInv => WorkingIsActive
  BY DEF CapacityInv, PlaceSound, WorkingIsActive
<1> QED
  BY <1>1, <1>2, <1>3, SpecBInv, PTL DEF Spec

(* Then also what the documents say of the capacity holds: no two workers  *)
(* are at work, unless one of them is that of a run whose event could not  *)
(* be saved.  A second start in the meantime is all it takes otherwise.    *)
THEOREM OneRunWithoutOverlap ==
  ~Overlap /\ Spec =>
    [](OneRunAtATime \/ \E r \in Runs : worker[r] = "working" /\ <<r, "queue">> \in unsaved)
<1>1. WorkingIsActive => OneRunAtATime \/ \E r \in Runs : worker[r] = "working" /\ <<r, "queue">> \in unsaved
  BY DEF WorkingIsActive, OneRunAtATime
<1> QED
  BY <1>1, WorkingStaysActive, PTL

-----------------------------------------------------------------------------
(* How much is still to come of a run *)

(* What a worker that is there has left: its exit and, if it is still at   *)
(* work, a timeout before that.                                           *)
WorkerLeft(w) ==
  CASE w = "working" -> 14 [] w \in {"unborn", "ending"} -> 7 [] w \in {"none", "exited"} -> 0

(* The writes of a call, and what its failing may lead to. *)
CallLeft(t) ==
  CASE t = "create" -> 16 [] t = "start" -> 15
    [] t \in EventTasks -> 3 [] t \in ErrorTasks \cup {"append"} -> 2
    [] t \in ExitTasks \cup {"cancel", "recover"} -> 1 [] t = "idle" -> 0

Amount(w, p, t, k) ==
  WorkerLeft(w) + 7 * Len(p) + 6 * Len(t)
    + (CallLeft(k["start"]) + CallLeft(k["cancel"]) + CallLeft(k["queue"]) + CallLeft(k["exit"]))

Left(r) == Amount(worker[r], pipe[r], tasks[r], call[r])

(* Nothing is left exactly of a quiet run. *)
RestIsQuiet == \A r \in Runs : Left(r) \in Nat /\ (Left(r) = 0 <=> Quiet(r))

(* A client asks for something, or the worker says something. *)
Asked(r) == (\E k \in Keys : Start(r, k)) \/ Cancel(r) \/ \E line \in Lines : Write(r, line)

ComesToRest ==
  \A r \in Runs :
    \/ Asked(r)
    \/ UNCHANGED <<worker[r], pipe[r], tasks[r], call[r]>>
    \/ Left(r)' < Left(r)

LEMMA WorkerOf ==
  /\ WorkerLeft("working") = 14 /\ WorkerLeft("unborn") = 7 /\ WorkerLeft("ending") = 7
  /\ WorkerLeft("none") = 0 /\ WorkerLeft("exited") = 0
BY DEF WorkerLeft

LEMMA CallOf ==
  /\ CallLeft("create") = 16 /\ CallLeft("start") = 15
  /\ CallLeft("progress") = 3 /\ CallLeft("completed") = 3 /\ CallLeft("failed") = 3
  /\ CallLeft("append") = 2 /\ CallLeft("protocol") = 2 /\ CallLeft("error") = 2
  /\ CallLeft("exit") = 1 /\ CallLeft("exitAfterEnd") = 1
  /\ CallLeft("cancel") = 1 /\ CallLeft("recover") = 1 /\ CallLeft("idle") = 0
BY DEF CallLeft, EventTasks, ErrorTasks, ExitTasks

(* The parts are numbers, none of which is zero without cause. *)
LEMMA PartsType ==
  ASSUME BenchTypeOK, NEW r \in Runs
  PROVE  /\ WorkerLeft(worker[r]) \in Nat
         /\ WorkerLeft(worker[r]) = 0 <=> worker[r] \in {"none", "exited"}
         /\ Len(pipe[r]) \in Nat /\ (Len(pipe[r]) = 0 <=> pipe[r] = <<>>)
         /\ Len(tasks[r]) \in Nat /\ (Len(tasks[r]) = 0 <=> tasks[r] = <<>>)
         /\ \A c \in Callers : CallLeft(call[r][c]) \in Nat /\ (CallLeft(call[r][c]) = 0 <=> IsIdle(r, c))
<1>1. /\ worker[r] \in {"none", "unborn", "working", "ending", "exited"}
      /\ pipe[r] \in Seq(Lines) /\ tasks[r] \in Seq(Tasks)
      /\ \A c \in Callers : call[r][c] \in CallTasks \cup {"idle"}
  BY DEF BenchTypeOK
<1>2. WorkerLeft(worker[r]) \in Nat /\ (WorkerLeft(worker[r]) = 0 <=> worker[r] \in {"none", "exited"})
  BY <1>1, WorkerOf
<1>3. ASSUME NEW t \in CallTasks \cup {"idle"} PROVE CallLeft(t) \in Nat /\ (CallLeft(t) = 0 <=> t = "idle")
  <2>1. t \in {"create", "start", "progress", "completed", "failed", "append", "protocol", "error",
               "exit", "exitAfterEnd", "cancel", "recover", "idle"}
    BY DEF CallTasks, Tasks, EventTasks, ErrorTasks, ExitTasks
  <2> QED
    BY <2>1, CallOf
<1>4. Len(pipe[r]) \in Nat /\ (Len(pipe[r]) = 0 <=> pipe[r] = <<>>)
  BY <1>1, EmptySeq
<1>5. Len(tasks[r]) \in Nat /\ (Len(tasks[r]) = 0 <=> tasks[r] = <<>>)
  BY <1>1, EmptySeq
<1> QED
  BY <1>1, <1>2, <1>3, <1>4, <1>5 DEF IsIdle

LEMMA RestType == BenchTypeOK => RestIsQuiet
<1> SUFFICES ASSUME BenchTypeOK, NEW r \in Runs PROVE Left(r) \in Nat /\ (Left(r) = 0 <=> Quiet(r))
  BY DEF RestIsQuiet
<1> DEFINE w == WorkerLeft(worker[r])
           p == Len(pipe[r])
           t == Len(tasks[r])
           s == CallLeft(call[r]["start"])
           x == CallLeft(call[r]["cancel"])
           q == CallLeft(call[r]["queue"])
           e == CallLeft(call[r]["exit"])
<1>1. Left(r) = w + 7 * p + 6 * t + (s + x + q + e)
  BY DEF Left, Amount
<1>2. w \in Nat /\ p \in Nat /\ t \in Nat /\ s \in Nat /\ x \in Nat /\ q \in Nat /\ e \in Nat
  BY PartsType DEF Callers
<1>3. Quiet(r) <=> w = 0 /\ p = 0 /\ t = 0 /\ s = 0 /\ x = 0 /\ q = 0 /\ e = 0
  BY PartsType DEF Quiet, Callers
<1> HIDE DEF w, p, t, s, x, q, e
<1> QED
  BY <1>1, <1>2, <1>3

(* A step of the run that the server or the end of the worker takes. *)
LEMMA StepLowers ==
  ASSUME BInv, NEW r \in Runs, Step(r), ~Reboot, ~Asked(r)
  PROVE  Left(r)' < Left(r)
<1> USE DEF BInv
<1> DEFINE w == WorkerLeft(worker[r])
           p == Len(pipe[r])
           t == Len(tasks[r])
           s == CallLeft(call[r]["start"])
           x == CallLeft(call[r]["cancel"])
           q == CallLeft(call[r]["queue"])
           e == CallLeft(call[r]["exit"])
           w1 == WorkerLeft(worker'[r])
           p1 == Len(pipe'[r])
           t1 == Len(tasks'[r])
           s1 == CallLeft(call'[r]["start"])
           x1 == CallLeft(call'[r]["cancel"])
           q1 == CallLeft(call'[r]["queue"])
           e1 == CallLeft(call'[r]["exit"])
<1>1. /\ Left(r) = w + 7 * p + 6 * t + (s + x + q + e)
      /\ Left(r)' = w1 + 7 * p1 + 6 * t1 + (s1 + x1 + q1 + e1)
  BY DEF Left, Amount
<1>2. w \in Nat /\ p \in Nat /\ t \in Nat /\ s \in Nat /\ x \in Nat /\ q \in Nat /\ e \in Nat
  BY PartsType DEF Callers
<1>3. /\ UNCHANGED worker => w1 = w
      /\ UNCHANGED pipe => p1 = p
      /\ UNCHANGED tasks => t1 = t
      /\ UNCHANGED call => s1 = s /\ x1 = x /\ q1 = q /\ e1 = e
  OBVIOUS
<1>4. ASSUME NEW c \in Callers, NEW k \in CallTasks \cup {"idle"}, Awaits(r, c, k)
      PROVE  /\ c # "start" => s1 = s
             /\ c # "cancel" => x1 = x
             /\ c # "queue" => q1 = q
             /\ c # "exit" => e1 = e
             /\ call'[r][c] = k
  <2>1. call'[r][c] = k /\ \A d \in Callers \ {c} : call'[r][d] = call[r][d]
    BY <1>4, CallUpdate
  <2> QED
    BY <2>1 DEF Callers
<1>5. ASSUME NEW c \in Callers, Returns(r, c)
      PROVE  /\ c # "start" => s1 = s
             /\ c # "cancel" => x1 = x
             /\ c # "queue" => q1 = q
             /\ c # "exit" => e1 = e
             /\ call'[r][c] = "idle" /\ CallLeft(call'[r][c]) = 0
  <2>1. Awaits(r, c, "idle")
    BY <1>5 DEF Returns, Awaits
  <2> QED
    BY <1>4, <2>1, CallOf
<1>6. /\ call[r]["start"] \in {"idle", "create", "start"}
      /\ call[r]["cancel"] \in {"idle", "cancel"}
      /\ call[r]["queue"] \in {"idle", "recover", "append"} \cup EventTasks \cup ErrorTasks
      /\ call[r]["exit"] \in {"idle", "exit"}
      /\ ~IsIdle(r, "start") => worker[r] = "none"
      /\ worker[r] \in {"none", "unborn", "working", "ending", "exited"}
  BY DEF BenchTypeOK, RunSound, CallsSound, StartSound
<1>7. ASSUME NEW k \in Tasks, tasks' = [tasks EXCEPT ![r] = Append(@, k)] PROVE t1 = t + 1
  <2>1. tasks[r] \in Seq(Tasks) /\ tasks'[r] = Append(tasks[r], k)
    BY <1>7 DEF BenchTypeOK
  <2> QED
    BY <2>1
<1>8. ASSUME tasks[r] # <<>>, TakeTask(r) PROVE t1 = t - 1 /\ Head(tasks[r]) \in Tasks
  <2>1. tasks[r] \in Seq(Tasks) /\ tasks'[r] = Tail(tasks[r])
    BY <1>8 DEF BenchTypeOK, TakeTask
  <2> QED
    BY <1>8, <2>1
<1>9. ASSUME worker' = Kill(r)
      PROVE  w1 = IF worker[r] = "working" THEN w - 7 ELSE w
  <2>1. worker'[r] = IF worker[r] = "working" THEN "ending" ELSE worker[r]
    BY <1>9 DEF Kill, BenchTypeOK
  <2> QED
    BY <2>1, WorkerOf
<1>10. CASE Created(r)
  <2>1. s = 16 /\ s1 = 15 /\ x1 = x /\ q1 = q /\ e1 = e
    BY <1>4, <1>10, CallOf DEF Created, Callers, CallTasks
  <2>2. w1 = w /\ p1 = p /\ t1 = t
    BY <1>3, <1>10 DEF Created
  <2> HIDE DEF w, p, t, s, x, q, e, w1, p1, t1, s1, x1, q1, e1
  <2> QED
    BY <1>1, <1>2, <2>1, <2>2
<1>11. CASE StartWorker(r)
  <2>1. s = 15 /\ s1 = 0 /\ x1 = x /\ q1 = q /\ e1 = e
    BY <1>5, <1>11, CallOf DEF StartWorker, Callers
  <2>2. p1 = p /\ t1 = t
    BY <1>3, <1>11 DEF StartWorker
  <2>3. worker'[r] \in {"working", "unborn"}
    BY <1>11 DEF StartWorker, BenchTypeOK
  <2>4. w1 \in {7, 14}
    BY <2>3, WorkerOf
  <2> HIDE DEF w, p, t, s, x, q, e, w1, p1, t1, s1, x1, q1, e1
  <2> QED
    BY <1>1, <1>2, <2>1, <2>2, <2>4
<1>12. CASE Cancelled(r)
  <2>1. x = 1 /\ x1 = 0 /\ s1 = s /\ q1 = q /\ e1 = e
    BY <1>5, <1>12, CallOf DEF Cancelled, Callers
  <2>2. w1 = w /\ p1 = p /\ t1 = t
    BY <1>3, <1>12 DEF Cancelled
  <2> HIDE DEF w, p, t, s, x, q, e, w1, p1, t1, s1, x1, q1, e1
  <2> QED
    BY <1>1, <1>2, <2>1, <2>2
<1>13. CASE Exit(r)
  <2>1. w >= 7 /\ w1 = 0
    <3>1. worker'[r] = "exited" /\ worker[r] \in {"working", "ending"}
      BY <1>13 DEF Exit, BenchTypeOK
    <3> QED
      BY <3>1, WorkerOf
  <2>2. t1 = t + 1 /\ p1 = p /\ s1 = s /\ x1 = x /\ q1 = q /\ e1 = e
    BY <1>3, <1>7, <1>13 DEF Exit, Tasks, ExitTasks
  <2> HIDE DEF w, p, t, s, x, q, e, w1, p1, t1, s1, x1, q1, e1
  <2> QED
    BY <1>1, <1>2, <2>1, <2>2
<1>14. CASE Timeout(r)
  <2>1. w1 = w - 7
    BY <1>9, <1>14 DEF Timeout
  <2>2. t1 = t + 1 /\ p1 = p /\ s1 = s /\ x1 = x /\ q1 = q /\ e1 = e
    BY <1>3, <1>7, <1>14 DEF Timeout, Tasks, ErrorTasks
  <2> HIDE DEF w, p, t, s, x, q, e, w1, p1, t1, s1, x1, q1, e1
  <2> QED
    BY <1>1, <1>2, <2>1, <2>2
<1>15. CASE SpawnError(r)
  <2>1. w = 7 /\ w1 = 0
    <3>1. worker'[r] = "exited" /\ worker[r] = "unborn"
      BY <1>15 DEF SpawnError, BenchTypeOK
    <3> QED
      BY <3>1, WorkerOf
  <2>2. t1 = t + 1 /\ p1 = p /\ s1 = s /\ x1 = x /\ q1 = q /\ e1 = e
    BY <1>3, <1>7, <1>15 DEF SpawnError, Tasks, ErrorTasks
  <2> HIDE DEF w, p, t, s, x, q, e, w1, p1, t1, s1, x1, q1, e1
  <2> QED
    BY <1>1, <1>2, <2>1, <2>2
<1>16. CASE Read(r)
  <2> DEFINE k == IF Head(pipe[r]) = "bad" THEN "protocol" ELSE Head(pipe[r])
  <2>1. /\ pipe[r] \in Seq(Lines) /\ pipe[r] # <<>> /\ pipe'[r] = Tail(pipe[r])
        /\ tasks' = [tasks EXCEPT ![r] = Append(@, k)]
        /\ worker' = Kill(r) \/ worker' = worker
        /\ UNCHANGED call
    BY <1>16 DEF Read, BenchTypeOK
  <2>2. p1 = p - 1 /\ k \in Tasks
    BY <2>1 DEF Lines, Tasks, EventTasks, ErrorTasks
  <2> HIDE DEF k
  <2>3. t1 = t + 1 /\ s1 = s /\ x1 = x /\ q1 = q /\ e1 = e
    BY <1>3, <1>7, <2>1, <2>2
  <2>4. w1 = w \/ w1 = w - 7
    BY <1>3, <1>9, <2>1
  <2> HIDE DEF w, p, t, s, x, q, e, w1, p1, t1, s1, x1, q1, e1
  <2> QED
    BY <1>1, <1>2, <2>2, <2>3, <2>4
<1>17. CASE HandleEvent(r)
  <2>1. t1 = t - 1 /\ w1 = w /\ p1 = p
    BY <1>3, <1>8, <1>17 DEF HandleEvent
  <2>2. call'[r]["queue"] \in {"progress", "completed"} /\ s1 = s /\ x1 = x /\ e1 = e
    <3>1. Head(tasks[r]) \in CallTasks \cup {"idle"} /\ "queue" \in Callers
      BY <1>17 DEF HandleEvent, Callers, CallTasks, Tasks, EventTasks
    <3> QED
      BY <1>4, <1>17, <3>1 DEF HandleEvent
  <2>3. q1 = 3
    BY <2>2, CallOf
  <2> HIDE DEF w, p, t, s, x, q, e, w1, p1, t1, s1, x1, q1, e1
  <2> QED
    BY <1>1, <1>2, <2>1, <2>2, <2>3
<1>18. CASE HandleFailure(r)
  <2>1. t1 = t - 1 /\ w1 = w /\ p1 = p /\ Head(tasks[r]) \in Tasks
    BY <1>3, <1>8, <1>18 DEF HandleFailure
  <2>2. CASE ExitMustFail(r)
    <3>1. Awaits(r, "exit", "exit")
      BY <1>18, <2>2 DEF HandleFailure, FailRun, ExitMustFail
    <3>2. e1 = 1 /\ s1 = s /\ x1 = x /\ q1 = q
      BY <1>4, <3>1, CallOf DEF Callers, CallTasks, Tasks, ExitTasks
    <3> HIDE DEF w, p, t, s, x, q, e, w1, p1, t1, s1, x1, q1, e1
    <3> QED
      BY <1>1, <1>2, <2>1, <3>2
  <2>3. CASE ~ExitMustFail(r)
    <3>1. Awaits(r, "queue", Head(tasks[r])) /\ Head(tasks[r]) \in {"protocol", "error", "failed"}
      BY <1>18, <2>3 DEF HandleFailure, FailRun, ErrorTasks
    <3>2. call'[r]["queue"] \in {"protocol", "error", "failed"} /\ s1 = s /\ x1 = x /\ e1 = e
      BY <1>4, <2>1, <3>1 DEF Callers, CallTasks
    <3>3. q1 \in {2, 3}
      BY <3>2, CallOf
    <3> HIDE DEF w, p, t, s, x, q, e, w1, p1, t1, s1, x1, q1, e1
    <3> QED
      BY <1>1, <1>2, <2>1, <3>2, <3>3
  <2> QED
    BY <2>2, <2>3
<1>19. CASE HandleSettled(r)
  <2>1. t1 = t - 1 /\ w1 = w /\ p1 = p
    BY <1>3, <1>8, <1>19 DEF HandleSettled
  <2>2. (q1 = 2 \/ q1 = q) /\ s1 = s /\ x1 = x /\ e1 = e
    <3>1. Awaits(r, "queue", "append") \/ UNCHANGED call
      BY <1>19 DEF HandleSettled
    <3> QED
      BY <1>3, <1>4, <3>1, CallOf DEF Callers, CallTasks
  <2> HIDE DEF w, p, t, s, x, q, e, w1, p1, t1, s1, x1, q1, e1
  <2> QED
    BY <1>1, <1>2, <2>1, <2>2
<1>20. ASSUME NEW c \in Callers, TaskDone(r, c) PROVE Left(r)' < Left(r)
  <2>1. w1 = w /\ p1 = p /\ t1 = t /\ c \in {"queue", "exit"} /\ call[r][c] # "idle"
    BY <1>3, <1>20 DEF TaskDone, IsIdle
  <2>2. CASE call[r][c] \in {"completed", "failed"}
    <3>1. c = "queue" /\ Awaits(r, "queue", "append")
      BY <1>6, <1>20, <2>1, <2>2 DEF TaskDone
    <3>2. q = 3
      BY <2>2, <3>1, CallOf
    <3>3. q1 = 2 /\ s1 = s /\ x1 = x /\ e1 = e
      BY <1>4, <3>1, CallOf DEF Callers, CallTasks
    <3> HIDE DEF w, p, t, s, x, q, e, w1, p1, t1, s1, x1, q1, e1
    <3> QED
      BY <1>1, <1>2, <2>1, <3>2, <3>3
  <2>3. CASE call[r][c] \notin {"completed", "failed"}
    <3>1. Returns(r, c)
      BY <1>20, <2>3 DEF TaskDone
    <3>2. CallLeft(call[r][c]) > 0
      BY <2>1, PartsType DEF IsIdle
    <3>3. CallLeft(call'[r][c]) = 0 /\ s1 = s /\ x1 = x /\ (c # "queue" => q1 = q) /\ (c # "exit" => e1 = e)
      BY <1>5, <2>1, <3>1
    <3>4. (q > 0 /\ q1 = 0 /\ e1 = e) \/ (e > 0 /\ e1 = 0 /\ q1 = q)
      BY <2>1, <3>2, <3>3
    <3> HIDE DEF w, p, t, s, x, q, e, w1, p1, t1, s1, x1, q1, e1
    <3> QED
      BY <1>1, <1>2, <2>1, <3>3, <3>4
  <2> QED
    BY <2>2, <2>3
<1>21. ASSUME Recover(r) PROVE q1 \in {0, 1} /\ s1 = s /\ x1 = x /\ e1 = e
  <2>1. Awaits(r, "queue", "recover") \/ Returns(r, "queue")
    BY <1>21 DEF Recover, FailRun
  <2> QED
    BY <1>4, <1>5, <2>1, CallOf DEF Callers, CallTasks
<1>22. ASSUME NEW c \in Callers, WriteFails(r, c) PROVE Left(r)' < Left(r)
  <2>1. w1 = w /\ p1 = p /\ call[r][c] # "idle"
    BY <1>3, <1>22 DEF WriteFails, IsIdle
  <2>2. CASE c \in {"start", "cancel"} /\ Returns(r, c) /\ UNCHANGED tasks
    <3>1. CallLeft(call[r][c]) > 0
      BY <2>1, PartsType DEF IsIdle
    <3>2. CallLeft(call'[r][c]) = 0 /\ q1 = q /\ e1 = e /\ (c # "start" => s1 = s) /\ (c # "cancel" => x1 = x)
      BY <1>5, <2>2
    <3>3. t1 = t /\ ((s > 0 /\ s1 = 0 /\ x1 = x) \/ (x > 0 /\ x1 = 0 /\ s1 = s))
      BY <1>3, <2>2, <3>1, <3>2
    <3> HIDE DEF w, p, t, s, x, q, e, w1, p1, t1, s1, x1, q1, e1
    <3> QED
      BY <1>1, <1>2, <2>1, <3>2, <3>3
  <2>3. CASE call[r][c] \in EventTasks \cup {"append"} /\ Recover(r) /\ UNCHANGED tasks
    <3>1. c = "queue"
      BY <1>6, <2>3 DEF Callers, EventTasks
    <3>2. q \in {2, 3}
      BY <2>3, <3>1, CallOf DEF EventTasks
    <3>3. t1 = t
      BY <1>3, <2>3
    <3>4. q1 \in {0, 1} /\ s1 = s /\ x1 = x /\ e1 = e
      BY <1>21, <2>3
    <3> HIDE DEF w, p, t, s, x, q, e, w1, p1, t1, s1, x1, q1, e1
    <3> QED
      BY <1>1, <1>2, <2>1, <3>2, <3>3, <3>4
  <2>4. CASE /\ Recover(r)
             /\ \E i \in Catches(r) : tasks' = [tasks EXCEPT ![r] = SubSeq(@, i + 1, Len(@))]
    <3>1. PICK i \in DOMAIN tasks[r] : tasks' = [tasks EXCEPT ![r] = SubSeq(@, i + 1, Len(@))]
      BY <2>4 DEF Catches
    <3>2. tasks[r] \in Seq(Tasks) /\ tasks'[r] = SubSeq(tasks[r], i + 1, Len(tasks[r]))
      BY <3>1 DEF BenchTypeOK
    <3>3. i \in 1 .. Len(tasks[r]) /\ Len(tasks[r]) \in Nat
      BY <3>1, <3>2
    <3>4. t1 = Len(tasks[r]) - i
      BY <3>2, <3>3
    <3>5. t1 \in 0 .. (t - 1)
      BY <3>3, <3>4
    <3>6. q1 \in {0, 1} /\ s1 = s /\ x1 = x /\ e1 = e
      BY <1>21, <2>4
    <3> HIDE DEF w, p, t, s, x, q, e, w1, p1, t1, s1, x1, q1, e1
    <3> QED
      BY <1>1, <1>2, <2>1, <3>5, <3>6
  <2> QED
    BY <1>22, <2>2, <2>3, <2>4 DEF WriteFails
<1> HIDE DEF w, p, t, s, x, q, e, w1, p1, t1, s1, x1, q1, e1
<1> QED
  BY <1>10, <1>11, <1>12, <1>13, <1>14, <1>15, <1>16, <1>17, <1>18, <1>19, <1>20, <1>22
     DEF Step, Asked, WriteReturns, HandleTask, Unhandled

(* A restart leaves nothing of any run to come. *)
LEMMA RebootRests ==
  ASSUME BInv, BInv', Reboot, NEW r \in Runs
  PROVE  UNCHANGED <<worker[r], pipe[r], tasks[r], call[r]>> \/ Left(r)' < Left(r)
<1>1. /\ worker'[r] \in {"none", "exited"} /\ (worker[r] = "none" => worker'[r] = "none")
      /\ (worker[r] # "none" => worker'[r] = "exited")
      /\ pipe'[r] = <<>> /\ tasks'[r] = <<>> /\ call'[r] = [c \in Callers |-> "idle"]
  BY DEF Reboot
<1>2. Left(r)' = 0
  <2>1. Left(r)' = WorkerLeft(worker'[r]) + 7 * Len(pipe'[r]) + 6 * Len(tasks'[r])
          + (CallLeft(call'[r]["start"]) + CallLeft(call'[r]["cancel"])
             + CallLeft(call'[r]["queue"]) + CallLeft(call'[r]["exit"]))
    BY DEF Left, Amount
  <2>2. /\ WorkerLeft(worker'[r]) = 0 /\ Len(pipe'[r]) = 0 /\ Len(tasks'[r]) = 0
        /\ \A c \in Callers : CallLeft(call'[r][c]) = 0
    BY <1>1, WorkerOf, CallOf
  <2> QED
    BY <2>1, <2>2 DEF Callers
<1>3. Left(r) \in Nat /\ (Left(r) = 0 <=> Quiet(r))
  BY RestType DEF BInv, RestIsQuiet
<1>4. CASE Quiet(r)
  <2>1. call[r] = [c \in Callers |-> "idle"]
    BY <1>4 DEF Quiet, IsIdle, BInv, BenchTypeOK
  <2> QED
    BY <1>1, <1>4, <2>1 DEF Quiet
<1> QED
  BY <1>2, <1>3, <1>4

(* But for what clients ask and the worker says, every step on a run       *)
(* brings it nearer to the quiet in which QuietRunHasEnded and             *)
(* QuietIsReleased speak, whatever fails and whatever the other runs do: a *)
(* run ends a bounded number of steps after its worker's last line and its *)
(* client's last request.                                                  *)
THEOREM RunsComeToRest == Spec => []RestIsQuiet /\ [][ComesToRest]_vars
<1>1. BInv => RestIsQuiet
  BY RestType DEF BInv
<1>2. ASSUME BInv, BInv', [Next]_vars PROVE ComesToRest
  <2>1. CASE Reboot
    BY <1>2, <2>1, RebootRests DEF ComesToRest
  <2>2. ASSUME NEW r \in Runs, Step(r), ~Reboot PROVE ComesToRest
    <3>1. Others(r)
      BY <1>2, <2>2, StepKept DEF Kept
    <3>2. \A q \in Runs \ {r} : UNCHANGED <<worker[q], pipe[q], tasks[q], call[q]>>
      BY <3>1 DEF Others, Same
    <3>3. Asked(r) \/ Left(r)' < Left(r)
      BY <1>2, <2>2, StepLowers
    <3> QED
      BY <3>2, <3>3 DEF ComesToRest
  <2>3. CASE UNCHANGED vars
    BY <2>3 DEF vars, ComesToRest
  <2> QED
    BY <1>2, <2>1, <2>2, <2>3 DEF Next, Restart
<1>3. Spec => [][ComesToRest]_vars
  BY <1>2, SpecBInv, PTL DEF Spec
<1> QED
  BY <1>1, <1>3, SpecBInv, PTL

===========================================================================
