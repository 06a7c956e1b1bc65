------------------------ MODULE ProcessorWorkerProofs ------------------------
(***************************************************************************)
(* Proofs about the processor worker, for any sets of invocations and of   *)
(* artifacts: its types, the four invariants and the two action properties *)
(* that its run checks, and that it implements ProcessingAuthority.  They  *)
(* rest on one inductive invariant: who is past the lock, what its reads   *)
(* before the lock still say, and what each barrier of process_artifact    *)
(* has established about the current artifact.                             *)
(***************************************************************************)
EXTENDS ProcessorWorker, TLAPS

-----------------------------------------------------------------------------
(* The inductive invariant *)

\* The flock is held by exactly the invocation that is inside its section.
LockHeld == \A w \in Workers : lock = w <=> pc[w] \notin Unlocked

\* An invocation that has not returned has no outcome.
OutcomeLast == \A w \in Workers : pc[w] # "idle" => outcome[w] = "none"

\* A prior state that is read after the beginning finds what was COMPLETE then.
SnapshotLater ==
  \A w \in Workers : \A a \in before[w] :
    job[a] = "COMPLETE" /\ snap[w][a] \in {"unlisted", "COMPLETE"}

\* Whatever an invocation has looked up and has no longer to do is COMPLETE; the
\* artifacts of a returned one have nothing left to do.
FinishedComplete ==
  \A w \in Workers, a \in Artifacts :
    (a \notin todo[w] /\ (pc[w] # "idle" \/ outcome[w] = "pass") /\ snap[w][a] # "unlisted")
      => job[a] = "COMPLETE"

\* What a return leaves: no candidates.
IdleDone == \A w \in Workers : pc[w] = "idle" => todo[w] = {}

ControlInv ==
  LockHeld /\ OutcomeLast /\ SnapshotLater /\ FinishedComplete /\ IdleDone

\* The labels from each barrier on, up to the COMPLETE transaction.
Staging    == {"stage", "aside", "drop", "write", "finish"}
Publishing == {"link", "unlink"}
Paired     == {"pair", "complete"}
Prepared   == {"finals"} \cup Staging \cup Publishing \cup Paired

\* While it stages, the manifest is not there, and the report only where this
\* was noticed; a manifest is staged after its report.
StagingOK(w, a) ==
  /\ final["manifest"][a] = "absent"
  /\ final["report"][a] = IF report_is_final[w] THEN "exact" ELSE "absent"
  /\ kind[w] = "report" => ~ report_is_final[w]
  /\ (kind[w] = "manifest" /\ ~ report_is_final[w]) => partial["report"][a] = "exact"
  /\ pc[w] = "aside" => partial[kind[w]][a] = "half"
  /\ pc[w] = "drop" => partial[kind[w]][a] = "half" /\ <<kind[w], a>> \in quarantine
  /\ pc[w] = "write" => partial[kind[w]][a] = "absent"

\* While it publishes, what is not linked yet is staged, report before manifest.
PublishingOK(w, a) ==
  /\ partial[kind[w]][a] = "exact"
  /\ final[kind[w]][a] = IF pc[w] = "link" THEN "absent" ELSE "exact"
  /\ kind[w] = "report" => partial["manifest"][a] = "exact" /\ final["manifest"][a] = "absent"
  /\ kind[w] = "manifest" => final["report"][a] = "exact"

\* What the lock's holder may rely on at its barrier.
Barrier(w, a) ==
  /\ pc[w] = "prepare" => assertions[a] = 1 /\ job[a] # "COMPLETE"
  /\ pc[w] \in Prepared => assertions[a] = 1 /\ job[a] = "PREPARED"
  /\ pc[w] \in Staging => StagingOK(w, a)
  /\ pc[w] \in Publishing => PublishingOK(w, a)
  /\ pc[w] \in Paired => PairExact(a)

BarriersHold == \A w \in Workers, a \in Artifacts : Current(w, a) => Barrier(w, a)

\* Files without regard to who works on them: a published name has no unfinished
\* partial beside it, and a COMPLETE job has its pair.
FilesOK ==
  /\ \A k \in Kinds, a \in Artifacts : final[k][a] # "absent" => partial[k][a] # "half"
  /\ \A a \in Artifacts : job[a] = "COMPLETE" => PairExact(a)

ProcessorInv == ProcessorTypeOK /\ ControlInv /\ BarriersHold /\ FilesOK

-----------------------------------------------------------------------------
(* Types *)

\* A return or an exception leaves well-typed locals behind.
LEMMA LeaveType ==
  ASSUME ProcessorTypeOK, NEW w \in Workers, NEW how \in Findings \cup {"pass", "deferred", "crashed"},
         NEW shot \in Prior, Leave(w, how, shot)
  PROVE  /\ pc' \in [Workers -> Labels] /\ kind' \in [Workers -> Kinds]
         /\ report_is_final' \in [Workers -> BOOLEAN] /\ snap' \in [Workers -> Prior]
         /\ todo' \in [Workers -> SUBSET Artifacts] /\ before' \in [Workers -> SUBSET Artifacts]
         /\ outcome' \in [Workers -> Findings \cup {"none", "pass", "deferred", "crashed"}]
  BY DEF ProcessorTypeOK, Leave, Forget, Goto, Labels, Unlocked, Kinds

LEMMA NothingPrior == Nothing \in Prior
  BY DEF Nothing, Prior

LEMMA RaiseType ==
  ASSUME ProcessorTypeOK, NEW w \in Workers, NEW f \in Findings \cup {"crashed"}, Raise(w, f),
         UNCHANGED <<assertions, job, fileVars, approved>>
  PROVE  ProcessorTypeOK'
<1>1. Leave(w, f, Nothing) /\ lock' \in {lock, "free"}
  BY DEF Raise, Unlock
<1> QED
  BY <1>1, LeaveType, NothingPrior DEF ProcessorTypeOK, fileVars

\* The calls of run() and run_exact() that do not raise.
LEMMA RunType ==
  ASSUME ProcessorTypeOK, NEW w \in Workers,
         \/ Snapshot(w) \/ BeginExact(w) \/ TakeLock(w) \/ Defer(w) \/ RunEnd(w)
         \/ /\ \E a \in Artifacts : NotePrior(w, a)
            /\ UNCHANGED <<assertions, job, fileVars, approved>>
  PROVE  ProcessorTypeOK'
<1>1. CASE Snapshot(w) \/ BeginExact(w)
  <2>1. PICK S \in SUBSET Artifacts, l \in Labels : BeginWith(w, S, l)
    BY <1>1 DEF Snapshot, BeginExact, Eligible, Listed, Labels, Unlocked
  <2> QED
    BY <2>1, NothingPrior DEF BeginWith, ProcessorTypeOK, Goto, fileVars
<1>2. CASE TakeLock(w)
  BY <1>2 DEF TakeLock, ProcessorTypeOK, Goto, Labels, fileVars, ctlVars
<1>3. CASE Defer(w)
  BY <1>3, LeaveType, NothingPrior DEF Defer, ProcessorTypeOK, fileVars
<1>4. CASE RunEnd(w)
  <2>1. snap[w] \in Prior
    BY DEF ProcessorTypeOK
  <2> QED
    BY <1>4, <2>1, LeaveType DEF RunEnd, ProcessorTypeOK, fileVars
<1>5. ASSUME NEW a \in Artifacts, NotePrior(w, a), UNCHANGED <<assertions, job, fileVars, approved>>
      PROVE  ProcessorTypeOK'
  <2>1. job[a] \in JobStates /\ snap[w] \in Prior
    BY DEF ProcessorTypeOK
  <2>2. [snap[w] EXCEPT ![a] = job[a]] \in Prior
    BY <2>1 DEF Prior
  <2>3. snap' \in [Workers -> Prior]
    BY <1>5, <2>2 DEF NotePrior, ProcessorTypeOK
  <2>4. pc' \in [Workers -> Labels]
    BY <1>5 DEF NotePrior, Goto, ProcessorTypeOK, Labels, Unlocked
  <2> QED
    BY <1>5, <2>3, <2>4 DEF NotePrior, ProcessorTypeOK, fileVars
<1> QED
  BY <1>1, <1>2, <1>3, <1>4, <1>5

-----------------------------------------------------------------------------
(* What every step of the lock's holder has in common *)

\* A candidate has one place in the order.
LEMMA CurrentOne ==
  ASSUME ProcessorTypeOK, NEW w \in Workers, NEW a \in Artifacts, NEW b \in Artifacts,
         Current(w, a), Current(w, b)
  PROVE  a = b
  BY ProcessorAssumption DEF Current

\* The lock keeps everybody else out of process_artifact.
LEMMA OneHolder ==
  ASSUME LockHeld, NEW w \in Workers, NEW v \in Workers,
         pc[w] \notin Unlocked, pc[v] \notin Unlocked
  PROVE  v = w
  BY DEF LockHeld

\* The holder goes on to another barrier of the same artifact.
Moves(w, a, l) ==
  /\ Current(w, a)
  /\ pc[w] \notin Unlocked
  /\ Goto(w, l)
  /\ kind' \in [Workers -> Kinds]
  /\ report_is_final' \in [Workers -> BOOLEAN]
  /\ UNCHANGED <<assertions, approved, lock, snap, todo, before, outcome>>

\* What it may do to the files and to the job meanwhile.
DataTyped ==
  /\ job' \in [Artifacts -> JobStates]
  /\ final' \in [Kinds -> [Artifacts -> {"absent", "exact", "wrong"}]]
  /\ partial' \in [Kinds -> [Artifacts -> {"absent", "half", "exact"}]]
  /\ quarantine' \subseteq Kinds \X Artifacts

LEMMA MoveControl ==
  ASSUME ProcessorTypeOK, ControlInv, NEW w \in Workers, NEW a \in Artifacts,
         NEW l \in Labels \ Unlocked, Moves(w, a, l),
         \A b \in Artifacts : job[b] = "COMPLETE" => job'[b] = "COMPLETE"
  PROVE  ControlInv'
<1>1. /\ pc' = [pc EXCEPT ![w] = l] /\ pc \in [Workers -> Labels]
      /\ l \notin Unlocked /\ pc[w] \notin Unlocked
  BY DEF Moves, Goto, ProcessorTypeOK
<1>2. \A v \in Workers : /\ pc[v] \notin Unlocked <=> pc'[v] \notin Unlocked
                         /\ pc[v] = "idle" <=> pc'[v] = "idle"
  BY <1>1 DEF Unlocked
<1>3. LockHeld' /\ OutcomeLast' /\ IdleDone'
  BY <1>2 DEF Moves, ControlInv, LockHeld, OutcomeLast, IdleDone
<1>4. SnapshotLater'
  BY DEF Moves, ControlInv, SnapshotLater, ProcessorTypeOK
<1>5. FinishedComplete'
  BY <1>2 DEF Moves, ControlInv, FinishedComplete
<1> QED
  BY <1>3, <1>4, <1>5 DEF ControlInv

\* What remains to be shown of such a step is what its barrier establishes.
LEMMA MoveKeeps ==
  ASSUME ProcessorInv, NEW w \in Workers, NEW a \in Artifacts,
         NEW l \in Labels \ Unlocked, Moves(w, a, l), DataTyped,
         \A b \in Artifacts : job[b] = "COMPLETE" => job'[b] = "COMPLETE",
         Barrier(w, a)', FilesOK'
  PROVE  ProcessorInv'
<1>1. ProcessorTypeOK'
  BY DEF Moves, Goto, DataTyped, ProcessorInv, ProcessorTypeOK
<1>2. ControlInv'
  BY MoveControl DEF ProcessorInv
<1>3. ASSUME NEW v \in Workers, NEW b \in Artifacts, Current(v, b)'
      PROVE  Barrier(v, b)'
  <2>1. Current(v, b)
    BY <1>3 DEF Current, Moves
  <2>2. CASE v = w
    BY <2>1, <2>2, CurrentOne DEF Moves, ProcessorInv
  <2>3. CASE v # w
    <3>1. pc[v] \in Unlocked /\ pc'[v] = pc[v]
      BY <2>3, OneHolder DEF Moves, Goto, ProcessorInv, ControlInv, ProcessorTypeOK
    <3> QED
      BY <3>1 DEF Barrier, Unlocked, Prepared, Staging, Publishing, Paired
  <2> QED
    BY <2>2, <2>3
<1> QED
  BY <1>1, <1>2, <1>3 DEF ProcessorInv, BarriersHold

\* An exception, a refusal or a crash leaves nothing to rely on.
LEMMA RaiseKeeps ==
  ASSUME ProcessorInv, NEW w \in Workers, NEW f \in Findings \cup {"crashed"}, Raise(w, f),
         UNCHANGED <<assertions, job, fileVars, approved>>
  PROVE  ProcessorInv'
<1> USE DEF ProcessorInv
<1>1. ProcessorTypeOK'
  BY RaiseType
<1>2. /\ pc' = [pc EXCEPT ![w] = "idle"] /\ outcome' = [outcome EXCEPT ![w] = f]
      /\ snap' = [snap EXCEPT ![w] = Nothing] /\ todo' = [todo EXCEPT ![w] = {}]
      /\ before' = [before EXCEPT ![w] = {}] /\ f # "pass"
      /\ kind' = [kind EXCEPT ![w] = "report"]
      /\ report_is_final' = [report_is_final EXCEPT ![w] = FALSE]
      /\ lock' = IF lock = w THEN "free" ELSE lock
  BY DEF Raise, Leave, Goto, Unlock, Forget, Findings, ProcessorTypeOK
<1>3. LockHeld'
  BY <1>2, ProcessorAssumption DEF ControlInv, LockHeld, ProcessorTypeOK, Unlocked
<1>4. OutcomeLast' /\ IdleDone'
  BY <1>2 DEF ControlInv, OutcomeLast, IdleDone, ProcessorTypeOK
<1>5. SnapshotLater'
  BY <1>2 DEF ControlInv, SnapshotLater, ProcessorTypeOK
<1>6. FinishedComplete'
  BY <1>2 DEF ControlInv, FinishedComplete, ProcessorTypeOK
<1>7. BarriersHold'
  <2> SUFFICES ASSUME NEW v \in Workers, NEW b \in Artifacts, Current(v, b)'
               PROVE  Barrier(v, b)'
    BY DEF BarriersHold
  <2>1. CASE v = w
    BY <1>2, <2>1 DEF Barrier, Prepared, Staging, Publishing, Paired, ProcessorTypeOK
  <2>2. CASE v # w
    BY <1>2, <2>2 DEF BarriersHold, Current, Barrier, StagingOK, PublishingOK, PairExact,
       ProcessorTypeOK, fileVars
  <2> QED
    BY <2>1, <2>2
<1>8. FilesOK'
  BY DEF FilesOK, PairExact, fileVars
<1> QED
  BY <1>1, <1>3, <1>4, <1>5, <1>6, <1>7, <1>8 DEF ControlInv

-----------------------------------------------------------------------------
(* run() and run_exact() keep the invariant *)

\* What the control steps have in common: the data stays, and so does whatever
\* the holder of the lock relies on, unless it is the one that moves.
LEMMA OutsideKeeps ==
  ASSUME ProcessorInv, NEW w \in Workers, ProcessorTypeOK', ControlInv',
         UNCHANGED <<assertions, job, fileVars>>,
         \A v \in Workers : v # w => pc'[v] = pc[v] /\ kind'[v] = kind[v] /\ todo'[v] = todo[v]
                                     /\ report_is_final'[v] = report_is_final[v],
         pc'[w] \in Unlocked \cup {"gate"}
  PROVE  ProcessorInv'
<1>1. BarriersHold'
  <2> SUFFICES ASSUME NEW v \in Workers, NEW b \in Artifacts, Current(v, b)'
               PROVE  Barrier(v, b)'
    BY DEF BarriersHold
  <2>1. CASE v = w
    BY <2>1 DEF Barrier, Unlocked, Prepared, Staging, Publishing, Paired
  <2>2. CASE v # w
    <3>1. Barrier(v, b)
      BY <2>2 DEF ProcessorInv, BarriersHold, Current
    <3> QED
      BY <2>2, <3>1 DEF Barrier, StagingOK, PublishingOK, PairExact, fileVars
  <2> QED
    BY <2>1, <2>2
<1>2. FilesOK'
  BY DEF ProcessorInv, FilesOK, PairExact, fileVars
<1> QED
  BY <1>1, <1>2 DEF ProcessorInv

LEMMA BeginKeeps ==
  ASSUME ProcessorInv, NEW w \in Workers, Snapshot(w) \/ BeginExact(w)
  PROVE  ProcessorInv'
<1> USE DEF ProcessorInv
<1>1. ProcessorTypeOK'
  BY RunType
<1>2. PICK S \in SUBSET Artifacts, l \in {"loop", "states", "entries"} : BeginWith(w, S, l)
  BY DEF Snapshot, BeginExact, Eligible, Listed
<1>3. /\ pc[w] = "idle" /\ pc' = [pc EXCEPT ![w] = l] /\ UNCHANGED <<job, lock>>
      /\ snap' = [snap EXCEPT ![w] = Nothing] /\ todo' = [todo EXCEPT ![w] = S]
      /\ before' = [before EXCEPT ![w] = {a \in Artifacts : job[a] = "COMPLETE"}]
      /\ outcome' = [outcome EXCEPT ![w] = "none"]
  BY <1>2 DEF BeginWith, Goto
<1>4. LockHeld' /\ OutcomeLast' /\ IdleDone'
  BY <1>3 DEF ControlInv, LockHeld, OutcomeLast, IdleDone, ProcessorTypeOK, Unlocked
<1>5. SnapshotLater'
  BY <1>3 DEF ControlInv, SnapshotLater, ProcessorTypeOK, Nothing
<1>6. FinishedComplete'
  BY <1>3 DEF ControlInv, FinishedComplete, ProcessorTypeOK, Nothing
<1>7. ControlInv'
  BY <1>4, <1>5, <1>6 DEF ControlInv
<1> QED
  BY <1>1, <1>2, <1>3, <1>7, OutsideKeeps DEF BeginWith, Unlocked, ProcessorTypeOK

LEMMA NoteKeeps ==
  ASSUME ProcessorInv, NEW w \in Workers, pc[w] \in {"states", "entries"}, NEW a \in Artifacts,
         Unread(w, a), NotePrior(w, a), UNCHANGED <<assertions, job, fileVars, approved>>
  PROVE  ProcessorInv'
<1> USE DEF ProcessorInv
<1>1. ProcessorTypeOK'
  BY RunType
<1>2. /\ snap' = [snap EXCEPT ![w][a] = job[a]]
      /\ pc' = [pc EXCEPT ![w] = IF todo[w] \ Listed(snap[w]) = {a} THEN "loop" ELSE pc[w]]
      /\ UNCHANGED <<lock, kind, report_is_final, todo, before, outcome, job>>
      /\ a \in todo[w]
  BY DEF NotePrior, Goto, Unread
<1>3. LockHeld' /\ OutcomeLast' /\ IdleDone'
  BY <1>2 DEF ControlInv, LockHeld, OutcomeLast, IdleDone, ProcessorTypeOK, Unlocked
<1>4. snap \in [Workers -> [Artifacts -> JobStates \cup {"unlisted"}]]
  BY DEF ProcessorTypeOK, Prior
<1>5. SnapshotLater'
  BY <1>2, <1>4 DEF ControlInv, SnapshotLater, ProcessorTypeOK
<1>6. FinishedComplete'
  BY <1>2, <1>4 DEF ControlInv, FinishedComplete, ProcessorTypeOK
<1>7. ControlInv'
  BY <1>3, <1>5, <1>6 DEF ControlInv
<1>8. /\ pc'[w] \in Unlocked \cup {"gate"}
      /\ \A v \in Workers : v # w => pc'[v] = pc[v] /\ kind'[v] = kind[v] /\ todo'[v] = todo[v]
                                     /\ report_is_final'[v] = report_is_final[v]
  BY <1>2 DEF ProcessorTypeOK, Unlocked
<1> QED
  BY <1>1, <1>7, <1>8, OutsideKeeps

LEMMA LoopKeeps ==
  ASSUME ProcessorInv, NEW w \in Workers, TakeLock(w) \/ Defer(w) \/ RunEnd(w)
  PROVE  ProcessorInv'
<1> USE DEF ProcessorInv
<1>1. ProcessorTypeOK'
  BY RunType
<1>2. CASE TakeLock(w)
  <2>1. LockHeld'
    BY <1>2, ProcessorAssumption
    DEF TakeLock, Goto, ControlInv, LockHeld, ProcessorTypeOK, Unlocked
  <2>2. OutcomeLast' /\ IdleDone' /\ SnapshotLater' /\ FinishedComplete'
    BY <1>2 DEF TakeLock, Goto, ctlVars, ControlInv, OutcomeLast, IdleDone, SnapshotLater,
       FinishedComplete, ProcessorTypeOK
  <2> QED
    BY <1>1, <1>2, <2>1, <2>2, OutsideKeeps
    DEF TakeLock, Goto, ctlVars, ControlInv, ProcessorTypeOK
<1>3. CASE Defer(w) \/ RunEnd(w)
  <2>1. PICK how \in {"pass", "deferred"}, shot \in Prior :
          /\ pc' = [pc EXCEPT ![w] = "idle"] /\ outcome' = [outcome EXCEPT ![w] = how]
          /\ snap' = [snap EXCEPT ![w] = shot] /\ todo' = [todo EXCEPT ![w] = {}]
          /\ before' = [before EXCEPT ![w] = IF how = "pass" THEN before[w] ELSE {}]
          /\ how = "pass" => shot = snap[w] /\ todo[w] = {}
    BY <1>3, NothingPrior DEF Defer, RunEnd, Leave, Goto, ProcessorTypeOK
  <2>2. pc[w] = "loop" /\ UNCHANGED <<lock, assertions, job, fileVars>>
    BY <1>3 DEF Defer, RunEnd
  <2>3. LockHeld' /\ OutcomeLast' /\ IdleDone'
    BY <2>1, <2>2 DEF ControlInv, LockHeld, OutcomeLast, IdleDone, ProcessorTypeOK, Unlocked
  <2>4. SnapshotLater'
    BY <2>1, <2>2 DEF ControlInv, SnapshotLater, ProcessorTypeOK
  <2>5. FinishedComplete'
    BY <2>1, <2>2 DEF ControlInv, FinishedComplete, ProcessorTypeOK
  <2>6. \A v \in Workers : v # w => pc'[v] = pc[v] /\ kind'[v] = kind[v] /\ todo'[v] = todo[v]
                                     /\ report_is_final'[v] = report_is_final[v]
    BY <1>3 DEF Defer, RunEnd, Leave, Goto, Forget, ProcessorTypeOK
  <2>7. pc'[w] \in Unlocked \cup {"gate"}
    BY <2>1 DEF ProcessorTypeOK, Unlocked
  <2> QED
    BY <1>1, <2>2, <2>3, <2>4, <2>5, <2>6, <2>7, OutsideKeeps DEF ControlInv
<1> QED
  BY <1>2, <1>3

-----------------------------------------------------------------------------
(* process_artifact() keeps the invariant, barrier by barrier *)

\* A finding leaves run() as an exception.
LEMMA FindingKeeps ==
  ASSUME ProcessorInv, NEW w \in Workers, NEW f \in Findings \cup {"crashed"}, Raise(w, f),
         UNCHANGED <<approved, assertions, job, fileVars>>
  PROVE  ProcessorInv'
  BY RaiseKeeps

LEMMA GateKeeps ==
  ASSUME ProcessorInv, NEW w \in Workers, Gate(w)
  PROVE  ProcessorInv'
<1> USE DEF ProcessorInv
<1>1. PICK a \in Artifacts :
         /\ Current(w, a)
         /\ \/ job[a] = "COMPLETE" /\ Proceed(w, "reread")
            \/ job[a] # "COMPLETE" /\ assertions[a] = 1 /\ Proceed(w, "prepare")
            \/ Raise(w, "processing_identity_conflict")
  BY DEF Gate
<1>2. pc[w] = "gate" /\ UNCHANGED <<approved, assertions, job, fileVars>>
  BY DEF Gate
<1>3. CASE Raise(w, "processing_identity_conflict")
  BY <1>2, <1>3, FindingKeeps DEF Findings
<1>4. ASSUME NEW l \in {"reread", "prepare"}, Proceed(w, l),
             l = "prepare" => job[a] # "COMPLETE" /\ assertions[a] = 1
      PROVE  ProcessorInv'
  <2>1. l \in Labels \ Unlocked /\ Moves(w, a, l) /\ DataTyped
    BY <1>1, <1>2, <1>4
    DEF Moves, Proceed, ctlVars, fileVars, Labels, Unlocked, DataTyped, ProcessorTypeOK
  <2>2. Barrier(w, a)'
    BY <1>2, <1>4 DEF Proceed, Goto, Barrier, Prepared, Staging, Publishing, Paired,
       ProcessorTypeOK
  <2>3. FilesOK'
    BY <1>2 DEF FilesOK, PairExact, fileVars
  <2> QED
    BY <1>2, <2>1, <2>2, <2>3, MoveKeeps
<1> QED
  BY <1>1, <1>3, <1>4

LEMMA PrepareKeeps ==
  ASSUME ProcessorInv, NEW w \in Workers, Prepare(w)
  PROVE  ProcessorInv'
<1> USE DEF ProcessorInv
<1>1. PICK a \in Artifacts :
         /\ Current(w, a)
         /\ job' = [job EXCEPT ![a] = IF @ = "MISSING" THEN "PREPARED" ELSE @]
  BY DEF Prepare
<1>2. /\ pc[w] = "prepare" /\ Proceed(w, "finals")
      /\ UNCHANGED <<approved, assertions, fileVars>>
  BY DEF Prepare
<1>3. Moves(w, a, "finals") /\ "finals" \in Labels \ Unlocked /\ DataTyped
  BY <1>1, <1>2
  DEF Moves, Proceed, ctlVars, fileVars, Labels, Unlocked, DataTyped, ProcessorTypeOK, JobStates
<1>4. assertions[a] = 1 /\ job[a] # "COMPLETE"
  BY <1>1, <1>2 DEF BarriersHold, Barrier
<1>5. Barrier(w, a)'
  BY <1>1, <1>2, <1>4 DEF Proceed, Goto, Barrier, Prepared, Staging, Publishing, Paired,
     ProcessorTypeOK, JobStates
<1>6. \A b \in Artifacts : job'[b] = "COMPLETE" <=> job[b] = "COMPLETE"
  BY <1>1 DEF ProcessorTypeOK
<1>7. FilesOK'
  BY <1>2, <1>6 DEF FilesOK, PairExact, fileVars
<1> QED
  BY <1>3, <1>5, <1>6, <1>7, MoveKeeps

LEMMA FinalsKeeps ==
  ASSUME ProcessorInv, NEW w \in Workers, InspectFinals(w)
  PROVE  ProcessorInv'
<1> USE DEF ProcessorInv
<1>1. PICK a \in Artifacts :
         /\ Current(w, a)
         /\ \/ PairExact(a) /\ Proceed(w, "pair")
            \/ /\ final["manifest"][a] = "absent" /\ final["report"][a] # "wrong"
               /\ report_is_final' = [report_is_final EXCEPT ![w] = final["report"][a] = "exact"]
               /\ kind' = [kind EXCEPT ![w] = IF final["report"][a] = "exact"
                                               THEN "manifest" ELSE "report"]
               /\ Goto(w, "stage")
               /\ UNCHANGED <<lock, snap, todo, before, outcome>>
            \/ Raise(w, "processing_evidence_failure")
  BY DEF InspectFinals
<1>2. pc[w] = "finals" /\ UNCHANGED <<approved, assertions, job, fileVars>>
  BY DEF InspectFinals
<1>3. CASE Raise(w, "processing_evidence_failure")
  BY <1>2, <1>3, FindingKeeps DEF Findings
<1>4. assertions[a] = 1 /\ job[a] = "PREPARED"
  BY <1>1, <1>2 DEF BarriersHold, Barrier, Prepared
<1>5. FilesOK'
  BY <1>2 DEF FilesOK, PairExact, fileVars
<1>6. CASE PairExact(a) /\ Proceed(w, "pair")
  <2>1. Moves(w, a, "pair") /\ "pair" \in Labels \ Unlocked /\ DataTyped
    BY <1>1, <1>2, <1>6
    DEF Moves, Proceed, ctlVars, fileVars, Labels, Unlocked, DataTyped, ProcessorTypeOK
  <2>2. Barrier(w, a)'
    BY <1>2, <1>4, <1>6 DEF Proceed, Goto, Barrier, Prepared, Staging, Publishing, Paired,
       ProcessorTypeOK, PairExact, fileVars
  <2> QED
    BY <1>2, <1>5, <2>1, <2>2, MoveKeeps
<1>7. CASE /\ final["manifest"][a] = "absent" /\ final["report"][a] # "wrong"
           /\ report_is_final' = [report_is_final EXCEPT ![w] = final["report"][a] = "exact"]
           /\ kind' = [kind EXCEPT ![w] = IF final["report"][a] = "exact"
                                           THEN "manifest" ELSE "report"]
           /\ Goto(w, "stage")
           /\ UNCHANGED <<lock, snap, todo, before, outcome>>
  <2>1. /\ kind'[w] = IF final["report"][a] = "exact" THEN "manifest" ELSE "report"
        /\ report_is_final'[w] = (final["report"][a] = "exact")
        /\ kind' \in [Workers -> Kinds] /\ report_is_final' \in [Workers -> BOOLEAN]
        /\ pc'[w] = "stage"
    BY <1>7 DEF Goto, ProcessorTypeOK, Kinds
  <2>2. Moves(w, a, "stage") /\ "stage" \in Labels \ Unlocked /\ DataTyped
    BY <1>1, <1>2, <1>7, <2>1
    DEF Moves, fileVars, Labels, Unlocked, DataTyped, ProcessorTypeOK
  <2>3. final["report"][a] \in {"absent", "exact", "wrong"}
    BY DEF ProcessorTypeOK, Kinds
  <2>4. StagingOK(w, a)'
    BY <1>2, <1>7, <2>1, <2>3 DEF StagingOK, fileVars
  <2>5. Barrier(w, a)'
    BY <1>2, <1>4, <2>1, <2>4 DEF Barrier, Prepared, Staging, Publishing, Paired
  <2> QED
    BY <1>2, <1>5, <2>2, <2>5, MoveKeeps
<1> QED
  BY <1>1, <1>3, <1>6, <1>7

\* The two ways on from a complete partial: the other kind, or publication.
LEMMA StagedKeeps ==
  ASSUME ProcessorInv, NEW w \in Workers, NEW a \in Artifacts, Current(w, a),
         pc[w] \in {"stage", "finish"}, Staged(w),
         partial' = [partial EXCEPT ![kind[w]][a] = "exact"],
         UNCHANGED <<approved, assertions, job, final, quarantine>>
  PROVE  ProcessorInv'
<1> USE DEF ProcessorInv
<1>1. assertions[a] = 1 /\ job[a] = "PREPARED" /\ StagingOK(w, a) /\ kind[w] \in Kinds
  BY DEF BarriersHold, Barrier, Prepared, Staging, ProcessorTypeOK
<1>2. DataTyped
  BY <1>1 DEF DataTyped, ProcessorTypeOK
<1>3. /\ partial'[kind[w]][a] = "exact"
      /\ \A k \in Kinds, b \in Artifacts : partial'[k][b] \in {partial[k][b], "exact"}
      /\ \A k \in Kinds, b \in Artifacts : k # kind[w] => partial'[k][b] = partial[k][b]
  BY <1>1 DEF ProcessorTypeOK
<1>4. FilesOK'
  BY <1>3 DEF FilesOK, PairExact
<1>5. CASE kind[w] = "report"
  <2>1. ProceedWith(w, "stage", "manifest")
    BY <1>5 DEF Staged
  <2>2. /\ pc'[w] = "stage" /\ kind'[w] = "manifest" /\ kind' \in [Workers -> Kinds]
        /\ report_is_final' = report_is_final /\ Goto(w, "stage")
    BY <2>1 DEF ProceedWith, Goto, ProcessorTypeOK, Kinds
  <2>3. Moves(w, a, "stage") /\ "stage" \in Labels \ Unlocked
    BY <2>1, <2>2 DEF Moves, ProceedWith, Labels, Unlocked, ProcessorTypeOK
  <2>4. StagingOK(w, a)'
    BY <1>1, <1>3, <1>5, <2>2 DEF StagingOK
  <2>5. Barrier(w, a)'
    BY <1>1, <2>2, <2>4 DEF Barrier, Prepared, Staging, Publishing, Paired
  <2> QED
    BY <1>2, <1>4, <2>3, <2>5, MoveKeeps
<1>6. CASE kind[w] = "manifest"
  <2>1. ProceedWith(w, "link", FirstPublished(w))
    BY <1>6 DEF Staged
  <2>2. /\ pc'[w] = "link" /\ kind'[w] = IF report_is_final[w] THEN "manifest" ELSE "report"
        /\ kind' \in [Workers -> Kinds] /\ report_is_final' = report_is_final
        /\ Goto(w, "link")
    BY <2>1 DEF ProceedWith, FirstPublished, Goto, ProcessorTypeOK, Kinds
  <2>3. Moves(w, a, "link") /\ "link" \in Labels \ Unlocked
    BY <2>1, <2>2 DEF Moves, ProceedWith, Labels, Unlocked, ProcessorTypeOK
  <2>4. PublishingOK(w, a)'
    <3>1. \/ report_is_final[w] /\ kind'[w] = "manifest"
          \/ ~ report_is_final[w] /\ kind'[w] = "report" /\ partial["report"][a] = "exact"
      BY <1>1, <1>6, <2>2 DEF StagingOK
    <3>2. partial'["report"][a] = partial["report"][a] /\ partial'["manifest"][a] = "exact"
      BY <1>3, <1>6 DEF Kinds
    <3> QED
      BY <1>1, <2>2, <3>1, <3>2 DEF StagingOK, PublishingOK
  <2>5. Barrier(w, a)'
    BY <1>1, <2>2, <2>4 DEF Barrier, Prepared, Staging, Publishing, Paired
  <2> QED
    BY <1>2, <1>4, <2>3, <2>5, MoveKeeps
<1> QED
  BY <1>1, <1>5, <1>6 DEF Kinds

LEMMA StageKeeps ==
  ASSUME ProcessorInv, NEW w \in Workers, Stage(w)
  PROVE  ProcessorInv'
<1> USE DEF ProcessorInv
<1>1. PICK a \in Artifacts :
         /\ Current(w, a)
         /\ \/ partial[kind[w]][a] = "exact"  /\ Staged(w)
            \/ partial[kind[w]][a] = "half"   /\ Proceed(w, "aside")
            \/ partial[kind[w]][a] = "absent" /\ Proceed(w, "write")
  BY DEF Stage
<1>2. pc[w] = "stage" /\ UNCHANGED <<approved, assertions, job, final, partial, quarantine>>
  BY DEF Stage, fileVars
<1>3. kind[w] \in Kinds /\ assertions[a] = 1 /\ job[a] = "PREPARED" /\ StagingOK(w, a)
  BY <1>1, <1>2 DEF BarriersHold, Barrier, Prepared, Staging, ProcessorTypeOK
<1>4. CASE partial[kind[w]][a] = "exact" /\ Staged(w)
  <2>1. partial' = [partial EXCEPT ![kind[w]][a] = "exact"]
    BY <1>2, <1>3, <1>4 DEF ProcessorTypeOK
  <2> QED
    BY <1>1, <1>2, <1>4, <2>1, StagedKeeps
<1>5. ASSUME NEW l \in {"aside", "write"}, Proceed(w, l),
             partial[kind[w]][a] = IF l = "aside" THEN "half" ELSE "absent"
      PROVE  ProcessorInv'
  <2>1. pc'[w] = l /\ UNCHANGED <<kind, report_is_final>>
    BY <1>5 DEF Proceed, Goto, ctlVars, ProcessorTypeOK
  <2>2. Moves(w, a, l) /\ l \in Labels \ Unlocked /\ DataTyped
    BY <1>1, <1>2, <1>5
    DEF Moves, Proceed, ctlVars, Labels, Unlocked, DataTyped, ProcessorTypeOK
  <2>3. StagingOK(w, a)'
    BY <1>2, <1>3, <1>5, <2>1 DEF StagingOK
  <2>4. Barrier(w, a)'
    BY <1>2, <1>3, <1>5, <2>1, <2>3 DEF Barrier, Prepared, Staging, Publishing, Paired
  <2>5. FilesOK'
    BY <1>2 DEF FilesOK, PairExact
  <2> QED
    BY <1>2, <2>2, <2>4, <2>5, MoveKeeps
<1> QED
  BY <1>1, <1>4, <1>5

LEMMA QuarantineKeepsInv ==
  ASSUME ProcessorInv, NEW w \in Workers, QuarantineLink(w) \/ QuarantineUnlink(w)
  PROVE  ProcessorInv'
<1> USE DEF ProcessorInv
<1>1. PICK a \in Artifacts :
         /\ Current(w, a)
         /\ \/ /\ pc[w] = "aside" /\ Proceed(w, "drop")
               /\ quarantine' = quarantine \cup {<<kind[w], a>>} /\ UNCHANGED partial
            \/ /\ pc[w] = "drop" /\ Proceed(w, "write")
               /\ partial' = [partial EXCEPT ![kind[w]][a] = "absent"]
               /\ UNCHANGED quarantine
  BY DEF QuarantineLink, QuarantineUnlink
<1>2. UNCHANGED <<approved, assertions, job, final>>
  BY DEF QuarantineLink, QuarantineUnlink
<1>3. kind[w] \in Kinds /\ assertions[a] = 1 /\ job[a] = "PREPARED" /\ StagingOK(w, a)
  BY <1>1 DEF BarriersHold, Barrier, Prepared, Staging, ProcessorTypeOK
<1>4. DataTyped
  <2>1. partial' \in [Kinds -> [Artifacts -> {"absent", "half", "exact"}]]
    <3>1. CASE UNCHANGED partial
      BY <3>1 DEF ProcessorTypeOK
    <3>2. CASE partial' = [partial EXCEPT ![kind[w]][a] = "absent"]
      BY <1>3, <3>2 DEF ProcessorTypeOK
    <3> QED
      BY <1>1, <3>1, <3>2
  <2>2. quarantine' \subseteq Kinds \X Artifacts
    BY <1>1, <1>3 DEF ProcessorTypeOK
  <2> QED
    BY <1>2, <2>1, <2>2 DEF DataTyped, ProcessorTypeOK
<1>5. \A k \in Kinds, b \in Artifacts : /\ k # kind[w] => partial'[k][b] = partial[k][b]
                                        /\ partial'[k][b] = "half" => partial[k][b] = "half"
  BY <1>1, <1>3 DEF ProcessorTypeOK
<1>6. FilesOK'
  BY <1>2, <1>5 DEF FilesOK, PairExact
<1>7. PICK l \in {"drop", "write"} :
         /\ Proceed(w, l)
         /\ l = "drop" => partial'[kind[w]][a] = "half" /\ <<kind[w], a>> \in quarantine'
         /\ l = "write" => partial'[kind[w]][a] = "absent"
  BY <1>1, <1>3 DEF StagingOK, ProcessorTypeOK
<1>8. pc'[w] = l /\ UNCHANGED <<kind, report_is_final>>
  BY <1>7 DEF Proceed, Goto, ctlVars, ProcessorTypeOK
<1>9. Moves(w, a, l) /\ l \in Labels \ Unlocked
  BY <1>1, <1>2, <1>7 DEF Moves, Proceed, ctlVars, Labels, Unlocked, ProcessorTypeOK
<1>10. StagingOK(w, a)'
  BY <1>2, <1>3, <1>5, <1>7, <1>8 DEF StagingOK, Kinds
<1>11. Barrier(w, a)'
  BY <1>2, <1>3, <1>7, <1>8, <1>10 DEF Barrier, Prepared, Staging, Publishing, Paired
<1> QED
  BY <1>2, <1>4, <1>6, <1>9, <1>11, MoveKeeps

LEMMA WriteKeeps ==
  ASSUME ProcessorInv, NEW w \in Workers, WriteHalf(w) \/ WriteRest(w)
  PROVE  ProcessorInv'
<1> USE DEF ProcessorInv
<1>1. CASE WriteRest(w)
  <2>1. PICK a \in Artifacts : /\ Current(w, a)
                               /\ partial' = [partial EXCEPT ![kind[w]][a] = "exact"]
    BY <1>1 DEF WriteRest
  <2> QED
    BY <1>1, <2>1, StagedKeeps DEF WriteRest
<1>2. CASE WriteHalf(w)
  <2>1. PICK a \in Artifacts :
           /\ Current(w, a)
           /\ \/ /\ partial[kind[w]][a] = "absent"
                 /\ partial' = [partial EXCEPT ![kind[w]][a] = "half"]
                 /\ Proceed(w, "finish")
              \/ /\ Raise(w, "processing_identity_conflict")
                 /\ UNCHANGED partial
    BY <1>2 DEF WriteHalf
  <2>2. pc[w] = "write" /\ UNCHANGED <<approved, assertions, job, final, quarantine>>
    BY <1>2 DEF WriteHalf
  <2>3. CASE Raise(w, "processing_identity_conflict") /\ UNCHANGED partial
    BY <2>2, <2>3, FindingKeeps DEF Findings, fileVars
  <2>4. CASE /\ partial[kind[w]][a] = "absent"
             /\ partial' = [partial EXCEPT ![kind[w]][a] = "half"]
             /\ Proceed(w, "finish")
    <3>1. kind[w] \in Kinds /\ assertions[a] = 1 /\ job[a] = "PREPARED" /\ StagingOK(w, a)
      BY <2>1, <2>2 DEF BarriersHold, Barrier, Prepared, Staging, ProcessorTypeOK
    <3>2. DataTyped
      <4>1. partial' \in [Kinds -> [Artifacts -> {"absent", "half", "exact"}]]
        BY <2>4, <3>1 DEF ProcessorTypeOK
      <4> QED
        BY <2>2, <4>1 DEF DataTyped, ProcessorTypeOK
    <3>3. \A k \in Kinds, b \in Artifacts :
             partial'[k][b] = IF k = kind[w] /\ b = a THEN "half" ELSE partial[k][b]
      BY <2>4, <3>1 DEF ProcessorTypeOK
    <3>4. final[kind[w]][a] = "absent"
      BY <3>1 DEF StagingOK, Kinds
    <3>5. FilesOK'
      BY <2>2, <3>3, <3>4 DEF FilesOK, PairExact
    <3>6. pc'[w] = "finish" /\ UNCHANGED <<kind, report_is_final>>
      BY <2>4 DEF Proceed, Goto, ctlVars, ProcessorTypeOK
    <3>7. Moves(w, a, "finish") /\ "finish" \in Labels \ Unlocked
      BY <2>1, <2>2, <2>4 DEF Moves, Proceed, ctlVars, Labels, Unlocked, ProcessorTypeOK
    <3>8. StagingOK(w, a)'
      BY <2>2, <3>1, <3>3, <3>6 DEF StagingOK, Kinds
    <3>9. Barrier(w, a)'
      BY <2>2, <3>1, <3>6, <3>8 DEF Barrier, Prepared, Staging, Publishing, Paired
    <3> QED
      BY <2>2, <3>2, <3>5, <3>7, <3>9, MoveKeeps
  <2> QED
    BY <2>1, <2>3, <2>4
<1> QED
  BY <1>1, <1>2

LEMMA LinkKeeps ==
  ASSUME ProcessorInv, NEW w \in Workers, LinkFinal(w)
  PROVE  ProcessorInv'
<1> USE DEF ProcessorInv
<1>1. PICK a \in Artifacts :
         /\ Current(w, a)
         /\ \/ /\ partial[kind[w]][a] # "absent" /\ final[kind[w]][a] = "absent"
               /\ final' = [final EXCEPT ![kind[w]][a] =
                               IF partial[kind[w]][a] = "exact" THEN "exact" ELSE "wrong"]
               /\ Proceed(w, "unlink")
            \/ final[kind[w]][a] # "absent"
            \/ partial[kind[w]][a] = "absent"
  BY DEF LinkFinal
<1>2. pc[w] = "link" /\ UNCHANGED <<approved, assertions, job, partial, quarantine>>
  BY DEF LinkFinal
<1>3. kind[w] \in Kinds /\ assertions[a] = 1 /\ job[a] = "PREPARED" /\ PublishingOK(w, a)
  BY <1>1, <1>2 DEF BarriersHold, Barrier, Prepared, Publishing, ProcessorTypeOK
<1>4. partial[kind[w]][a] = "exact" /\ final[kind[w]][a] = "absent"
  BY <1>2, <1>3 DEF PublishingOK
<1>5. final' = [final EXCEPT ![kind[w]][a] = "exact"] /\ Proceed(w, "unlink")
  BY <1>1, <1>4
<1>6. \A k \in Kinds, b \in Artifacts :
         final'[k][b] = IF k = kind[w] /\ b = a THEN "exact" ELSE final[k][b]
  BY <1>3, <1>5 DEF ProcessorTypeOK
<1>7. DataTyped
  <2>1. final' \in [Kinds -> [Artifacts -> {"absent", "exact", "wrong"}]]
    BY <1>3, <1>5 DEF ProcessorTypeOK
  <2> QED
    BY <1>2, <2>1 DEF DataTyped, ProcessorTypeOK
<1>8. FilesOK'
  BY <1>2, <1>4, <1>6 DEF FilesOK, PairExact
<1>9. pc'[w] = "unlink" /\ UNCHANGED <<kind, report_is_final>>
  BY <1>5 DEF Proceed, Goto, ctlVars, ProcessorTypeOK
<1>10. Moves(w, a, "unlink") /\ "unlink" \in Labels \ Unlocked
  BY <1>1, <1>2, <1>5 DEF Moves, Proceed, ctlVars, Labels, Unlocked, ProcessorTypeOK
<1>11. PublishingOK(w, a)'
  BY <1>2, <1>3, <1>6, <1>9 DEF PublishingOK, Kinds
<1>12. Barrier(w, a)'
  BY <1>2, <1>3, <1>9, <1>11 DEF Barrier, Prepared, Staging, Publishing, Paired
<1> QED
  BY <1>2, <1>7, <1>8, <1>10, <1>12, MoveKeeps

LEMMA UnlinkKeeps ==
  ASSUME ProcessorInv, NEW w \in Workers, UnlinkPartial(w)
  PROVE  ProcessorInv'
<1> USE DEF ProcessorInv
<1>1. PICK a \in Artifacts : /\ Current(w, a)
                             /\ partial' = [partial EXCEPT ![kind[w]][a] = "absent"]
  BY DEF UnlinkPartial
<1>2. /\ pc[w] = "unlink" /\ UNCHANGED <<approved, assertions, job, final, quarantine>>
      /\ \/ kind[w] = "report"   /\ ProceedWith(w, "link", "manifest")
         \/ kind[w] = "manifest" /\ Proceed(w, "pair")
  BY DEF UnlinkPartial
<1>3. kind[w] \in Kinds /\ assertions[a] = 1 /\ job[a] = "PREPARED" /\ PublishingOK(w, a)
  BY <1>1, <1>2 DEF BarriersHold, Barrier, Prepared, Publishing, ProcessorTypeOK
<1>4. \A k \in Kinds, b \in Artifacts :
         partial'[k][b] = IF k = kind[w] /\ b = a THEN "absent" ELSE partial[k][b]
  BY <1>1, <1>3 DEF ProcessorTypeOK
<1>5. DataTyped
  <2>1. partial' \in [Kinds -> [Artifacts -> {"absent", "half", "exact"}]]
    BY <1>1, <1>3 DEF ProcessorTypeOK
  <2> QED
    BY <1>2, <2>1 DEF DataTyped, ProcessorTypeOK
<1>6. FilesOK'
  BY <1>2, <1>4 DEF FilesOK, PairExact
<1>7. CASE kind[w] = "report"
  <2>1. ProceedWith(w, "link", "manifest")
    BY <1>2, <1>7
  <2>2. /\ pc'[w] = "link" /\ kind'[w] = "manifest" /\ kind' \in [Workers -> Kinds]
        /\ UNCHANGED report_is_final /\ Goto(w, "link")
    BY <2>1 DEF ProceedWith, Goto, ProcessorTypeOK, Kinds
  <2>3. Moves(w, a, "link") /\ "link" \in Labels \ Unlocked
    BY <1>1, <1>2, <2>1, <2>2 DEF Moves, ProceedWith, Labels, Unlocked, ProcessorTypeOK
  <2>4. PublishingOK(w, a)'
    BY <1>2, <1>3, <1>4, <1>7, <2>2 DEF PublishingOK, Kinds
  <2>5. Barrier(w, a)'
    BY <1>2, <1>3, <2>2, <2>4 DEF Barrier, Prepared, Staging, Publishing, Paired
  <2> QED
    BY <1>2, <1>5, <1>6, <2>3, <2>5, MoveKeeps
<1>8. CASE kind[w] = "manifest"
  <2>1. Proceed(w, "pair")
    BY <1>2, <1>8
  <2>2. pc'[w] = "pair"
    BY <2>1 DEF Proceed, Goto, ProcessorTypeOK
  <2>3. Moves(w, a, "pair") /\ "pair" \in Labels \ Unlocked
    BY <1>1, <1>2, <2>1 DEF Moves, Proceed, ctlVars, Labels, Unlocked, ProcessorTypeOK
  <2>4. PairExact(a)'
    BY <1>2, <1>3, <1>8 DEF PublishingOK, PairExact, Kinds
  <2>5. Barrier(w, a)'
    BY <1>2, <1>3, <2>2, <2>4 DEF Barrier, Prepared, Staging, Publishing, Paired
  <2> QED
    BY <1>2, <1>5, <1>6, <2>3, <2>5, MoveKeeps
<1> QED
  BY <1>3, <1>7, <1>8 DEF Kinds

LEMMA PairKeeps ==
  ASSUME ProcessorInv, NEW w \in Workers, VerifyPair(w)
  PROVE  ProcessorInv'
<1> USE DEF ProcessorInv
<1>1. PICK a \in Artifacts : /\ Current(w, a)
                             /\ PairExact(a) => Proceed(w, "complete")
  BY DEF VerifyPair, Proceed, Raise
<1>2. pc[w] = "pair" /\ UNCHANGED <<approved, assertions, job, fileVars>>
  BY DEF VerifyPair
<1>3. assertions[a] = 1 /\ job[a] = "PREPARED" /\ PairExact(a)
  BY <1>1, <1>2 DEF BarriersHold, Barrier, Prepared, Paired
<1>4. Proceed(w, "complete")
  BY <1>1, <1>3
<1>5. pc'[w] = "complete"
  BY <1>4 DEF Proceed, Goto, ProcessorTypeOK
<1>6. Moves(w, a, "complete") /\ "complete" \in Labels \ Unlocked /\ DataTyped
  BY <1>1, <1>2, <1>4
  DEF Moves, Proceed, ctlVars, fileVars, Labels, Unlocked, DataTyped, ProcessorTypeOK
<1>7. PairExact(a)' /\ FilesOK'
  BY <1>2, <1>3 DEF PairExact, FilesOK, fileVars
<1>8. Barrier(w, a)'
  BY <1>2, <1>3, <1>5, <1>7 DEF Barrier, Prepared, Staging, Publishing, Paired
<1> QED
  BY <1>2, <1>6, <1>7, <1>8, MoveKeeps

LEMMA CompleteKeeps ==
  ASSUME ProcessorInv, NEW w \in Workers, CompleteJob(w)
  PROVE  ProcessorInv'
<1> USE DEF ProcessorInv
<1>1. PICK a \in Artifacts : /\ Current(w, a)
                             /\ job' = [job EXCEPT ![a] = "COMPLETE"]
  BY DEF CompleteJob
<1>2. pc[w] = "complete" /\ Proceed(w, "reread") /\ UNCHANGED <<approved, assertions, fileVars>>
  BY DEF CompleteJob
<1>3. PairExact(a)
  BY <1>1, <1>2 DEF BarriersHold, Barrier, Paired
<1>4. pc'[w] = "reread"
  BY <1>2 DEF Proceed, Goto, ProcessorTypeOK
<1>5. Moves(w, a, "reread") /\ "reread" \in Labels \ Unlocked /\ DataTyped
  BY <1>1, <1>2
  DEF Moves, Proceed, ctlVars, fileVars, Labels, Unlocked, DataTyped, ProcessorTypeOK, JobStates
<1>6. \A b \in Artifacts : job'[b] = IF b = a THEN "COMPLETE" ELSE job[b]
  BY <1>1 DEF ProcessorTypeOK
<1>7. FilesOK'
  BY <1>2, <1>3, <1>6 DEF FilesOK, PairExact, fileVars
<1>8. Barrier(w, a)'
  BY <1>4 DEF Barrier, Prepared, Staging, Publishing, Paired
<1> QED
  BY <1>5, <1>6, <1>7, <1>8, MoveKeeps

\* The job is COMPLETE and its pair is there: the candidate is finished.
LEMMA RereadKeeps ==
  ASSUME ProcessorInv, NEW w \in Workers, Reread(w)
  PROVE  ProcessorInv'
<1> USE DEF ProcessorInv
<1>1. PICK a \in Artifacts :
         /\ Current(w, a)
         /\ \/ job[a] = "COMPLETE" /\ Done(w, a)
            \/ Raise(w, "processing_evidence_failure")
  BY DEF Reread
<1>2. pc[w] = "reread" /\ UNCHANGED <<approved, assertions, job, fileVars>>
  BY DEF Reread
<1>3. CASE Raise(w, "processing_evidence_failure")
  BY <1>2, <1>3, FindingKeeps DEF Findings
<1>4. CASE job[a] = "COMPLETE" /\ Done(w, a)
  <2>1. /\ pc' = [pc EXCEPT ![w] = "loop"] /\ todo' = [todo EXCEPT ![w] = todo[w] \ {a}]
        /\ kind' = [kind EXCEPT ![w] = "report"]
        /\ report_is_final' = [report_is_final EXCEPT ![w] = FALSE]
        /\ lock' = IF lock = w THEN "free" ELSE lock
        /\ UNCHANGED <<snap, before, outcome>>
    BY <1>4 DEF Done, Goto, Unlock, Forget
  <2>2. ProcessorTypeOK'
    BY <1>2, <2>1 DEF ProcessorTypeOK, fileVars, Labels, Unlocked, Kinds
  <2>3. LockHeld'
    BY <1>2, <2>1, ProcessorAssumption DEF ControlInv, LockHeld, ProcessorTypeOK, Unlocked
  <2>4. OutcomeLast' /\ IdleDone' /\ SnapshotLater'
    BY <1>2, <2>1 DEF ControlInv, OutcomeLast, IdleDone, SnapshotLater, ProcessorTypeOK
  <2>5. FinishedComplete'
    BY <1>2, <1>4, <2>1 DEF ControlInv, FinishedComplete, ProcessorTypeOK
  <2>6. /\ pc'[w] \in Unlocked \cup {"gate"}
        /\ \A v \in Workers : v # w => pc'[v] = pc[v] /\ kind'[v] = kind[v] /\ todo'[v] = todo[v]
                                       /\ report_is_final'[v] = report_is_final[v]
    BY <2>1 DEF ProcessorTypeOK, Unlocked
  <2> QED
    BY <1>2, <2>2, <2>3, <2>4, <2>5, <2>6, OutsideKeeps DEF ControlInv
<1> QED
  BY <1>1, <1>3, <1>4

-----------------------------------------------------------------------------
(* The invariant *)

LEMMA ReadKeeps ==
  ASSUME ProcessorInv, NEW w \in Workers, ReadState(w) \/ ReadEntry(w)
  PROVE  ProcessorInv'
<1>1. PICK a \in Artifacts :
         /\ pc[w] \in {"states", "entries"} /\ Unread(w, a)
         /\ NotePrior(w, a) \/ Raise(w, "approved_manifest_mismatch")
  BY DEF ReadState, ReadEntry
<1>2. UNCHANGED <<assertions, job, fileVars, approved>>
  BY DEF ReadState, ReadEntry
<1>3. CASE NotePrior(w, a)
  BY <1>1, <1>2, <1>3, NoteKeeps
<1>4. CASE Raise(w, "approved_manifest_mismatch")
  BY <1>2, <1>4, FindingKeeps DEF Findings
<1> QED
  BY <1>1, <1>3, <1>4

LEMMA FaultKeeps ==
  ASSUME ProcessorInv, NEW w \in Workers, Fault(w)
  PROVE  ProcessorInv'
<1>1. \E f \in Findings \cup {"crashed"} : Raise(w, f)
  BY DEF Fault, HistoryRefused, EvidenceFails, PathRefused, Dies, Findings
<1> QED
  BY <1>1, FindingKeeps DEF Fault

LEMMA WorkerKeeps ==
  ASSUME ProcessorInv, NEW w \in Workers, WorkerStep(w)
  PROVE  ProcessorInv'
  BY ReadKeeps, LoopKeeps, GateKeeps, PrepareKeeps, FinalsKeeps, StageKeeps, QuarantineKeepsInv,
     WriteKeeps, LinkKeeps, UnlinkKeeps, PairKeeps, CompleteKeeps, RereadKeeps
  DEF WorkerStep

\* The owner and the commands that hold the lock meanwhile.
LEMMA OwnerKeeps ==
  ASSUME ProcessorInv, Approve
  PROVE  ProcessorInv'
<1> USE DEF ProcessorInv
<1>1. PICK S \in SUBSET Artifacts :
         approved' = [a \in Artifacts |-> IF a \in S THEN job[a] ELSE "unlisted"]
  BY DEF Approve, Eligible
<1>2. approved' \in Prior
  BY <1>1 DEF Prior, ProcessorTypeOK
<1>3. UNCHANGED <<assertions, job, fileVars, lock, pc, ctlVars>>
  BY DEF Approve
<1>4. ProcessorTypeOK'
  BY <1>2, <1>3 DEF ProcessorTypeOK, fileVars, ctlVars
<1>5. ControlInv' /\ BarriersHold' /\ FilesOK'
  BY <1>3 DEF ControlInv, LockHeld, OutcomeLast, IdleDone, SnapshotLater, FinishedComplete,
     BarriersHold, Current, Barrier, StagingOK, PublishingOK, PairExact, FilesOK, fileVars, ctlVars
<1> QED
  BY <1>4, <1>5

LEMMA OtherKeeps ==
  ASSUME ProcessorInv, OtherLocks \/ OtherUnlocks \/ (\E a \in Artifacts : OtherRegisters(a))
  PROVE  ProcessorInv'
<1> USE DEF ProcessorInv
<1>1. /\ lock \in {"free", "other"} /\ lock' \in {"free", "other"}
      /\ UNCHANGED <<approved, job, fileVars, pc, ctlVars>>
      /\ assertions' \in [Artifacts -> 0..2]
  BY DEF OtherLocks, OtherUnlocks, OtherRegisters, ProcessorTypeOK
<1>2. \A w \in Workers : pc[w] \in Unlocked
  BY <1>1, ProcessorAssumption DEF ControlInv, LockHeld
<1>3. ProcessorTypeOK'
  BY <1>1 DEF ProcessorTypeOK, fileVars, ctlVars
<1>4. LockHeld'
  BY <1>1, <1>2, ProcessorAssumption DEF LockHeld
<1>5. OutcomeLast' /\ IdleDone' /\ SnapshotLater' /\ FinishedComplete'
  BY <1>1 DEF ControlInv, OutcomeLast, IdleDone, SnapshotLater, FinishedComplete, ctlVars
<1>6. BarriersHold'
  BY <1>1, <1>2 DEF BarriersHold, Barrier, Unlocked, Prepared, Staging, Publishing, Paired
<1>7. FilesOK'
  BY <1>1 DEF FilesOK, PairExact, fileVars
<1> QED
  BY <1>3, <1>4, <1>5, <1>6, <1>7 DEF ControlInv

LEMMA InitProcessor == Init => ProcessorInv
<1> SUFFICES ASSUME Init PROVE ProcessorInv
  OBVIOUS
<1>1. ProcessorTypeOK
  BY NothingPrior DEF Init, ProcessorTypeOK, JobStates, Kinds, Labels, Unlocked
<1>2. ControlInv
  BY ProcessorAssumption DEF Init, ControlInv, LockHeld, OutcomeLast, IdleDone, SnapshotLater,
     FinishedComplete, Nothing, Unlocked
<1>3. BarriersHold
  BY DEF Init, BarriersHold, Barrier, Prepared, Staging, Publishing, Paired
<1>4. FilesOK
  BY DEF Init, FilesOK
<1> QED
  BY <1>1, <1>2, <1>3, <1>4 DEF ProcessorInv

LEMMA ProcessorStep == ProcessorInv /\ [Next]_vars => ProcessorInv'
<1> SUFFICES ASSUME ProcessorInv, [Next]_vars PROVE ProcessorInv'
  OBVIOUS
<1>1. ASSUME NEW w \in Workers,
             Snapshot(w) \/ BeginExact(w) \/ WorkerStep(w) \/ Defer(w) \/ Fault(w)
      PROVE  ProcessorInv'
  BY <1>1, BeginKeeps, WorkerKeeps, LoopKeeps, FaultKeeps
<1>2. CASE Approve
  BY <1>2, OwnerKeeps
<1>3. CASE OtherLocks \/ OtherUnlocks \/ (\E a \in Artifacts : OtherRegisters(a))
  BY <1>3, OtherKeeps
<1>4. CASE UNCHANGED vars
  BY <1>4 DEF vars, fileVars, ctlVars, ProcessorInv, ProcessorTypeOK, ControlInv, LockHeld,
     OutcomeLast, IdleDone, SnapshotLater, FinishedComplete, BarriersHold, Current, Barrier,
     StagingOK, PublishingOK, PairExact, FilesOK
<1> QED
  BY <1>1, <1>2, <1>3, <1>4 DEF Next

LEMMA ProcessorInvariance == Spec => []ProcessorInv
  BY InitProcessor, ProcessorStep, PTL DEF Spec

-----------------------------------------------------------------------------
(* What a step does to the jobs and the files *)

\* Only the holder touches the partials, and only in five places.
LEMMA PartialEffect ==
  ASSUME ProcessorInv, [Next]_vars
  PROVE  \/ UNCHANGED partial
         \/ \E w \in Workers, a \in Artifacts :
              /\ Current(w, a)
              /\ \/ pc[w] \in {"drop", "unlink"} /\ partial' = [partial EXCEPT ![kind[w]][a] = "absent"]
                 \/ partial' = [partial EXCEPT ![kind[w]][a] = "half"]
                 \/ partial' = [partial EXCEPT ![kind[w]][a] = "exact"]
<1>1. ASSUME NEW w \in Workers, WorkerStep(w)
      PROVE  \/ UNCHANGED partial
             \/ QuarantineUnlink(w) \/ UnlinkPartial(w) \/ WriteHalf(w) \/ WriteRest(w)
  BY <1>1 DEF WorkerStep, ReadState, ReadEntry, TakeLock, RunEnd, Gate, Prepare, InspectFinals,
     Stage, QuarantineLink, LinkFinal, VerifyPair, CompleteJob, Reread, fileVars
<1>2. ASSUME NEW w \in Workers, Snapshot(w) \/ BeginExact(w) \/ Defer(w) \/ Fault(w)
      PROVE  UNCHANGED partial
  BY <1>2 DEF Snapshot, BeginExact, BeginWith, Defer, Fault, fileVars
<1>3. ASSUME \/ Approve \/ OtherLocks \/ OtherUnlocks \/ UNCHANGED vars
             \/ \E a \in Artifacts : OtherRegisters(a)
      PROVE  UNCHANGED partial
  BY <1>3 DEF Approve, OtherLocks, OtherUnlocks, OtherRegisters, vars, fileVars
<1>4. ASSUME NEW w \in Workers,
             QuarantineUnlink(w) \/ UnlinkPartial(w) \/ WriteHalf(w) \/ WriteRest(w)
      PROVE  \/ UNCHANGED partial
             \/ \E a \in Artifacts :
                  /\ Current(w, a)
                  /\ \/ /\ pc[w] \in {"drop", "unlink"}
                        /\ partial' = [partial EXCEPT ![kind[w]][a] = "absent"]
                     \/ partial' = [partial EXCEPT ![kind[w]][a] = "half"]
                     \/ partial' = [partial EXCEPT ![kind[w]][a] = "exact"]
  BY <1>4 DEF QuarantineUnlink, UnlinkPartial, WriteHalf, WriteRest
<1> QED
  BY <1>1, <1>2, <1>3, <1>4 DEF Next

\* The four kinds of step that the promise of the worker speaks of.
JobEffect ==
  \/ UNCHANGED <<job, final>>
  \/ \E a \in Artifacts :
       /\ assertions[a] = 1 /\ job[a] # "COMPLETE" /\ UNCHANGED final
       /\ job' = [job EXCEPT ![a] = IF @ = "MISSING" THEN "PREPARED" ELSE @]
  \/ \E a \in Artifacts, k \in Kinds :
       /\ job[a] = "PREPARED" /\ final[k][a] = "absent" /\ UNCHANGED job
       /\ k = "manifest" => final["report"][a] = "exact"
       /\ final' = [final EXCEPT ![k][a] = "exact"]
  \/ \E a \in Artifacts :
       /\ assertions[a] = 1 /\ job[a] = "PREPARED" /\ PairExact(a) /\ UNCHANGED final
       /\ job' = [job EXCEPT ![a] = "COMPLETE"]

LEMMA NextEffect ==
  ASSUME ProcessorInv, [Next]_vars
  PROVE  JobEffect
<1>1. ASSUME NEW w \in Workers, WorkerStep(w)
      PROVE  UNCHANGED <<job, final>> \/ Prepare(w) \/ LinkFinal(w) \/ CompleteJob(w)
  BY <1>1 DEF WorkerStep, ReadState, ReadEntry, TakeLock, RunEnd, Gate, InspectFinals,
     Stage, QuarantineLink, QuarantineUnlink, WriteHalf, WriteRest, UnlinkPartial, VerifyPair,
     Reread, fileVars
<1>2. ASSUME NEW w \in Workers, Snapshot(w) \/ BeginExact(w) \/ Defer(w) \/ Fault(w)
      PROVE  UNCHANGED <<job, final>>
  BY <1>2 DEF Snapshot, BeginExact, BeginWith, Defer, Fault, fileVars
<1>3. ASSUME \/ Approve \/ OtherLocks \/ OtherUnlocks \/ UNCHANGED vars
             \/ \E a \in Artifacts : OtherRegisters(a)
      PROVE  UNCHANGED <<job, final>>
  BY <1>3 DEF Approve, OtherLocks, OtherUnlocks, OtherRegisters, vars, fileVars
<1>4. ASSUME NEW w \in Workers, Prepare(w)
      PROVE  JobEffect
  <2>1. PICK a \in Artifacts :
           /\ Current(w, a)
           /\ job' = [job EXCEPT ![a] = IF @ = "MISSING" THEN "PREPARED" ELSE @]
    BY <1>4 DEF Prepare
  <2>2. assertions[a] = 1 /\ job[a] # "COMPLETE"
    BY <1>4, <2>1 DEF Prepare, ProcessorInv, BarriersHold, Barrier
  <2> QED
    BY <1>4, <2>1, <2>2 DEF Prepare, JobEffect, fileVars
<1>5. ASSUME NEW w \in Workers, LinkFinal(w)
      PROVE  JobEffect
  <2>1. PICK a \in Artifacts :
           /\ Current(w, a)
           /\ \/ UNCHANGED final
              \/ /\ final[kind[w]][a] = "absent"
                 /\ final' = [final EXCEPT ![kind[w]][a] =
                                 IF partial[kind[w]][a] = "exact" THEN "exact" ELSE "wrong"]
    BY <1>5 DEF LinkFinal
  <2>2. /\ job[a] = "PREPARED" /\ kind[w] \in Kinds /\ partial[kind[w]][a] = "exact"
        /\ kind[w] = "manifest" => final["report"][a] = "exact"
    BY <1>5, <2>1 DEF LinkFinal, ProcessorInv, BarriersHold, Barrier, Prepared, Publishing,
       PublishingOK, ProcessorTypeOK
  <2> QED
    BY <1>5, <2>1, <2>2 DEF LinkFinal, JobEffect
<1>6. ASSUME NEW w \in Workers, CompleteJob(w)
      PROVE  JobEffect
  <2>1. PICK a \in Artifacts : Current(w, a) /\ job' = [job EXCEPT ![a] = "COMPLETE"]
    BY <1>6 DEF CompleteJob
  <2>2. assertions[a] = 1 /\ job[a] = "PREPARED" /\ PairExact(a)
    BY <1>6, <2>1 DEF CompleteJob, ProcessorInv, BarriersHold, Barrier, Prepared, Paired
  <2> QED
    BY <1>6, <2>1, <2>2 DEF CompleteJob, JobEffect, fileVars
<1> QED
  BY <1>1, <1>2, <1>3, <1>4, <1>5, <1>6 DEF Next, JobEffect

-----------------------------------------------------------------------------
(* Theorems *)

\* Every state of any number of overlapping invocations is well typed.
THEOREM ProcessorTyped == Spec => []ProcessorTypeOK
<1>1. ProcessorInv => ProcessorTypeOK
  BY DEF ProcessorInv
<1> QED
  BY <1>1, ProcessorInvariance, PTL

\* At most one invocation is inside process_artifact, and none while another
\* command has the spool lock.
THEOREM LockIsHeld == Spec => []LockHeld
<1>1. ProcessorInv => LockHeld
  BY DEF ProcessorInv, ControlInv
<1> QED
  BY <1>1, ProcessorInvariance, PTL

\* "pass" is only reported of candidates that are COMPLETE, although the prior
\* states are read without the lock and every artifact takes the lock anew.
THEOREM PassIsComplete == Spec => []PassMeansComplete
<1>1. ProcessorInv => PassMeansComplete
  <2> SUFFICES ASSUME ProcessorInv, NEW w \in Workers, outcome[w] = "pass",
                      NEW a \in Listed(snap[w])
               PROVE  job[a] = "COMPLETE"
    BY DEF PassMeansComplete
  <2>1. todo[w] = {}
    BY DEF ProcessorInv, ControlInv, OutcomeLast, IdleDone
  <2> QED
    BY <2>1 DEF Listed, ProcessorInv, ControlInv, FinishedComplete
<1> QED
  BY <1>1, ProcessorInvariance, PTL

\* The counters of a pass never claim an artifact that was COMPLETE before the
\* invocation began, however stale the prior state they are filed under.
THEOREM CountersOfOwnTime == Spec => []CountsOwnTime
<1>1. ProcessorInv => CountsOwnTime
  BY DEF ProcessorInv, ControlInv, SnapshotLater, CountsOwnTime, Listed
<1> QED
  BY <1>1, ProcessorInvariance, PTL

\* What was inspected and staged under the lock is still so when it is linked.
THEOREM NoCollision == Spec => []NoPublishCollision
<1>1. ProcessorInv => NoPublishCollision
  BY DEF ProcessorInv, BarriersHold, Barrier, Publishing, PublishingOK, NoPublishCollision
<1> QED
  BY <1>1, ProcessorInvariance, PTL

\* A COMPLETE job never has an unfinished partial, whatever crashed meanwhile.
THEOREM LeftoversAreExact == Spec => []LeftoversExact
<1>1. ProcessorInv => LeftoversExact
  BY DEF ProcessorInv, FilesOK, PairExact, LeftoversExact
<1> QED
  BY <1>1, ProcessorInvariance, PTL

\* A COMPLETE job has its exact report and manifest at their content addresses,
\* for good: what _verify_authority rereads can only differ by somebody else's hand.
THEOREM CompleteHasPair == Spec => [](\A a \in Artifacts : job[a] = "COMPLETE" => PairExact(a))
<1>1. ProcessorInv => \A a \in Artifacts : job[a] = "COMPLETE" => PairExact(a)
  BY DEF ProcessorInv, FilesOK
<1> QED
  BY <1>1, ProcessorInvariance, PTL

\* A job is prepared or completed only while its input has exactly one assertion.
THEOREM CommitIsUnambiguous == Spec => UnambiguousAtCommit
<1>1. ProcessorInv /\ [Next]_vars => [\A a \in Artifacts : job'[a] # job[a] => assertions[a] = 1]_job
  BY NextEffect DEF JobEffect, ProcessorInv, ProcessorTypeOK
<1> QED
  BY <1>1, ProcessorInvariance, PTL DEF Spec, UnambiguousAtCommit

\* A half-written partial is in quarantine before its name goes away.
THEOREM PartialsAreKept == Spec => QuarantineKeeps
<1>1. ASSUME ProcessorInv, [Next]_vars, NEW k \in Kinds, NEW a \in Artifacts,
             partial[k][a] = "half", partial'[k][a] = "absent"
      PROVE  <<k, a>> \in quarantine
  <2>1. PICK w \in Workers, b \in Artifacts :
           /\ Current(w, b)
           /\ \/ pc[w] \in {"drop", "unlink"} /\ partial' = [partial EXCEPT ![kind[w]][b] = "absent"]
              \/ partial' = [partial EXCEPT ![kind[w]][b] = "half"]
              \/ partial' = [partial EXCEPT ![kind[w]][b] = "exact"]
    BY <1>1, PartialEffect
  <2>2. kind[w] \in Kinds /\ partial \in [Kinds -> [Artifacts -> {"absent", "half", "exact"}]]
    BY <1>1 DEF ProcessorInv, ProcessorTypeOK
  <2>3. k = kind[w] /\ a = b /\ pc[w] \in {"drop", "unlink"}
    BY <1>1, <2>1, <2>2
  <2>4. pc[w] = "drop"
    BY <1>1, <2>1, <2>3 DEF ProcessorInv, BarriersHold, Barrier, Publishing, PublishingOK
  <2> QED
    BY <1>1, <2>1, <2>3, <2>4 DEF ProcessorInv, BarriersHold, Barrier, Staging, StagingOK
<1>2. ProcessorInv /\ [Next]_vars =>
        [\A k \in Kinds, a \in Artifacts :
           (partial[k][a] = "half" /\ partial'[k][a] = "absent") => <<k, a>> \in quarantine]_partial
  BY <1>1
<1> QED
  BY <1>2, ProcessorInvariance, PTL DEF Spec, QuarantineKeeps

-----------------------------------------------------------------------------
(* The worker implements the abstract specification *)

LEMMA ProcessingSimulation ==
  ASSUME ProcessorInv, [Next]_vars
  PROVE  [Authority!Next]_(Authority!vars)
<1> USE DEF Authority!Next, Authority!vars
<1>1. CASE UNCHANGED <<job, final>>
  BY <1>1
<1>2. ASSUME NEW a \in Artifacts, job[a] # "COMPLETE", UNCHANGED final,
             job' = [job EXCEPT ![a] = IF @ = "MISSING" THEN "PREPARED" ELSE @]
      PROVE  [Authority!Next]_(Authority!vars)
  <2>1. CASE job[a] = "MISSING"
    BY <1>2, <2>1 DEF Authority!Prepare
  <2>2. CASE job[a] # "MISSING"
    BY <1>2, <2>2 DEF ProcessorInv, ProcessorTypeOK
  <2> QED
    BY <2>1, <2>2
<1>3. ASSUME NEW a \in Artifacts, NEW k \in Kinds, job[a] = "PREPARED", final[k][a] = "absent",
             UNCHANGED job, k = "manifest" => final["report"][a] = "exact",
             final' = [final EXCEPT ![k][a] = "exact"]
      PROVE  [Authority!Next]_(Authority!vars)
  <2>1. CASE k = "report"
    <3>1. Authority!PublishReport(a)
      BY <1>3, <2>1 DEF Authority!PublishReport, ProcessorInv, ProcessorTypeOK, Kinds
    <3> QED
      BY <3>1
  <2>2. CASE k = "manifest"
    <3>1. Authority!PublishManifest(a)
      BY <1>3, <2>2 DEF Authority!PublishManifest, ProcessorInv, ProcessorTypeOK, Kinds
    <3> QED
      BY <3>1
  <2> QED
    BY <2>1, <2>2 DEF Kinds
<1>4. ASSUME NEW a \in Artifacts, job[a] = "PREPARED", PairExact(a), UNCHANGED final,
             job' = [job EXCEPT ![a] = "COMPLETE"]
      PROVE  [Authority!Next]_(Authority!vars)
  BY <1>4 DEF Authority!Complete, PairExact, Kinds
<1> QED
  BY <1>1, <1>2, <1>3, <1>4, NextEffect DEF JobEffect

\* Every behaviour of overlapping, crashing and refused invocations is one that
\* ProcessingAuthority promises: prepared first, report before manifest, complete
\* only over the exact pair, and nothing undone.
THEOREM ProcessingRefinement == Spec => ImplementsProcessing
<1>1. Init => Authority!Init
  BY DEF Init, Authority!Init, Authority!Published, Kinds
<1>2. ProcessorInv /\ [Next]_vars => [Authority!Next]_(Authority!vars)
  BY ProcessingSimulation
<1> QED
  BY <1>1, <1>2, ProcessorInvariance, PTL DEF Spec, ImplementsProcessing, Authority!Spec

=============================================================================
