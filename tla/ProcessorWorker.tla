--------------------------- MODULE ProcessorWorker ---------------------------
(***************************************************************************)
(* The processor worker (apps/processor_worker/worker.py, run and          *)
(* run_exact) and the processing of one artifact                           *)
(* (apps/edge_agent/process.py), barrier by barrier: the snapshot or the   *)
(* reconstruction of an approved manifest, the advisory lock on the spool, *)
(* the job row, the partial files, their quarantine, publication by link   *)
(* and unlink, and the COMPLETE transaction.  Every worker is one          *)
(* invocation; the commands that finalize media and register occurrences   *)
(* take the same lock and are known only as its other holder.              *)
(***************************************************************************)
EXTENDS Naturals

CONSTANTS
  Workers,      \* concurrent invocations of processor-worker run
  Artifacts     \* raw artifacts; their order is that of artifact_id

ASSUME ProcessorAssumption ==
  /\ Artifacts \subseteq Nat
  /\ {"free", "other"} \cap Workers = {}

VARIABLES
  assertions,   \* COMPLETE capture assertions of the artifact; 2 is "several"
  job,          \* processing_jobs.state, "MISSING" where there is no row
  final,        \* the published report and manifest of each artifact
  partial,      \* their owned partial files
  quarantine,   \* <<kind, artifact>> of the half-written partials put aside
  approved,     \* the prior states of the one manifest the owner approves
  lock,         \* who holds the spool lock
  pc,           \* where each invocation is
  kind,         \* the file it stages or publishes
  report_is_final,  \* what it remembers of the report while it publishes
  snap,         \* the prior state its snapshot or manifest gives each artifact
  todo,         \* the candidates left
  before,       \* history: what was COMPLETE when it began
  outcome       \* how the last invocation ended

fileVars == <<final, partial, quarantine>>
ctlVars  == <<kind, report_is_final, snap, todo, before, outcome>>
vars     == <<assertions, job, fileVars, approved, lock, pc, ctlVars>>

Kinds == {"report", "manifest"}

Findings == {"processing_identity_conflict", "processing_evidence_failure",
             "processing_filesystem_failure", "processing_database_failure",
             "approved_manifest_mismatch"}

JobStates == {"MISSING", "PREPARED", "COMPLETE"}
Prior     == [Artifacts -> JobStates \cup {"unlisted"}]
Nothing   == [a \in Artifacts |-> "unlisted"]
Listed(f) == {a \in Artifacts : f[a] # "unlisted"}

Unlocked == {"idle", "states", "entries", "loop"}
Labels   == Unlocked \cup {"gate", "prepare", "finals", "stage", "aside", "drop", "write",
                           "finish", "link", "unlink", "pair", "complete", "reread"}

ProcessorTypeOK ==
  /\ assertions \in [Artifacts -> 0..2]
  /\ job \in [Artifacts -> JobStates]
  /\ final \in [Kinds -> [Artifacts -> {"absent", "exact", "wrong"}]]
  /\ partial \in [Kinds -> [Artifacts -> {"absent", "half", "exact"}]]
  /\ quarantine \subseteq Kinds \X Artifacts
  /\ approved \in Prior
  /\ lock \in Workers \cup {"free", "other"}
  /\ pc \in [Workers -> Labels]
  /\ kind \in [Workers -> Kinds]
  /\ report_is_final \in [Workers -> BOOLEAN]
  /\ snap \in [Workers -> Prior]
  /\ todo \in [Workers -> SUBSET Artifacts]
  /\ before \in [Workers -> SUBSET Artifacts]
  /\ outcome \in [Workers -> Findings \cup {"none", "pass", "deferred", "crashed"}]

\* The content-addressed names may be taken before the ledger knows of a job.
Init ==
  /\ assertions = [a \in Artifacts |-> 0]
  /\ job = [a \in Artifacts |-> "MISSING"]
  /\ final \in [Kinds -> [Artifacts -> {"absent", "exact", "wrong"}]]
  /\ partial = [k \in Kinds |-> [a \in Artifacts |-> "absent"]]
  /\ quarantine = {}
  /\ approved = Nothing
  /\ lock = "free"
  /\ pc = [w \in Workers |-> "idle"]
  /\ kind = [w \in Workers |-> "report"]
  /\ report_is_final = [w \in Workers |-> FALSE]
  /\ snap = [w \in Workers |-> Nothing]
  /\ todo = [w \in Workers |-> {}]
  /\ before = [w \in Workers |-> {}]
  /\ outcome = [w \in Workers |-> "none"]

-----------------------------------------------------------------------------

Current(w, a) == a \in todo[w] /\ \A b \in todo[w] : a <= b

Eligible == {a \in Artifacts : assertions[a] = 1}

PairExact(a) == \A k \in Kinds : final[k][a] = "exact"

Goto(w, l) == pc' = [pc EXCEPT ![w] = l]

Unlock(w) == lock' = IF lock = w THEN "free" ELSE lock

\* The locals of process_artifact go with it.
Forget(w) ==
  /\ kind' = [kind EXCEPT ![w] = "report"]
  /\ report_is_final' = [report_is_final EXCEPT ![w] = FALSE]

\* run() returns or raises, with the outcome given.
Leave(w, how, shot) ==
  /\ Goto(w, "idle")
  /\ outcome' = [outcome EXCEPT ![w] = how]
  /\ snap' = [snap EXCEPT ![w] = shot]
  /\ todo' = [todo EXCEPT ![w] = {}]
  /\ before' = [before EXCEPT ![w] = IF how = "pass" THEN @ ELSE {}]
  /\ Forget(w)

\* An exception leaves process_artifact and run(): the lock is released.
Raise(w, finding) == Leave(w, finding, Nothing) /\ Unlock(w)

\* The next step of the lock's holder.
Proceed(w, l) ==
  /\ Goto(w, l)
  /\ UNCHANGED <<lock, ctlVars>>

\* Go on with one kind of file.
ProceedWith(w, l, k) ==
  /\ Goto(w, l)
  /\ kind' = [kind EXCEPT ![w] = k]
  /\ UNCHANGED <<lock, report_is_final, snap, todo, before, outcome>>

\* process_artifact returns: next candidate.
Done(w, a) ==
  /\ Goto(w, "loop")
  /\ todo' = [todo EXCEPT ![w] = @ \ {a}]
  /\ Unlock(w)
  /\ Forget(w)
  /\ UNCHANGED <<snap, before, outcome>>

-----------------------------------------------------------------------------
(* run() and run_exact() *)

\* An invocation begins with these candidates and looks them up one by one.
BeginWith(w, candidates, l) ==
  /\ pc[w] = "idle"
  /\ todo' = [todo EXCEPT ![w] = candidates]
  /\ snap' = [snap EXCEPT ![w] = Nothing]
  /\ before' = [before EXCEPT ![w] = {a \in Artifacts : job[a] = "COMPLETE"}]
  /\ outcome' = [outcome EXCEPT ![w] = "none"]
  /\ Goto(w, l)
  /\ UNCHANGED <<assertions, job, fileVars, approved, lock, kind, report_is_final>>

\* One query lists the artifacts with exactly one assertion ...
Snapshot(w) == BeginWith(w, Eligible, IF Eligible = {} THEN "loop" ELSE "states")

\* The next candidate whose job has not been looked up.
Unread(w, a) ==
  LET rest == todo[w] \ Listed(snap[w])
  IN a \in rest /\ \A b \in rest : a <= b

\* Its prior state is what the job is now: no transaction spans the queries.
NotePrior(w, a) ==
  /\ snap' = [snap EXCEPT ![w][a] = job[a]]
  /\ Goto(w, IF todo[w] \ Listed(snap[w]) = {a} THEN "loop" ELSE pc[w])
  /\ UNCHANGED <<lock, kind, report_is_final, todo, before, outcome>>

\* ... and one query each reads their jobs.
ReadState(w) ==
  /\ pc[w] = "states"
  /\ \E a \in Artifacts : Unread(w, a) /\ NotePrior(w, a)
  /\ UNCHANGED <<assertions, job, fileVars, approved>>

\* The owner approves some of the eligible artifacts, each in its present state.
Approve ==
  /\ approved = Nothing
  /\ \E S \in SUBSET Eligible \ {{}} :
       approved' = [a \in Artifacts |-> IF a \in S THEN job[a] ELSE "unlisted"]
  /\ UNCHANGED <<assertions, job, fileVars, lock, pc, ctlVars>>

\* run_exact takes the manifest, at any later time and any number of times.
BeginExact(w) ==
  /\ approved # Nothing
  /\ BeginWith(w, Listed(approved), "entries")

\* Mutation: the entry is taken from the manifest without the comparison.
ReadEntryTrusting(w) ==
  /\ pc[w] = "entries"
  /\ \E a \in Artifacts :
       /\ Unread(w, a)
       /\ snap' = [snap EXCEPT ![w][a] = approved[a]]
       /\ Goto(w, IF todo[w] \ Listed(snap[w]) = {a} THEN "loop" ELSE pc[w])
  /\ UNCHANGED <<assertions, job, fileVars, approved, lock, kind, report_is_final, todo,
                 before, outcome>>

\* _reconstruct_exact_candidates: every entry must still be eligible and in the
\* approved state when it is read, without the lock.
ReadEntry(w) ==
  /\ pc[w] = "entries"
  /\ \E a \in Artifacts :
       /\ Unread(w, a)
       /\ \/ a \in Eligible /\ job[a] = approved[a] /\ NotePrior(w, a)
          \/ /\ ~ (a \in Eligible /\ job[a] = approved[a])
             /\ Raise(w, "approved_manifest_mismatch")
  /\ UNCHANGED <<assertions, job, fileVars, approved>>

\* Mutation: the lock is not taken at all.
TakeNoLock(w) ==
  /\ pc[w] = "loop"
  /\ todo[w] # {}
  /\ Goto(w, "gate")
  /\ UNCHANGED <<approved, assertions, job, fileVars, lock, ctlVars>>

TakeLock(w) ==
  /\ pc[w] = "loop"
  /\ todo[w] # {}
  /\ lock = "free"
  /\ lock' = w
  /\ Goto(w, "gate")
  /\ UNCHANGED <<approved, assertions, job, fileVars, ctlVars>>

\* Mutation: a deferred snapshot is reported like a finished one.
DeferAsPass(w) ==
  /\ pc[w] = "loop"
  /\ todo[w] # {}
  /\ lock # "free"
  /\ Leave(w, "pass", snap[w])
  /\ UNCHANGED <<approved, assertions, job, fileVars, lock>>

\* Five seconds of polling a held lock: the rest of the snapshot is deferred.
Defer(w) ==
  /\ pc[w] = "loop"
  /\ todo[w] # {}
  /\ lock # "free"
  /\ Leave(w, "deferred", Nothing)
  /\ UNCHANGED <<approved, assertions, job, fileVars, lock>>

RunEnd(w) ==
  /\ pc[w] = "loop"
  /\ todo[w] = {}
  /\ Leave(w, "pass", snap[w])
  /\ UNCHANGED <<approved, assertions, job, fileVars, lock>>

-----------------------------------------------------------------------------
(* process_artifact(), all of it under the lock *)

\* Mutation: the assertions of the input are not counted again.
GateUncounted(w) ==
  /\ pc[w] = "gate"
  /\ \E a \in Artifacts :
       /\ Current(w, a)
       /\ Proceed(w, IF job[a] = "COMPLETE" THEN "reread" ELSE "prepare")
  /\ UNCHANGED <<approved, assertions, job, fileVars>>

\* A COMPLETE job is verified and adopted; any other needs an input that still
\* has exactly one assertion, whatever the snapshot saw.
Gate(w) ==
  /\ pc[w] = "gate"
  /\ \E a \in Artifacts :
       /\ Current(w, a)
       /\ \/ job[a] = "COMPLETE" /\ Proceed(w, "reread")
          \/ job[a] # "COMPLETE" /\ assertions[a] = 1 /\ Proceed(w, "prepare")
          \/ /\ job[a] # "COMPLETE" /\ assertions[a] # 1
             /\ Raise(w, "processing_identity_conflict")
  /\ UNCHANGED <<approved, assertions, job, fileVars>>

\* Create or adopt the PREPARED row in a transaction of its own.
Prepare(w) ==
  /\ pc[w] = "prepare"
  /\ \E a \in Artifacts :
       /\ Current(w, a)
       /\ job' = [job EXCEPT ![a] = IF @ = "MISSING" THEN "PREPARED" ELSE @]
  /\ Proceed(w, "finals")
  /\ UNCHANGED <<approved, assertions, fileVars>>

\* What an interrupted run has published already decides what is left to do.
InspectFinals(w) ==
  /\ pc[w] = "finals"
  /\ \E a \in Artifacts :
       /\ Current(w, a)
       /\ \/ PairExact(a) /\ Proceed(w, "pair")
          \/ /\ final["manifest"][a] = "absent" /\ final["report"][a] # "wrong"
             /\ report_is_final' = [report_is_final EXCEPT ![w] = final["report"][a] = "exact"]
             /\ kind' = [kind EXCEPT ![w] = IF final["report"][a] = "exact"
                                             THEN "manifest" ELSE "report"]
             /\ Goto(w, "stage")
             /\ UNCHANGED <<lock, snap, todo, before, outcome>>
          \/ /\ \/ \E k \in Kinds : final[k][a] = "wrong"
                \/ final["manifest"][a] = "exact" /\ final["report"][a] = "absent"
             /\ Raise(w, "processing_evidence_failure")
  /\ UNCHANGED <<approved, assertions, job, fileVars>>

\* Mutation: the manifest goes first.
ManifestFirst(w) == "manifest"

\* The report goes first, unless it is there already.
FirstPublished(w) == IF report_is_final[w] THEN "manifest" ELSE "report"

\* The partial of this kind is complete: stage the other one, or publish.
Staged(w) ==
  \/ kind[w] = "report"   /\ ProceedWith(w, "stage", "manifest")
  \/ kind[w] = "manifest" /\ ProceedWith(w, "link", FirstPublished(w))

\* Mutation: a half-written partial is left where it is.
StageNoQuarantine(w) ==
  /\ pc[w] = "stage"
  /\ \E a \in Artifacts :
       /\ Current(w, a)
       /\ \/ partial[kind[w]][a] = "exact" /\ Staged(w)
          \/ partial[kind[w]][a] # "exact" /\ Proceed(w, "write")
  /\ UNCHANGED <<approved, assertions, job, fileVars>>

Stage(w) ==
  /\ pc[w] = "stage"
  /\ \E a \in Artifacts :
       /\ Current(w, a)
       /\ \/ partial[kind[w]][a] = "exact"  /\ Staged(w)
          \/ partial[kind[w]][a] = "half"   /\ Proceed(w, "aside")
          \/ partial[kind[w]][a] = "absent" /\ Proceed(w, "write")
  /\ UNCHANGED <<approved, assertions, job, fileVars>>

\* Mutation: the stale partial is removed, not moved.
QuarantineNothing(w) ==
  /\ pc[w] = "aside"
  /\ Proceed(w, "drop")
  /\ UNCHANGED <<approved, assertions, job, fileVars>>

\* quarantine_partial: link the stale bytes under their digest ...
QuarantineLink(w) ==
  /\ pc[w] = "aside"
  /\ \E a \in Artifacts :
       /\ Current(w, a)
       /\ quarantine' = quarantine \cup {<<kind[w], a>>}
  /\ Proceed(w, "drop")
  /\ UNCHANGED <<approved, assertions, job, final, partial>>

\* ... and only then unlink them here.
QuarantineUnlink(w) ==
  /\ pc[w] = "drop"
  /\ \E a \in Artifacts :
       /\ Current(w, a)
       /\ partial' = [partial EXCEPT ![kind[w]][a] = "absent"]
  /\ Proceed(w, "write")
  /\ UNCHANGED <<approved, assertions, job, final, quarantine>>

\* O_CREAT | O_EXCL and the first bytes; a crash from here on leaves them.
WriteHalf(w) ==
  /\ pc[w] = "write"
  /\ \E a \in Artifacts :
       /\ Current(w, a)
       /\ \/ /\ partial[kind[w]][a] = "absent"
             /\ partial' = [partial EXCEPT ![kind[w]][a] = "half"]
             /\ Proceed(w, "finish")
          \/ /\ partial[kind[w]][a] # "absent"
             /\ Raise(w, "processing_identity_conflict")
             /\ UNCHANGED partial
  /\ UNCHANGED <<approved, assertions, job, final, quarantine>>

WriteRest(w) ==
  /\ pc[w] = "finish"
  /\ \E a \in Artifacts :
       /\ Current(w, a)
       /\ partial' = [partial EXCEPT ![kind[w]][a] = "exact"]
  /\ Staged(w)
  /\ UNCHANGED <<approved, assertions, job, final, quarantine>>

\* publish_no_replace: link the partial to the final name; where that exists,
\* adopt it if it is exact.
LinkFinal(w) ==
  /\ pc[w] = "link"
  /\ \E a \in Artifacts :
       LET k == kind[w]
       IN /\ Current(w, a)
          /\ \/ /\ partial[k][a] # "absent" /\ final[k][a] = "absent"
                /\ final' = [final EXCEPT ![k][a] =
                                IF partial[k][a] = "exact" THEN "exact" ELSE "wrong"]
                /\ Proceed(w, "unlink")
             \/ /\ partial[k][a] # "absent" /\ final[k][a] = "exact"
                /\ Proceed(w, "unlink")
                /\ UNCHANGED final
             \/ /\ partial[k][a] # "absent" /\ final[k][a] = "wrong"
                /\ Raise(w, "processing_evidence_failure")
                /\ UNCHANGED final
             \/ /\ partial[k][a] = "absent"
                /\ Raise(w, "processing_filesystem_failure")
                /\ UNCHANGED final
  /\ UNCHANGED <<approved, assertions, job, partial, quarantine>>

UnlinkPartial(w) ==
  /\ pc[w] = "unlink"
  /\ \E a \in Artifacts :
       /\ Current(w, a)
       /\ partial' = [partial EXCEPT ![kind[w]][a] = "absent"]
  /\ \/ kind[w] = "report"   /\ ProceedWith(w, "link", "manifest")
     \/ kind[w] = "manifest" /\ Proceed(w, "pair")
  /\ UNCHANGED <<approved, assertions, job, final, quarantine>>

\* _verify_final_pair before the COMPLETE transaction.
VerifyPair(w) ==
  /\ pc[w] = "pair"
  /\ \E a \in Artifacts :
       /\ Current(w, a)
       /\ \/ PairExact(a)   /\ Proceed(w, "complete")
          \/ ~ PairExact(a) /\ Raise(w, "processing_evidence_failure")
  /\ UNCHANGED <<approved, assertions, job, fileVars>>

\* Derived artifact, lineage and PREPARED to COMPLETE, in one transaction.
CompleteJob(w) ==
  /\ pc[w] = "complete"
  /\ \E a \in Artifacts :
       /\ Current(w, a)
       /\ job' = [job EXCEPT ![a] = "COMPLETE"]
  /\ Proceed(w, "reread")
  /\ UNCHANGED <<approved, assertions, fileVars>>

\* _verify_authority, after the transaction or in place of the whole work.
Reread(w) ==
  /\ pc[w] = "reread"
  /\ \E a \in Artifacts :
       /\ Current(w, a)
       /\ \/ PairExact(a) /\ job[a] = "COMPLETE" /\ Done(w, a)
          \/ /\ ~ (PairExact(a) /\ job[a] = "COMPLETE")
             /\ Raise(w, "processing_evidence_failure")
  /\ UNCHANGED <<approved, assertions, job, fileVars>>

\* Refusals before anything is written: the schema is not one of the histories
\* that migration_history knows, ...
HistoryRefused(w) == pc[w] = "gate" /\ Raise(w, "processing_database_failure")

\* ... the files of the input, its manifest and its ledger row do not agree, ...
EvidenceFails(w) == pc[w] = "gate" /\ Raise(w, "processing_evidence_failure")

\* ... or a path that this job may write is unsafe.
PathRefused(w) == pc[w] = "prepare" /\ Raise(w, "processing_filesystem_failure")

\* The process dies, or a call on the file system or on SQLite fails.  The kernel
\* releases the lock; files stay.
Dies(w) == pc[w] # "idle" /\ Raise(w, "crashed")

Fault(w) ==
  /\ \/ HistoryRefused(w) \/ EvidenceFails(w) \/ PathRefused(w) \/ Dies(w)
  /\ UNCHANGED <<approved, assertions, job, fileVars>>

-----------------------------------------------------------------------------
(* The commands that finalize media and register occurrences *)

OtherLocks ==
  /\ lock = "free"
  /\ lock' = "other"
  /\ UNCHANGED <<approved, assertions, job, fileVars, pc, ctlVars>>

OtherRegisters(a) ==
  /\ lock = "other"
  /\ assertions[a] < 2
  /\ assertions' = [assertions EXCEPT ![a] = @ + 1]
  /\ UNCHANGED <<approved, job, fileVars, lock, pc, ctlVars>>

OtherUnlocks ==
  /\ lock = "other"
  /\ lock' = "free"
  /\ UNCHANGED <<approved, assertions, job, fileVars, pc, ctlVars>>

-----------------------------------------------------------------------------

WorkerStep(w) ==
  \/ ReadState(w) \/ ReadEntry(w) \/ TakeLock(w) \/ RunEnd(w)
  \/ Gate(w) \/ Prepare(w) \/ InspectFinals(w)
  \/ Stage(w) \/ QuarantineLink(w) \/ QuarantineUnlink(w) \/ WriteHalf(w) \/ WriteRest(w)
  \/ LinkFinal(w) \/ UnlinkPartial(w) \/ VerifyPair(w) \/ CompleteJob(w) \/ Reread(w)

Next ==
  \/ \E w \in Workers : Snapshot(w) \/ BeginExact(w) \/ WorkerStep(w) \/ Defer(w) \/ Fault(w)
  \/ Approve
  \/ OtherLocks \/ OtherUnlocks
  \/ \E a \in Artifacts : OtherRegisters(a)

Spec == Init /\ [][Next]_vars

\* The steps of an invocation follow one another, the operator keeps starting
\* runs (the worker is no daemon), and no other command holds the lock for ever.
Fairness ==
  /\ \A w \in Workers : WF_vars(WorkerStep(w)) /\ SF_vars(Snapshot(w))
  /\ WF_vars(OtherUnlocks)

FairSpec == Spec /\ Fairness

-----------------------------------------------------------------------------
(* Properties *)

\* status "pass" means what it says: every candidate of the snapshot or of the
\* manifest is COMPLETE, although both are read without the lock and the artifacts
\* are processed one lock at a time beside other runs (worker.run, run_exact).
PassMeansComplete ==
  \A w \in Workers : outcome[w] = "pass" => \A a \in Listed(snap[w]) : job[a] = "COMPLETE"

\* The counters are filed under a prior state read before the lock, which may be
\* stale by the time the artifact is processed.  Still, newly_completed and
\* prepared_resumed never count an artifact that was COMPLETE before the
\* invocation began: a replay of an executed manifest claims nothing.
CountsOwnTime ==
  \A w \in Workers :
    outcome[w] = "pass" =>
      \A a \in Listed(snap[w]) : snap[w][a] # "COMPLETE" => a \notin before[w]

\* The recovery branches of publish_no_replace are never needed by workers that
\* hold the lock: what InspectFinals and Stage saw still holds when the links
\* are made, so no link meets an existing name and none finds its partial gone.
NoPublishCollision ==
  \A w \in Workers, a \in Artifacts :
    (pc[w] = "link" /\ Current(w, a)) =>
      /\ partial[kind[w]][a] = "exact"
      /\ final[kind[w]][a] = "absent"

\* A crash between link and unlink may orphan a partial of a COMPLETE job, which
\* no later run looks at; it is then a second name of the published bytes and
\* never a half-written file, which only quarantine may hold.
LeftoversExact ==
  \A k \in Kinds, a \in Artifacts : job[a] = "COMPLETE" => partial[k][a] # "half"

\* Eligibility (SPEC-011) holds at the commit, not just in the snapshot: no job
\* is completed for an input that has acquired a second assertion meanwhile.
UnambiguousAtCommit ==
  [][\A a \in Artifacts : job'[a] # job[a] => assertions[a] = 1]_job

\* Interrupted bytes are evidence: a half-written partial leaves its name only
\* once quarantine has it, whatever crash came between the two calls.
QuarantineKeeps ==
  [][\A k \in Kinds, a \in Artifacts :
       (partial[k][a] = "half" /\ partial'[k][a] = "absent") => <<k, a>> \in quarantine]_partial

\* What stands in the way of a run for ever: a foreign file at a final name, or
\* a manifest without its report.
Unobstructed ==
  \A a \in Eligible :
    /\ \A k \in Kinds : final[k][a] # "wrong"
    /\ final["manifest"][a] = "exact" => final["report"][a] = "exact"

\* Once faults, deferrals and other holders of the lock are over, repeated runs
\* complete whatever stays eligible: a crash at any barrier leaves nothing that a
\* later run cannot resume.
Converges ==
  ( /\ <>[][~ \E w \in Workers : Fault(w) \/ Defer(w)]_vars
    /\ <>[][~ OtherLocks]_vars
    /\ <>[]Unobstructed )
  => <>[](\A a \in Eligible : job[a] = "COMPLETE")

\* The abstract specification, with the published pair split in two.
Authority == INSTANCE ProcessingAuthority WITH
               report <- final["report"], manifest <- final["manifest"]
ImplementsProcessing == Authority!Spec
=============================================================================
