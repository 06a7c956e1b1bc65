------------------------- MODULE ProcessingAuthority -------------------------
(***************************************************************************)
(* What the processor worker promises about one raw artifact, and nothing  *)
(* about how it gets there: a job is PREPARED before any file of its       *)
(* result appears, the report is published before the manifest, and the    *)
(* job turns COMPLETE only over the exact pair.  The worker's README names *)
(* the three states; ProcessorWorker is shown to implement this.           *)
(***************************************************************************)

CONSTANT Artifacts          \* the raw artifacts of the ledger

VARIABLES job,              \* "MISSING", "PREPARED", "COMPLETE"
          report,           \* the derived report at its content address
          manifest          \* its manifest: "absent", "exact", "wrong"

vars == <<job, report, manifest>>

JobState == {"MISSING", "PREPARED", "COMPLETE"}
Published == {"absent", "exact", "wrong"}

\* The spool may hold files from before this ledger; jobs it does not.
Init ==
  /\ job = [a \in Artifacts |-> "MISSING"]
  /\ report \in [Artifacts -> Published]
  /\ manifest \in [Artifacts -> Published]

Prepare(a) ==
  /\ job[a] = "MISSING"
  /\ job' = [job EXCEPT ![a] = "PREPARED"]
  /\ UNCHANGED <<report, manifest>>

PublishReport(a) ==
  /\ job[a] = "PREPARED"
  /\ report[a] = "absent"
  /\ report' = [report EXCEPT ![a] = "exact"]
  /\ UNCHANGED <<job, manifest>>

PublishManifest(a) ==
  /\ job[a] = "PREPARED"
  /\ report[a] = "exact"
  /\ manifest[a] = "absent"
  /\ manifest' = [manifest EXCEPT ![a] = "exact"]
  /\ UNCHANGED <<job, report>>

\* The derived artifact, its lineage and the state of the job in one transaction.
Complete(a) ==
  /\ job[a] = "PREPARED"
  /\ report[a] = "exact"
  /\ manifest[a] = "exact"
  /\ job' = [job EXCEPT ![a] = "COMPLETE"]
  /\ UNCHANGED <<report, manifest>>

Next == \E a \in Artifacts :
          Prepare(a) \/ PublishReport(a) \/ PublishManifest(a) \/ Complete(a)

Spec == Init /\ [][Next]_vars
=============================================================================
