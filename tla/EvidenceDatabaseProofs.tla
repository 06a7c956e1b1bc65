----------------------- MODULE EvidenceDatabaseProofs -----------------------
(***************************************************************************)
(* Proofs about EvidenceDatabase, for any number of occurrences, artifacts *)
(* and releases.  What holds of the committed rows is shown of the rows an *)
(* open transaction sees, except for what COMMIT itself checks.            *)
(***************************************************************************)
EXTENDS EvidenceDatabase, TLAPS

\* What every statement and every migration preserves of the rows it works on.
RowOK(d, o) ==
  /\ d.version < 3 => d.expected[o] = "none" /\ d.event[o] # "GapRecorded"
  /\ d.version < 7 => d.asserted[o] = NoArtifact
  /\ d.version = 7 => d.asserted[o] \in {d.capture[o], NoArtifact}
  /\ d.version >= 8 /\ d.asserted[o] # NoArtifact => d.expected[o] = "COMPLETE"
  /\ d.event[o] = "SegmentFinalized" =>
       d.capture[o] # NoArtifact /\ (d.version >= 3 => d.expected[o] = "COMPLETE")
  /\ d.event[o] = "GapRecorded" => d.expected[o] = "GAP"
  /\ d.version < 5 => d.job[o] = "none"

RowsOK(d) == d \in Database /\ \A o \in Occurrences : RowOK(d, o)

\* The evidence of d is still in e, as far as the triggers of d's schema keep it.
Kept(d, e) ==
  /\ e.version >= d.version
  /\ d.recording = "COMPLETE" => e.recording = "COMPLETE"
  /\ \A o \in Occurrences :
       /\ d.version >= 3 =>
            /\ d.capture[o] # NoArtifact => e.capture[o] = d.capture[o]
            /\ d.event[o] # "none" => e.event[o] = d.event[o]
       /\ d.expected[o] \in {"COMPLETE", "GAP"} => e.expected[o] = d.expected[o]
       /\ d.expected[o] = "PREPARED" => e.expected[o] # "none"
       /\ d.asserted[o] # NoArtifact => e.asserted[o] = d.asserted[o]
       /\ d.job[o] # "none" => e.job[o] # "none"
       /\ d.job[o] = "PREPARED" => e.job[o] = "PREPARED" \/ ImportTrue(e, o)
       /\ d.job[o] = "COMPLETE" => e.job[o] = "COMPLETE" /\ e.output[o] = d.output[o]
       /\ d.provenance[o] => e.provenance[o]
       /\ d.replica[o] = "VERIFIED" => e.replica[o] = "VERIFIED"

\* How far a migration has come: captures and events are never touched, expected
\* rows only by version 3 and assertions only by version 7.
Migrating(d, e, r) ==
  /\ d.version <= e.version
  /\ e.version <= r
  /\ e.capture = d.capture
  /\ e.event = d.event
  /\ d.version >= 3 => e.expected = d.expected
  /\ d.version < 3 /\ e.version >= 3 =>
       \A o \in Occurrences : d.capture[o] # NoArtifact => e.expected[o] = "COMPLETE"
  /\ d.version >= 7 => e.asserted = d.asserted
  /\ d.version < 7 /\ e.version >= 7 => e.asserted = d.capture
  /\ d.version < 7 /\ e.version >= 7 => OneCaptureEach(d)
  /\ d.version >= 8 => DeferredKeysHold(e)

EvidenceInv ==
  /\ RowsOK(db)
  /\ RowsOK(work)
  /\ DeferredKeysHold(db)
  /\ holder \in Occurrences \cup {Nobody, Migrator}
  /\ release \in Releases \cup {0}
  /\ outcome \in {"none", "applied", "refused", "ahead", "crashed"}
  /\ holder # Nobody => Kept(db, work)
  /\ holder \in Occurrences => work.version = db.version
  /\ holder = Migrator => release \in Releases /\ Migrating(db, work, release)

LEMMA KeptReflexive ==
  ASSUME NEW d \in Database
  PROVE  Kept(d, d)
BY DEF Kept, Database

\* An import that was true is true of every database that keeps its evidence.
LEMMA TrueImportsKept ==
  ASSUME NEW d, NEW e, RowsOK(d), NEW o \in Occurrences, Kept(d, e), ImportTrue(d, o)
  PROVE  ImportTrue(e, o)
<1>1. d.version >= 3
  BY DEF RowsOK, RowOK, ImportTrue, Database
<1> QED BY <1>1 DEF Kept, ImportTrue

LEMMA KeptTransitive ==
  ASSUME NEW d, NEW e, NEW f, RowsOK(d), RowsOK(e), RowsOK(f), Kept(d, e), Kept(e, f)
  PROVE  Kept(d, f)
<1>1. d.version \in Nat /\ e.version \in Nat /\ f.version \in Nat
  BY DEF RowsOK, Database
<1>2. ASSUME NEW o \in Occurrences, d.job[o] = "PREPARED"
      PROVE  f.job[o] = "PREPARED" \/ ImportTrue(f, o)
  BY <1>2, TrueImportsKept DEF Kept
<1>3. ASSUME NEW o \in Occurrences
      PROVE  /\ d.version >= 3 =>
                  /\ d.capture[o] # NoArtifact => f.capture[o] = d.capture[o]
                  /\ d.event[o] # "none" => f.event[o] = d.event[o]
             /\ d.expected[o] \in {"COMPLETE", "GAP"} => f.expected[o] = d.expected[o]
             /\ d.expected[o] = "PREPARED" => f.expected[o] # "none"
  <2>1. d.expected[o] \in {"none", "PREPARED", "COMPLETE", "GAP"}
    BY DEF RowsOK, Database
  <2>2. e.expected[o] \in {"none", "PREPARED", "COMPLETE", "GAP"}
    BY DEF RowsOK, Database
  <2> QED BY <1>1, <2>1, <2>2 DEF Kept
<1>4. ASSUME NEW o \in Occurrences
      PROVE  /\ d.asserted[o] # NoArtifact => f.asserted[o] = d.asserted[o]
             /\ d.job[o] # "none" => f.job[o] # "none"
             /\ d.job[o] = "COMPLETE" => f.job[o] = "COMPLETE" /\ f.output[o] = d.output[o]
             /\ d.provenance[o] => f.provenance[o]
             /\ d.replica[o] = "VERIFIED" => f.replica[o] = "VERIFIED"
  BY DEF Kept
<1>5. /\ f.version >= d.version
      /\ d.recording = "COMPLETE" => f.recording = "COMPLETE"
  BY <1>1 DEF Kept
<1> QED BY <1>2, <1>3, <1>4, <1>5 DEF Kept

\* What a writer's statement does to the rows its transaction sees.
Carries == RowsOK(work') /\ Kept(work, work') /\ work'.version = work.version

LEMMA WriteKeeps ==
  ASSUME RowsOK(work), NEW o \in Occurrences, Write(o)
  PROVE  Carries
<1> USE EvidenceAssumption
<1>1. CASE Prepare(o)
  <2>1. work' \in Database
    BY <1>1 DEF Prepare, Statement, RowsOK, Database, Captured
  <2>2. ASSUME NEW p \in Occurrences PROVE RowOK(work', p)
    BY <1>1 DEF Prepare, Statement, RowsOK, RowOK, Database, Captured
  <2>3. Kept(work, work')
    BY <1>1 DEF Prepare, Statement, RowsOK, RowOK, Kept, ImportTrue, Database, Captured
  <2>4. work'.version = work.version
    BY <1>1 DEF Prepare, Statement, RowsOK, Database
  <2> QED BY <2>1, <2>2, <2>3, <2>4 DEF RowsOK, Carries
<1>2. ASSUME NEW terminal \in {"COMPLETE", "GAP"}, InsertTerminal(o, terminal) PROVE Carries
  <2>1. work' \in Database
    BY <1>2 DEF InsertTerminal, Statement, RowsOK, Database, Captured
  <2>2. ASSUME NEW p \in Occurrences PROVE RowOK(work', p)
    BY <1>2 DEF InsertTerminal, Statement, RowsOK, RowOK, Database, Captured
  <2>3. Kept(work, work')
    BY <1>2 DEF InsertTerminal, Statement, RowsOK, RowOK, Kept, ImportTrue, Database, Captured
  <2>4. work'.version = work.version
    BY <1>2 DEF InsertTerminal, Statement, RowsOK, Database
  <2> QED BY <2>1, <2>2, <2>3, <2>4 DEF RowsOK, Carries
<1>3. ASSUME NEW terminal \in {"COMPLETE", "GAP"}, Terminate(o, terminal) PROVE Carries
  <2>1. work' \in Database
    BY <1>3 DEF Terminate, Unterminated, Statement, RowsOK, Database, Captured
  <2>2. ASSUME NEW p \in Occurrences PROVE RowOK(work', p)
    BY <1>3 DEF Terminate, Unterminated, Statement, RowsOK, RowOK, Database, Captured
  <2>3. Kept(work, work')
    BY <1>3 DEF Terminate, Unterminated, Statement, RowsOK, RowOK, Kept, ImportTrue, Database, Captured
  <2>4. work'.version = work.version
    BY <1>3 DEF Terminate, Unterminated, Statement, RowsOK, Database
  <2> QED BY <2>1, <2>2, <2>3, <2>4 DEF RowsOK, Carries
<1>4. ASSUME NEW a \in Artifacts, Capture(o, a) PROVE Carries
  <2>1. work' \in Database
    BY <1>4 DEF Capture, Statement, RowsOK, Database, Captured
  <2>2. ASSUME NEW p \in Occurrences PROVE RowOK(work', p)
    BY <1>4 DEF Capture, Statement, RowsOK, RowOK, Database, Captured
  <2>3. Kept(work, work')
    BY <1>4 DEF Capture, Statement, RowsOK, RowOK, Kept, ImportTrue, Database, Captured
  <2>4. work'.version = work.version
    BY <1>4 DEF Capture, Statement, RowsOK, Database
  <2> QED BY <2>1, <2>2, <2>3, <2>4 DEF RowsOK, Carries
<1>5. ASSUME NEW a \in Artifacts, RewriteCapture(o, a) PROVE Carries
  <2>1. work' \in Database
    BY <1>5 DEF RewriteCapture, Mutable, Statement, RowsOK, Database, Captured
  <2>2. ASSUME NEW p \in Occurrences PROVE RowOK(work', p)
    BY <1>5 DEF RewriteCapture, Mutable, Statement, RowsOK, RowOK, Database, Captured
  <2>3. Kept(work, work')
    BY <1>5 DEF RewriteCapture, Mutable, Statement, RowsOK, RowOK, Kept, ImportTrue, Database, Captured
  <2>4. work'.version = work.version
    BY <1>5 DEF RewriteCapture, Mutable, Statement, RowsOK, Database
  <2> QED BY <2>1, <2>2, <2>3, <2>4 DEF RowsOK, Carries
<1>6. CASE EraseCapture(o)
  <2>1. work' \in Database
    BY <1>6 DEF EraseCapture, Mutable, Statement, RowsOK, Database, Captured
  <2>2. ASSUME NEW p \in Occurrences PROVE RowOK(work', p)
    BY <1>6 DEF EraseCapture, Mutable, Statement, RowsOK, RowOK, Database, Captured
  <2>3. Kept(work, work')
    BY <1>6 DEF EraseCapture, Mutable, Statement, RowsOK, RowOK, Kept, ImportTrue, Database, Captured
  <2>4. work'.version = work.version
    BY <1>6 DEF EraseCapture, Mutable, Statement, RowsOK, Database
  <2> QED BY <2>1, <2>2, <2>3, <2>4 DEF RowsOK, Carries
<1>7. CASE EraseEvent(o)
  <2>1. work' \in Database
    BY <1>7 DEF EraseEvent, Mutable, Statement, RowsOK, Database, Captured
  <2>2. ASSUME NEW p \in Occurrences PROVE RowOK(work', p)
    BY <1>7 DEF EraseEvent, Mutable, Statement, RowsOK, RowOK, Database, Captured
  <2>3. Kept(work, work')
    BY <1>7 DEF EraseEvent, Mutable, Statement, RowsOK, RowOK, Kept, ImportTrue, Database, Captured
  <2>4. work'.version = work.version
    BY <1>7 DEF EraseEvent, Mutable, Statement, RowsOK, Database
  <2> QED BY <2>1, <2>2, <2>3, <2>4 DEF RowsOK, Carries
<1>8. ASSUME NEW type \in {"SegmentFinalized", "GapRecorded"}, RecordEvent(o, type) PROVE Carries
  <2>1. work' \in Database
    BY <1>8 DEF RecordEvent, TerminalCorrect, Statement, RowsOK, Database, Captured
  <2>2. ASSUME NEW p \in Occurrences PROVE RowOK(work', p)
    BY <1>8 DEF RecordEvent, TerminalCorrect, Statement, RowsOK, RowOK, Database, Captured
  <2>3. Kept(work, work')
    BY <1>8 DEF RecordEvent, TerminalCorrect, Statement, RowsOK, RowOK, Kept, ImportTrue, Database, Captured
  <2>4. work'.version = work.version
    BY <1>8 DEF RecordEvent, TerminalCorrect, Statement, RowsOK, Database
  <2> QED BY <2>1, <2>2, <2>3, <2>4 DEF RowsOK, Carries
<1>9. ASSUME NEW a \in Artifacts, AssertOccurrence(o, a) PROVE Carries
  <2>1. work' \in Database
    BY <1>9 DEF AssertOccurrence, Statement, RowsOK, Database, Captured
  <2>2. ASSUME NEW p \in Occurrences PROVE RowOK(work', p)
    BY <1>9 DEF AssertOccurrence, Statement, RowsOK, RowOK, Database, Captured
  <2>3. Kept(work, work')
    BY <1>9 DEF AssertOccurrence, Statement, RowsOK, RowOK, Kept, ImportTrue, Database, Captured
  <2>4. work'.version = work.version
    BY <1>9 DEF AssertOccurrence, Statement, RowsOK, Database
  <2> QED BY <2>1, <2>2, <2>3, <2>4 DEF RowsOK, Carries
<1> QED BY <1>1, <1>2, <1>3, <1>4, <1>5, <1>6, <1>7, <1>8, <1>9 DEF Write

LEMMA AttemptKeeps ==
  ASSUME RowsOK(work), NEW o \in Occurrences, RecordAttempt(o)
  PROVE  Carries
<1>1. work' \in Database
  BY DEF RecordAttempt, AttemptExpected, Statement, RowsOK, Database, Captured
<1>2. /\ work'.version = work.version /\ work'.expected = work.expected
      /\ work'.capture = work.capture /\ work'.event = work.event
      /\ work'.asserted = work.asserted /\ work'.job = work.job
      /\ work'.output = work.output /\ work'.provenance = work.provenance
      /\ work'.recording = work.recording /\ work'.replica = work.replica
  BY DEF RecordAttempt, AttemptExpected, Statement, RowsOK, Database, Captured
<1>3. ASSUME NEW p \in Occurrences PROVE RowOK(work', p)
  BY <1>2 DEF RowsOK, RowOK
<1>4. Kept(work, work')
  BY <1>2 DEF RowsOK, Kept, Database
<1> QED BY <1>1, <1>2, <1>3, <1>4 DEF RowsOK, Carries

LEMMA ImportKeeps ==
  ASSUME RowsOK(work), NEW o \in Occurrences, Import(o)
  PROVE  Carries
<1> USE EvidenceAssumption
<1>1. ASSUME NEW state \in {"PREPARED", "COMPLETE"}, InsertRecording(o, state) PROVE Carries
  <2>1. work' \in Database
    BY <1>1 DEF InsertRecording, Statement, RowsOK, Database, Captured
  <2>2. ASSUME NEW p \in Occurrences PROVE RowOK(work', p)
    BY <1>1 DEF InsertRecording, Statement, RowsOK, RowOK, Database, Captured
  <2>3. Kept(work, work')
    BY <1>1 DEF InsertRecording, Statement, RowsOK, RowOK, Kept, ImportTrue, Database, Captured
  <2>4. work'.version = work.version
    BY <1>1 DEF InsertRecording, Statement, RowsOK, Database
  <2> QED BY <2>1, <2>2, <2>3, <2>4 DEF RowsOK, Carries
<1>2. CASE CompleteRecording(o)
  <2>1. work' \in Database
    BY <1>2 DEF CompleteRecording, Statement, RowsOK, Database, Captured
  <2>2. ASSUME NEW p \in Occurrences PROVE RowOK(work', p)
    BY <1>2 DEF CompleteRecording, Statement, RowsOK, RowOK, Database, Captured
  <2>3. Kept(work, work')
    BY <1>2 DEF CompleteRecording, Statement, RowsOK, RowOK, Kept, ImportTrue, Database, Captured
  <2>4. work'.version = work.version
    BY <1>2 DEF CompleteRecording, Statement, RowsOK, Database
  <2> QED BY <2>1, <2>2, <2>3, <2>4 DEF RowsOK, Carries
<1>3. CASE PrepareJob(o)
  <2>1. work' \in Database
    BY <1>3 DEF PrepareJob, Statement, RowsOK, Database, Captured
  <2>2. ASSUME NEW p \in Occurrences PROVE RowOK(work', p)
    BY <1>3 DEF PrepareJob, Statement, RowsOK, RowOK, Database, Captured
  <2>3. Kept(work, work')
    BY <1>3 DEF PrepareJob, Statement, RowsOK, RowOK, Kept, ImportTrue, Database, Captured
  <2>4. work'.version = work.version
    BY <1>3 DEF PrepareJob, Statement, RowsOK, Database
  <2> QED BY <2>1, <2>2, <2>3, <2>4 DEF RowsOK, Carries
<1>4. CASE RecordProvenance(o)
  <2>1. work' \in Database
    BY <1>4 DEF RecordProvenance, ProvenanceMatches, Statement, RowsOK, Database, Captured
  <2>2. ASSUME NEW p \in Occurrences PROVE RowOK(work', p)
    BY <1>4 DEF RecordProvenance, ProvenanceMatches, Statement, RowsOK, RowOK, Database, Captured
  <2>3. Kept(work, work')
    BY <1>4 DEF RecordProvenance, ProvenanceMatches, Statement, RowsOK, RowOK, Kept, ImportTrue, Database, Captured
  <2>4. work'.version = work.version
    BY <1>4 DEF RecordProvenance, ProvenanceMatches, Statement, RowsOK, Database
  <2> QED BY <2>1, <2>2, <2>3, <2>4 DEF RowsOK, Carries
<1>5. ASSUME NEW a \in Artifacts, InsertJobComplete(o, a) PROVE Carries
  <2>1. work' \in Database
    BY <1>5 DEF InsertJobComplete, Statement, RowsOK, Database, Captured
  <2>2. ASSUME NEW p \in Occurrences PROVE RowOK(work', p)
    BY <1>5 DEF InsertJobComplete, Statement, RowsOK, RowOK, Database, Captured
  <2>3. Kept(work, work')
    BY <1>5 DEF InsertJobComplete, Statement, RowsOK, RowOK, Kept, ImportTrue, Database, Captured
  <2>4. work'.version = work.version
    BY <1>5 DEF InsertJobComplete, Statement, RowsOK, Database
  <2> QED BY <2>1, <2>2, <2>3, <2>4 DEF RowsOK, Carries
<1>6. ASSUME NEW a \in Artifacts, CompleteJob(o, a) PROVE Carries
  <2>1. work' \in Database
    BY <1>6 DEF CompleteJob, ImportMatches, Statement, RowsOK, Database, Captured
  <2>2. ASSUME NEW p \in Occurrences PROVE RowOK(work', p)
    BY <1>6 DEF CompleteJob, ImportMatches, Statement, RowsOK, RowOK, Database, Captured
  <2>3. Kept(work, work')
    BY <1>6 DEF CompleteJob, ImportMatches, Statement, RowsOK, RowOK, Kept, ImportTrue, Database, Captured
  <2>4. work'.version = work.version
    BY <1>6 DEF CompleteJob, ImportMatches, Statement, RowsOK, Database
  <2> QED BY <2>1, <2>2, <2>3, <2>4 DEF RowsOK, Carries
<1> QED BY <1>1, <1>2, <1>3, <1>4, <1>5, <1>6 DEF Import

LEMMA ReplicateKeeps ==
  ASSUME RowsOK(work), NEW o \in Occurrences, Replicate(o)
  PROVE  Carries
<1> USE EvidenceAssumption
<1>1. ASSUME NEW kind \in {"mounted_nfs_v4", "object_store"}, InsertTarget(o, kind) PROVE Carries
  <2>1. work' \in Database
    BY <1>1 DEF InsertTarget, Statement, RowsOK, Database, Captured
  <2>2. ASSUME NEW p \in Occurrences PROVE RowOK(work', p)
    BY <1>1 DEF InsertTarget, Statement, RowsOK, RowOK, Database, Captured
  <2>3. Kept(work, work')
    BY <1>1 DEF InsertTarget, Statement, RowsOK, RowOK, Kept, ImportTrue, Database, Captured
  <2>4. work'.version = work.version
    BY <1>1 DEF InsertTarget, Statement, RowsOK, Database
  <2> QED BY <2>1, <2>2, <2>3, <2>4 DEF RowsOK, Carries
<1>2. ASSUME NEW state \in {"PENDING", "VERIFIED"}, InsertReplica(o, state) PROVE Carries
  <2>1. work' \in Database
    BY <1>2 DEF InsertReplica, Statement, RowsOK, Database, Captured
  <2>2. ASSUME NEW p \in Occurrences PROVE RowOK(work', p)
    BY <1>2 DEF InsertReplica, Statement, RowsOK, RowOK, Database, Captured
  <2>3. Kept(work, work')
    BY <1>2 DEF InsertReplica, Statement, RowsOK, RowOK, Kept, ImportTrue, Database, Captured
  <2>4. work'.version = work.version
    BY <1>2 DEF InsertReplica, Statement, RowsOK, Database
  <2> QED BY <2>1, <2>2, <2>3, <2>4 DEF RowsOK, Carries
<1>3. CASE MarkReplica(o)
  <2>1. work' \in Database
    BY <1>3 DEF MarkReplica, Statement, RowsOK, Database, Captured
  <2>2. ASSUME NEW p \in Occurrences PROVE RowOK(work', p)
    BY <1>3 DEF MarkReplica, Statement, RowsOK, RowOK, Database, Captured
  <2>3. Kept(work, work')
    BY <1>3 DEF MarkReplica, Statement, RowsOK, RowOK, Kept, ImportTrue, Database, Captured
  <2>4. work'.version = work.version
    BY <1>3 DEF MarkReplica, Statement, RowsOK, Database
  <2> QED BY <2>1, <2>2, <2>3, <2>4 DEF RowsOK, Carries
<1> QED BY <1>1, <1>2, <1>3 DEF Replicate

-----------------------------------------------------------------------------
(* Migrations *)

\* A column can be replaced as a whole.
LEMMA Replaced ==
  ASSUME NEW E, NEW F, NEW G, NEW H, NEW J, NEW L, NEW version \in 0..10,
         NEW rows, NEW d \in
             [version : 0..10, expected : E, capture : F, event : G, asserted : F, attempt : H,
              recording : {"none", "PREPARED", "COMPLETE"}, job : J, output : F, provenance : H,
              target : {"none", "mounted_nfs_v4", "object_store"}, replica : L]
  PROVE  /\ rows \in E => [d EXCEPT !.version = version, !.expected = rows] \in
             [version : 0..10, expected : E, capture : F, event : G, asserted : F, attempt : H,
              recording : {"none", "PREPARED", "COMPLETE"}, job : J, output : F, provenance : H,
              target : {"none", "mounted_nfs_v4", "object_store"}, replica : L]
         /\ rows \in F => [d EXCEPT !.version = version, !.asserted = rows] \in
             [version : 0..10, expected : E, capture : F, event : G, asserted : F, attempt : H,
              recording : {"none", "PREPARED", "COMPLETE"}, job : J, output : F, provenance : H,
              target : {"none", "mounted_nfs_v4", "object_store"}, replica : L]
OBVIOUS

LEMMA ReplacedExpected ==
  ASSUME NEW d \in Database, NEW rows \in [Occurrences -> {"none", "PREPARED", "COMPLETE", "GAP"}]
  PROVE  [d EXCEPT !.version = 3, !.expected = rows] \in Database
<1>1. 3 \in 0..10
  OBVIOUS
<1> QED BY <1>1, Replaced, Zenon DEF Database

LEMMA ReplacedAsserted ==
  ASSUME NEW d \in Database, NEW rows \in [Occurrences -> Captured]
  PROVE  [d EXCEPT !.version = 7, !.asserted = rows] \in Database
<1>1. 7 \in 0..10
  OBVIOUS
<1> QED BY <1>1, Replaced, Zenon DEF Database

LEMMA CreateTablesKeeps ==
  ASSUME RowsOK(work), RowsOK(db), CreateTables
  PROVE  /\ RowsOK(work') /\ Kept(work, work')
         /\ Migrating(db, work, release) => Migrating(db, work', release)
<1>1. PICK version \in {1, 2, 4, 5, 6, 9, 10} :
         Pending(version) /\ work' = [work EXCEPT !.version = version]
  BY DEF CreateTables
<1>2. work' \in Database
  BY <1>1 DEF Pending, RowsOK, Database
<1>3. ASSUME NEW p \in Occurrences PROVE RowOK(work', p)
  BY <1>1 DEF Pending, RowsOK, RowOK, Database
<1>4. Kept(work, work')
  BY <1>1 DEF Pending, RowsOK, Kept, Database
<1>5. Migrating(db, work, release) => Migrating(db, work', release)
  <2>1. /\ work'.version = version /\ work'.expected = work.expected
        /\ work'.capture = work.capture /\ work'.asserted = work.asserted /\ work'.event = work.event
    BY <1>1 DEF RowsOK, Database
  <2>2. version = work.version + 1 /\ version <= release /\ UNCHANGED <<db, release>>
    BY <1>1 DEF Pending
  <2>3. db.version \in Nat /\ work.version \in Nat
    BY DEF RowsOK, Database
  <2>4. work.version # 2 /\ work.version # 6 /\ work.version # 7
    BY <1>1, <2>2, <2>3
  <2> QED BY <2>1, <2>2, <2>3, <2>4 DEF Migrating, DeferredKeysHold
<1> QED BY <1>2, <1>3, <1>4, <1>5 DEF RowsOK

LEMMA BackfillExpectedKeeps ==
  ASSUME RowsOK(work), RowsOK(db), BackfillExpected
  PROVE  /\ RowsOK(work') /\ Kept(work, work')
         /\ Migrating(db, work, release) => Migrating(db, work', release)
<1>1. work' \in Database
  <2> DEFINE rows == [o \in Occurrences |-> IF work.capture[o] = NoArtifact THEN "none" ELSE "COMPLETE"]
  <2>1. rows \in [Occurrences -> {"none", "PREPARED", "COMPLETE", "GAP"}]
    OBVIOUS
  <2>2. work' = [work EXCEPT !.version = 3, !.expected = rows]
    BY DEF BackfillExpected
  <2> HIDE DEF rows
  <2> QED BY <2>1, <2>2, ReplacedExpected DEF RowsOK
<1>2. ASSUME NEW p \in Occurrences PROVE RowOK(work', p)
  BY DEF BackfillExpected, Pending, RowsOK, RowOK, Database
<1>3. Kept(work, work')
  <2>1. /\ work'.version = 3 /\ work.version = 2 /\ work'.recording = work.recording
        /\ work'.asserted = work.asserted /\ work'.job = work.job /\ work'.output = work.output
        /\ work'.provenance = work.provenance /\ work'.replica = work.replica
    BY DEF BackfillExpected, Pending, RowsOK, Database
  <2>2. \A o \in Occurrences : work.expected[o] = "none"
    BY <2>1 DEF RowsOK, RowOK
  <2> QED BY <2>1, <2>2 DEF Kept
<1>4. Migrating(db, work, release) => Migrating(db, work', release)
  <2>1. /\ work'.version = 3 /\ work.version = 2 /\ 3 <= release /\ UNCHANGED <<db, release>>
        /\ work'.capture = work.capture /\ work'.asserted = work.asserted /\ work'.event = work.event
        /\ \A o \in Occurrences : work.capture[o] # NoArtifact => work'.expected[o] = "COMPLETE"
    BY DEF BackfillExpected, Pending, RowsOK, Database
  <2>2. db.version \in Nat
    BY DEF RowsOK, Database
  <2> QED BY <2>1, <2>2 DEF Migrating, DeferredKeysHold
<1> QED BY <1>1, <1>2, <1>3, <1>4 DEF RowsOK

LEMMA BackfillAssertionsKeeps ==
  ASSUME RowsOK(work), RowsOK(db), BackfillAssertions
  PROVE  /\ RowsOK(work') /\ Kept(work, work')
         /\ Migrating(db, work, release) => Migrating(db, work', release)
<1>1. work' \in Database
  <2>1. work.capture \in [Occurrences -> Captured]
    BY DEF RowsOK, Database
  <2> QED BY <2>1, ReplacedAsserted DEF BackfillAssertions, RowsOK
<1>2. ASSUME NEW p \in Occurrences PROVE RowOK(work', p)
  BY DEF BackfillAssertions, Pending, RowsOK, RowOK, Database
<1>3. Kept(work, work')
  BY DEF BackfillAssertions, Pending, RowsOK, RowOK, Kept, Database
<1>4. Migrating(db, work, release) => Migrating(db, work', release)
  <2>1. /\ work'.version = 7 /\ work.version = 6 /\ 7 <= release /\ UNCHANGED <<db, release>>
        /\ work'.expected = work.expected /\ work'.event = work.event
        /\ work'.capture = work.capture /\ work'.asserted = work.capture
        /\ OneCaptureEach(work)
    BY DEF BackfillAssertions, Pending, RowsOK, Database
  <2>2. db.version \in Nat
    BY DEF RowsOK, Database
  <2> QED BY <2>1, <2>2 DEF Migrating, DeferredKeysHold, OneCaptureEach
<1> QED BY <1>1, <1>2, <1>3, <1>4 DEF RowsOK

LEMMA CloseCycleKeeps ==
  ASSUME RowsOK(work), RowsOK(db), CloseCycle
  PROVE  /\ RowsOK(work') /\ Kept(work, work')
         /\ Migrating(db, work, release) => Migrating(db, work', release)
<1>1. work' \in Database
  BY DEF CloseCycle, Pending, RowsOK, Database
<1>2. ASSUME NEW p \in Occurrences PROVE RowOK(work', p)
  BY DEF CloseCycle, Pending, AssertionsExpected, RowsOK, RowOK, Database
<1>3. Kept(work, work')
  BY DEF CloseCycle, Pending, RowsOK, RowOK, Kept, Database
<1>4. Migrating(db, work, release) => Migrating(db, work', release)
  <2>1. /\ work'.version = 8 /\ work.version = 7 /\ 8 <= release /\ UNCHANGED <<db, release>>
        /\ work'.expected = work.expected
        /\ work'.capture = work.capture /\ work'.asserted = work.asserted /\ work'.event = work.event
    BY DEF CloseCycle, Pending, RowsOK, Database
  <2>2. db.version \in Nat
    BY DEF RowsOK, Database
  <2> QED BY <2>1, <2>2 DEF Migrating, DeferredKeysHold
<1> QED BY <1>1, <1>2, <1>3, <1>4 DEF RowsOK

-----------------------------------------------------------------------------
(* The invariant *)

LEMMA InitEvidence == Init => EvidenceInv
<1> SUFFICES ASSUME Init PROVE EvidenceInv
  OBVIOUS
<1>1. EmptyDatabase \in Database
  BY DEF EmptyDatabase, Database, Captured
<1>2. ASSUME NEW o \in Occurrences PROVE RowOK(EmptyDatabase, o)
  BY DEF EmptyDatabase, RowOK
<1>3. DeferredKeysHold(EmptyDatabase)
  BY DEF EmptyDatabase, DeferredKeysHold
<1> QED BY <1>1, <1>2, <1>3, EvidenceAssumption DEF Init, EvidenceInv, RowsOK

\* A statement of a writer changes only what its transaction sees.
LEMMA StatementKeepsInv ==
  ASSUME EvidenceInv, NEW o \in Occurrences, Carries, holder = o,
         UNCHANGED <<db, holder, release, outcome>>
  PROVE  EvidenceInv'
<1>1. Kept(db, work')
  BY KeptTransitive, EvidenceAssumption DEF EvidenceInv, Carries
<1> QED BY <1>1, EvidenceAssumption DEF EvidenceInv, Carries

LEMMA NextEvidence == EvidenceInv /\ [Next]_vars => EvidenceInv'
<1> SUFFICES ASSUME EvidenceInv, [Next]_vars PROVE EvidenceInv'
  OBVIOUS
<1> USE EvidenceAssumption
<1>1. ASSUME NEW o \in Occurrences, Begin(o) PROVE EvidenceInv'
  BY <1>1, KeptReflexive DEF Begin, EvidenceInv, RowsOK
<1>2. CASE Commit
  BY <1>2 DEF Commit, EvidenceInv
<1>3. CASE Rollback
  BY <1>3 DEF Rollback, EvidenceInv
<1>4. ASSUME NEW o \in Occurrences, Write(o) PROVE EvidenceInv'
  <2>1. holder = o /\ UNCHANGED <<db, holder, release, outcome>>
    BY <1>4 DEF Write, Prepare, InsertTerminal, Terminate, Capture, RewriteCapture,
        EraseCapture, EraseEvent, Mutable, RecordEvent, AssertOccurrence, Statement
  <2> QED BY <1>4, <2>1, WriteKeeps, StatementKeepsInv DEF EvidenceInv
<1>5. ASSUME NEW o \in Streamed, RecordAttempt(o) PROVE EvidenceInv'
  <2>1. holder = o /\ UNCHANGED <<db, holder, release, outcome>>
    BY <1>5 DEF RecordAttempt, Statement
  <2> QED BY <1>5, <2>1, AttemptKeeps, StatementKeepsInv DEF EvidenceInv
<1>6. ASSUME NEW o \in Imported, Import(o) PROVE EvidenceInv'
  <2>1. holder = o /\ UNCHANGED <<db, holder, release, outcome>>
    BY <1>6 DEF Import, InsertRecording, CompleteRecording, PrepareJob, RecordProvenance,
        InsertJobComplete, CompleteJob, Statement
  <2> QED BY <1>6, <2>1, ImportKeeps, StatementKeepsInv DEF EvidenceInv
<1>7. ASSUME NEW o \in Replicated, Replicate(o) PROVE EvidenceInv'
  <2>1. holder = o /\ UNCHANGED <<db, holder, release, outcome>>
    BY <1>7 DEF Replicate, InsertTarget, InsertReplica, MarkReplica, Statement
  <2> QED BY <1>7, <2>1, ReplicateKeeps, StatementKeepsInv DEF EvidenceInv
<1>8. ASSUME NEW r \in Releases, MigrateBegin(r) PROVE EvidenceInv'
  <2>1. CASE db.version > r
    BY <1>8, <2>1 DEF MigrateBegin, EvidenceInv, RowsOK, Database
  <2>2. CASE db.version <= r
    <3>1. Kept(db, db) /\ Migrating(db, db, r)
      BY <2>2, KeptReflexive DEF EvidenceInv, RowsOK, Migrating, Database
    <3> QED BY <1>8, <2>2, <3>1 DEF MigrateBegin, EvidenceInv, RowsOK, Database
  <2> QED BY <2>1, <2>2 DEF EvidenceInv, RowsOK, Database
<1>9. CASE MigrateStep
  <2>1. CASE CreateTables \/ BackfillExpected \/ BackfillAssertions \/ CloseCycle
    <3>1. holder = Migrator /\ UNCHANGED <<db, holder, release, outcome>>
      BY <2>1 DEF CreateTables, BackfillExpected, BackfillAssertions, CloseCycle, Pending
    <3>2. /\ RowsOK(work') /\ Kept(work, work')
          /\ Migrating(db, work, release) => Migrating(db, work', release)
      BY <2>1, CreateTablesKeeps, BackfillExpectedKeeps, BackfillAssertionsKeeps, CloseCycleKeeps DEF EvidenceInv
    <3>3. Kept(db, work')
      BY <3>1, <3>2, KeptTransitive, EvidenceAssumption DEF EvidenceInv
    <3> QED BY <3>1, <3>2, <3>3 DEF EvidenceInv
  <2>2. CASE MigrateCommit
    BY <2>2 DEF MigrateCommit, EvidenceInv
  <2>3. CASE MigrateRefused
    BY <2>3 DEF MigrateRefused, EvidenceInv
  <2> QED BY <1>9, <2>1, <2>2, <2>3 DEF MigrateStep
<1>10. CASE MigrateCrash
  BY <1>10 DEF MigrateCrash, EvidenceInv
<1>11. CASE UNCHANGED vars
  BY <1>11 DEF vars, EvidenceInv
<1> QED BY <1>1, <1>2, <1>3, <1>4, <1>5, <1>6, <1>7, <1>8, <1>9, <1>10, <1>11 DEF Next

\* EvidenceInv is an invariant: what an open transaction sees obeys the triggers,
\* still holds all committed evidence and, in a migration, has changed only what
\* its versions change.
THEOREM EvidenceInvariant == Spec => []EvidenceInv
BY InitEvidence, NextEvidence, PTL DEF Spec

\* The committed rows and the open transaction are always of their types.
THEOREM EvidenceTypes == Spec => []EvidenceTypeOK
<1>1. EvidenceInv => EvidenceTypeOK
  BY DEF EvidenceInv, EvidenceTypeOK, RowsOK
<1> QED BY <1>1, EvidenceInvariant, PTL

\* Captures, assertions and expected rows agree from version 8 on: the triggers
\* guard the assertions, the migrations what came before them and COMMIT the keys.
THEOREM AuthorityAgreement == Spec => []AuthorityAgrees
<1>1. EvidenceInv => AuthorityAgrees
  BY DEF EvidenceInv, AuthorityAgrees, RowsOK, RowOK, DeferredKeysHold
<1> QED BY <1>1, EvidenceInvariant, PTL

\* The events in the outbox stay true of the rows they announce.
THEOREM EventsStayTrue == Spec => []EventsTrue
<1>1. EvidenceInv => EventsTrue
  BY DEF EvidenceInv, EventsTrue, RowsOK, RowOK, DeferredKeysHold
<1> QED BY <1>1, EvidenceInvariant, PTL

\* What a commit publishes: the rows of its transaction, which a writer leaves at
\* the committed version.
LEMMA CommittedRows ==
  ASSUME EvidenceInv, [Next]_vars
  PROVE  \/ UNCHANGED db
         \/ /\ RowsOK(db) /\ RowsOK(db') /\ Kept(db, db')
            /\ db'.version = db.version \/ (db'.capture = db.capture /\ db'.event = db.event)
<1> USE EvidenceAssumption
<1>1. CASE Commit
  <2>1. holder \in Occurrences /\ db' = work
    BY <1>1 DEF Commit
  <2>2. RowsOK(db) /\ RowsOK(work) /\ Kept(db, work) /\ work.version = db.version
    BY <2>1 DEF EvidenceInv
  <2>3. RowsOK(db') /\ Kept(db, db') /\ db'.version = db.version
    BY <2>1, <2>2, Zenon
  <2> QED BY <2>2, <2>3
<1>2. CASE MigrateCommit
  <2>1. holder = Migrator /\ db' = work
    BY <1>2 DEF MigrateCommit
  <2> QED BY <2>1 DEF EvidenceInv, Migrating
<1>3. CASE ~ Commit /\ ~ MigrateCommit
  BY <1>3 DEF Next, vars, Begin, Rollback, Write, Prepare, InsertTerminal, Terminate,
    Capture, RewriteCapture, EraseCapture, EraseEvent, Mutable, RecordEvent, AssertOccurrence,
    Statement, RecordAttempt, Import, InsertRecording, CompleteRecording, PrepareJob,
    RecordProvenance, InsertJobComplete, CompleteJob, Replicate, InsertTarget,
    InsertReplica, MarkReplica, MigrateBegin, MigrateStep,
    CreateTables, BackfillExpected, BackfillAssertions, CloseCycle, Pending,
    MigrateRefused, MigrateCrash
<1> QED BY <1>1, <1>2, <1>3

\* A job committed as PREPARED is completed only with what its occurrence captured,
\* and a true import stays true.
THEOREM ImportsTruthful == Spec => ImportsStayTrue
<1> DEFINE Truthful ==
  \A o \in Occurrences :
    /\ db.job[o] = "PREPARED" => db'.job[o] = "PREPARED" \/ ImportTrue(db', o)
    /\ ImportTrue(db, o) => ImportTrue(db', o)
<1>1. EvidenceInv /\ [Next]_vars => [Truthful]_db
  <2> SUFFICES ASSUME EvidenceInv, [Next]_vars, ~ UNCHANGED db, NEW o \in Occurrences
               PROVE  /\ db.job[o] = "PREPARED" => db'.job[o] = "PREPARED" \/ ImportTrue(db', o)
                      /\ ImportTrue(db, o) => ImportTrue(db', o)
    OBVIOUS
  <2>1. RowsOK(db) /\ Kept(db, db')
    BY CommittedRows
  <2> QED BY <2>1, TrueImportsKept DEF Kept
<1> QED BY <1>1, EvidenceInvariant, PTL DEF Spec, ImportsStayTrue

\* No commit, of a writer or of a migration, loses committed evidence that the
\* schema of its time protects.
THEOREM HistoryIsKept == Spec => HistoryKept
<1> DEFINE Keeps ==
  /\ db'.version >= db.version
  /\ db.recording = "COMPLETE" => db'.recording = "COMPLETE"
  /\ \A o \in Occurrences :
       /\ db.version >= 3 \/ db'.version > db.version =>
            /\ db.capture[o] # NoArtifact => db'.capture[o] = db.capture[o]
            /\ db.event[o] # "none" => db'.event[o] = db.event[o]
       /\ db.expected[o] \in {"COMPLETE", "GAP"} => db'.expected[o] = db.expected[o]
       /\ db.expected[o] = "PREPARED" => db'.expected[o] # "none"
       /\ db.asserted[o] # NoArtifact => db'.asserted[o] = db.asserted[o]
       /\ db.job[o] # "none" => db'.job[o] # "none"
       /\ db.job[o] = "COMPLETE" => db'.job[o] = "COMPLETE" /\ db'.output[o] = db.output[o]
       /\ db.provenance[o] => db'.provenance[o]
       /\ db.replica[o] = "VERIFIED" => db'.replica[o] = "VERIFIED"
<1>1. EvidenceInv /\ [Next]_vars => [Keeps]_db
  <2> SUFFICES ASSUME EvidenceInv, [Next]_vars, ~ UNCHANGED db PROVE Keeps
    OBVIOUS
  <2>1. /\ RowsOK(db) /\ Kept(db, db')
        /\ db'.version = db.version \/ (db'.capture = db.capture /\ db'.event = db.event)
    BY CommittedRows
  <2>2. db.version \in Nat
    BY <2>1 DEF RowsOK, Database
  <2> QED BY <2>1, <2>2 DEF Kept
<1> QED BY <1>1, EvidenceInvariant, PTL DEF Spec, HistoryKept

\* migrate() refuses only rows its release cannot hold.
THEOREM RefusalsAreSound == Spec => RefusesOnlyUnsound
<1> DEFINE Sound == outcome' = "refused" /\ outcome # "refused" => ~ Upgradable(db, release) /\ db' = db
<1>1. EvidenceInv /\ [Next]_vars => [Sound]_vars
  <2> SUFFICES ASSUME EvidenceInv, Next, outcome' = "refused", outcome # "refused"
               PROVE  ~ Upgradable(db, release) /\ db' = db
    OBVIOUS
  <2>1. MigrateRefused
    BY DEF Next, vars, Begin, Commit, Rollback, Write, Prepare, InsertTerminal, Terminate,
      Capture, RewriteCapture, EraseCapture, EraseEvent, Mutable, RecordEvent, AssertOccurrence,
      Statement, RecordAttempt, Import, InsertRecording, CompleteRecording, PrepareJob,
      RecordProvenance, InsertJobComplete, CompleteJob, Replicate, InsertTarget,
      InsertReplica, MarkReplica, MigrateBegin, MigrateStep,
      CreateTables, BackfillExpected, BackfillAssertions, CloseCycle, Pending,
      MigrateCommit, MigrateCrash
  <2>0. db' = db
    BY <2>1 DEF MigrateRefused
  <2>2. Migrating(db, work, release) /\ release \in Nat /\ db.version \in Nat /\ work.version \in Nat
    BY <2>1, EvidenceAssumption DEF MigrateRefused, EvidenceInv, RowsOK, Database
  <2>3. CASE work.version = 6 /\ work.version < release /\ ~ OneCaptureEach(work)
    BY <2>0, <2>2, <2>3 DEF Upgradable, Migrating, OneCaptureEach
  <2>4. CASE work.version = 7 /\ work.version < release /\ ~ AssertionsExpected(work)
    <3>1. PICK o \in Occurrences : work.asserted[o] # NoArtifact /\ work.expected[o] # "COMPLETE"
      BY <2>4 DEF AssertionsExpected
    <3>2. db.capture[o] # NoArtifact
      BY <2>2, <2>4, <3>1 DEF Migrating, EvidenceInv, RowsOK, RowOK
    <3> QED BY <2>0, <2>2, <2>4, <3>1, <3>2 DEF Upgradable, Migrating
  <2>5. CASE work.version = release /\ ~ DeferredKeysHold(work)
    <3>1. work.version >= 8 /\ work.capture # work.asserted
      BY <2>5 DEF DeferredKeysHold
    <3>2. db.version = 7
      BY <2>2, <3>1 DEF Migrating, DeferredKeysHold
    <3>3. db.capture # db.asserted
      BY <2>2, <3>1, <3>2 DEF Migrating
    <3>4. PICK o \in Occurrences : db.capture[o] # db.asserted[o]
      BY <3>3 DEF EvidenceInv, RowsOK, Database
    <3>5. db.capture[o] # NoArtifact /\ db.asserted[o] = NoArtifact
      BY <3>2, <3>4 DEF EvidenceInv, RowsOK, RowOK
    <3> QED BY <2>0, <2>2, <2>5, <3>1, <3>2, <3>5 DEF Upgradable
  <2> QED BY <2>1, <2>3, <2>4, <2>5 DEF MigrateRefused
<1> QED BY <1>1, EvidenceInvariant, PTL DEF Spec, RefusesOnlyUnsound

=============================================================================
