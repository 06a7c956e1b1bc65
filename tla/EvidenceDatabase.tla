-------------------------- MODULE EvidenceDatabase --------------------------
(***************************************************************************)
(* The SQLite authority as its schema defines it: the rows of one recorded *)
(* occurrence, the triggers and foreign keys that relate them in every     *)
(* generation of the schema, and migrate(), which brings a database of any *)
(* earlier generation to that of the running code.                         *)
(*                                                                         *)
(* A transaction (BEGIN IMMEDIATE) works on a copy, work, of the committed *)
(* database, db; the lock admits one at a time.  Each statement is a step, *)
(* so that a transaction can be committed, rolled back or lost in a crash  *)
(* after any of them; a statement that a trigger or an immediate foreign   *)
(* key refuses changes nothing and is no step.  A transaction is about one *)
(* occurrence and issues its statements in any order: commands of every    *)
(* generation share the file.                                              *)
(***************************************************************************)
EXTENDS Naturals

CONSTANTS
  Occurrences,          \* captured occurrences
  Streamed,             \* those with an rtsp_capture_attempts row
  Imported,             \* those cut from the one recording
  Replicated,           \* those discovered by the replication worker
  Artifacts,            \* raw artifacts, all registered by the first writer
  NoArtifact,           \* a missing capture, assertion or output
  Nobody, Migrator,     \* who holds the write lock when no writer does
  Releases              \* the newest migration of each release of the code

ASSUME EvidenceAssumption ==
  /\ NoArtifact \notin Artifacts
  /\ Streamed \subseteq Occurrences
  /\ Imported \subseteq Occurrences
  /\ Replicated \subseteq Occurrences
  /\ Nobody # Migrator
  /\ {Nobody, Migrator} \cap Occurrences = {}
  /\ Releases \subseteq 2..10

VARIABLES
  db,                   \* the committed database
  work,                 \* what the open transaction sees
  holder,               \* who holds the write lock: a writer is known by its occurrence
  release,              \* the release whose migrate() runs, 0 when none does
  outcome               \* of the last migrate(), until the next transaction begins

vars == <<db, work, holder, release, outcome>>

Captured == Artifacts \cup {NoArtifact}

\* Left out: columns no constraint compares, and expected_occurrences.artifact_id,
\* which no constraint compares with the artifact of the capture; the layout of
\* an assertion.
Database ==
  [version    : 0..10,
   expected   : [Occurrences -> {"none", "PREPARED", "COMPLETE", "GAP"}],
   capture    : [Occurrences -> Captured],
   event      : [Occurrences -> {"none", "SegmentFinalized", "GapRecorded"}],
   asserted   : [Occurrences -> Captured],
   attempt    : [Occurrences -> BOOLEAN],
   recording  : {"none", "PREPARED", "COMPLETE"},
   job        : [Occurrences -> {"none", "PREPARED", "COMPLETE"}],
   output     : [Occurrences -> Captured],
   provenance : [Occurrences -> BOOLEAN],
   target     : {"none", "mounted_nfs_v4", "object_store"},
   replica    : [Occurrences -> {"none", "PENDING", "VERIFIED"}]]

EmptyDatabase ==
  [version    |-> 0,
   expected   |-> [o \in Occurrences |-> "none"],
   capture    |-> [o \in Occurrences |-> NoArtifact],
   event      |-> [o \in Occurrences |-> "none"],
   asserted   |-> [o \in Occurrences |-> NoArtifact],
   attempt    |-> [o \in Occurrences |-> FALSE],
   recording  |-> "none",
   job        |-> [o \in Occurrences |-> "none"],
   output     |-> [o \in Occurrences |-> NoArtifact],
   provenance |-> [o \in Occurrences |-> FALSE],
   target     |-> "none",
   replica    |-> [o \in Occurrences |-> "none"]]

Init ==
  /\ db = EmptyDatabase
  /\ work = EmptyDatabase
  /\ holder = Nobody
  /\ release = 0
  /\ outcome = "none"

-----------------------------------------------------------------------------
(* Transactions *)

Begin(o) ==
  /\ holder = Nobody
  /\ db.version > 0
  /\ holder' = o
  /\ work' = db
  /\ outcome' = "none"
  /\ UNCHANGED <<db, release>>

\* What COMMIT checks: from version 8 on a capture and its assertion refer to
\* each other, by occurrence, source and artifact, through deferred keys.
DeferredKeysHold(d) == d.version >= 8 => d.capture = d.asserted

Commit ==
  /\ holder \in Occurrences
  /\ DeferredKeysHold(work)
  /\ db' = work
  /\ holder' = Nobody
  /\ UNCHANGED <<work, release, outcome>>

\* The writer rolls back, or its process dies and SQLite rolls back.
Rollback ==
  /\ holder \in Occurrences
  /\ work' = db
  /\ holder' = Nobody
  /\ UNCHANGED <<db, release, outcome>>

\* A statement of the open transaction, from a version of the schema.
Statement(o, since) ==
  /\ holder = o
  /\ work.version >= since
  /\ UNCHANGED <<db, holder, release, outcome>>

-----------------------------------------------------------------------------
(* Occurrences: what was expected, what was captured, what was announced *)

Prepare(o) ==
  /\ Statement(o, 3)
  /\ work.expected[o] = "none"
  /\ work' = [work EXCEPT !.expected[o] = "PREPARED"]

\* A row may also be inserted in its terminal state, as the demonstrations do: the
\* triggers of these tables guard updates, and the CHECKs admit every state.
InsertTerminal(o, terminal) ==
  /\ Statement(o, 3)
  /\ work.expected[o] = "none"
  /\ work' = [work EXCEPT !.expected[o] = terminal]

\* expected_occurrences_guard_update, which version 7 must put back on the table it
\* rebuilds: a terminal row is never updated.
Unterminated(o) == work.expected[o] = "PREPARED"

Terminate(o, terminal) ==
  /\ Statement(o, 3)
  /\ Unterminated(o)
  /\ work' = [work EXCEPT !.expected[o] = terminal]

\* No trigger guards this insert: before version 8 nothing ties a capture to
\* what was expected.
Capture(o, a) ==
  /\ Statement(o, 2)
  /\ work.capture[o] = NoArtifact
  /\ work' = [work EXCEPT !.capture[o] = a]

\* Until version 3 makes captures and events immutable, both may be deleted and a
\* capture may be given another artifact; an event keeps its capture.
Mutable(o) ==
  /\ Statement(o, 2)
  /\ work.version = 2

RewriteCapture(o, a) ==
  /\ Mutable(o)
  /\ work.capture[o] # NoArtifact
  /\ work' = [work EXCEPT !.capture[o] = a]

EraseCapture(o) ==
  /\ Mutable(o)
  /\ work.event[o] = "none"
  /\ work.capture[o] # NoArtifact
  /\ work' = [work EXCEPT !.capture[o] = NoArtifact]

EraseEvent(o) ==
  /\ Mutable(o)
  /\ work.event[o] # "none"
  /\ work' = [work EXCEPT !.event[o] = "none"]

\* Mutation: the trigger is lost when version 7 rebuilds the table.
RecordEventRebuilt(o, type) ==
  /\ Statement(o, 2)
  /\ work.event[o] = "none"
  /\ \/ work.version >= 7
     \/ /\ type = "SegmentFinalized"
        /\ work.capture[o] # NoArtifact
        /\ work.version >= 3 => work.expected[o] = "COMPLETE"
     \/ /\ type = "GapRecorded"
        /\ work.version >= 3
        /\ work.expected[o] = "GAP"
        /\ work.capture[o] = NoArtifact
  /\ work' = [work EXCEPT !.event[o] = type]

\* outbox_events_terminal_correctness, on the table of version 3 and on each that
\* was rebuilt from it.
TerminalCorrect(o, type) ==
  \/ /\ type = "SegmentFinalized"
     /\ work.expected[o] = "COMPLETE"
     /\ work.capture[o] # NoArtifact
  \/ /\ type = "GapRecorded"
     /\ work.expected[o] = "GAP"
     /\ work.capture[o] = NoArtifact

\* outbox_events: one event of an occurrence; before version 3 it was only known
\* by a foreign key to the capture.
RecordEvent(o, type) ==
  /\ Statement(o, 2)
  /\ work.event[o] = "none"
  /\ \/ work.version >= 3 /\ TerminalCorrect(o, type)
     \/ work.version < 3 /\ type = "SegmentFinalized" /\ work.capture[o] # NoArtifact
  /\ work' = [work EXCEPT !.event[o] = type]

\* rtsp_capture_attempts_requires_prepared
AttemptExpected(o) == work.expected[o] = "PREPARED"

RecordAttempt(o) ==
  /\ Statement(o, 6)
  /\ ~ work.attempt[o]
  /\ AttemptExpected(o)
  /\ work' = [work EXCEPT !.attempt[o] = TRUE]

\* capture_occurrence_assertions_requires_complete; from version 8 on the capture
\* may follow, up to the COMMIT.
AssertOccurrence(o, a) ==
  /\ Statement(o, 7)
  /\ work.asserted[o] = NoArtifact
  /\ work.expected[o] = "COMPLETE"
  /\ work.version = 7 => work.capture[o] = a
  /\ work' = [work EXCEPT !.asserted[o] = a]

-----------------------------------------------------------------------------
(* Recordings and the occurrences imported from them *)

InsertRecording(o, state) ==
  /\ Statement(o, 5)
  /\ work.recording = "none"
  /\ work' = [work EXCEPT !.recording = state]

\* recording_imports_guard_update
CompleteRecording(o) ==
  /\ Statement(o, 5)
  /\ work.recording = "PREPARED"
  /\ work' = [work EXCEPT !.recording = "COMPLETE"]

PrepareJob(o) ==
  /\ Statement(o, 5)
  /\ work.recording # "none"
  /\ work.job[o] = "none"
  /\ work' = [work EXCEPT !.job[o] = "PREPARED"]

\* No trigger guards the insert of a job: one inserted as COMPLETE names any
\* registered artifact, captured or not.
InsertJobComplete(o, a) ==
  /\ Statement(o, 5)
  /\ work.recording # "none"
  /\ work.job[o] = "none"
  /\ work' = [work EXCEPT !.job[o] = "COMPLETE", !.output[o] = a]

\* recording_provenance_consistency; provenance and job of an occurrence share the
\* facts that the trigger compares.
ProvenanceMatches(o) == work.job[o] # "none"

\* The capture is named by a foreign key.
RecordProvenance(o) ==
  /\ Statement(o, 5)
  /\ ~ work.provenance[o]
  /\ ProvenanceMatches(o)
  /\ work.capture[o] # NoArtifact
  /\ work' = [work EXCEPT !.provenance[o] = TRUE]

\* Mutation: the capture is looked up without its artifact.
CompleteJobAny(o, a) ==
  /\ Statement(o, 5)
  /\ work.job[o] = "PREPARED"
  /\ work.recording = "COMPLETE"
  /\ work.expected[o] = "COMPLETE"
  /\ work.provenance[o]
  /\ work' = [work EXCEPT !.job[o] = "COMPLETE", !.output[o] = a]

\* recording_import_jobs_guard_update, recreated when the tables that its body
\* reads are rebuilt.
ImportMatches(o, a) ==
  /\ work.job[o] = "PREPARED"
  /\ work.recording = "COMPLETE"
  /\ work.expected[o] = "COMPLETE"
  /\ work.capture[o] = a
  /\ work.provenance[o]

CompleteJob(o, a) ==
  /\ Statement(o, 5)
  /\ ImportMatches(o, a)
  /\ work' = [work EXCEPT !.job[o] = "COMPLETE", !.output[o] = a]

-----------------------------------------------------------------------------
(* Replicas: what the replication worker registers of an object *)

InsertTarget(o, kind) ==
  /\ Statement(o, 9)
  /\ work.target = "none"
  /\ kind = "object_store" => work.version >= 10
  /\ work' = [work EXCEPT !.target = kind]

\* The worker inserts PENDING rows, and only of what is asserted; the table itself
\* refers to its target alone.
InsertReplica(o, state) ==
  /\ Statement(o, 9)
  /\ work.target # "none"
  /\ work.replica[o] = "none"
  /\ work' = [work EXCEPT !.replica[o] = state]

\* replica_objects_guard_update
MarkReplica(o) ==
  /\ Statement(o, 9)
  /\ work.replica[o] = "PENDING"
  /\ work' = [work EXCEPT !.replica[o] = "VERIFIED"]

-----------------------------------------------------------------------------
(* migrate(): one transaction applies every pending migration *)

MigrateBegin(r) ==
  /\ holder = Nobody
  /\ \/ /\ db.version > r               \* MigrationError: the database is ahead
        /\ outcome' = "ahead"
        /\ UNCHANGED <<db, work, holder, release>>
     \/ /\ db.version <= r
        /\ outcome' = "none"
        /\ work' = db
        /\ holder' = Migrator
        /\ release' = r
        /\ UNCHANGED db

Pending(version) ==
  /\ holder = Migrator
  /\ work.version + 1 = version
  /\ version <= release
  /\ UNCHANGED <<db, holder, release, outcome>>

\* New, empty tables; version 10 copies the replica tables to admit other adapters.
CreateTables ==
  \E version \in {1, 2, 4, 5, 6, 9, 10} :
     /\ Pending(version)
     /\ work' = [work EXCEPT !.version = version]

\* Every capture becomes a COMPLETE expected row; the events are copied.
BackfillExpected ==
  /\ Pending(3)
  /\ work' = [work EXCEPT
       !.version = 3,
       !.expected = [o \in Occurrences |-> IF work.capture[o] = NoArtifact THEN "none" ELSE "COMPLETE"]]

\* A legacy assertion takes the manifest URI of its artifact, which is unique.
OneCaptureEach(d) ==
  \A o, p \in Occurrences : o # p /\ d.capture[o] = d.capture[p] => d.capture[o] = NoArtifact

\* Mutation: the events are not copied to the rebuilt table.
BackfillAssertionsOnly ==
  /\ Pending(7)
  /\ OneCaptureEach(work)
  /\ work' = [work EXCEPT
       !.version = 7,
       !.asserted = work.capture,
       !.event = [o \in Occurrences |-> "none"]]

\* Every capture gets a legacy assertion; parents and children are rebuilt.
BackfillAssertions ==
  /\ Pending(7)
  /\ OneCaptureEach(work)
  /\ work' = [work EXCEPT !.version = 7, !.asserted = work.capture]

\* Mutation: the guard reads every expected row.
EveryRowComplete(d) == \A o \in Occurrences : d.expected[o] \in {"none", "COMPLETE"}

\* What __migration_v8_authority_guard admits.
AssertionsExpected(d) ==
  \A o \in Occurrences : d.asserted[o] # NoArtifact => d.expected[o] = "COMPLETE"

\* Mutation: the guard is left out.
CloseCycleUnguarded ==
  /\ Pending(8)
  /\ work' = [work EXCEPT !.version = 8]

\* Captures and assertions are rebuilt to refer to each other.
CloseCycle ==
  /\ Pending(8)
  /\ AssertionsExpected(work)
  /\ work' = [work EXCEPT !.version = 8]

MigrateCommit ==
  /\ holder = Migrator
  /\ work.version = release
  /\ DeferredKeysHold(work)
  /\ db' = work
  /\ holder' = Nobody
  /\ outcome' = "applied"
  /\ release' = 0
  /\ UNCHANGED work

\* A statement or the COMMIT fails; migrate() rolls back and raises.
MigrateRefused ==
  /\ holder = Migrator
  /\ \/ work.version = 6 /\ work.version < release /\ ~ OneCaptureEach(work)
     \/ work.version = 7 /\ work.version < release /\ ~ AssertionsExpected(work)
     \/ work.version = release /\ ~ DeferredKeysHold(work)
  /\ work' = db
  /\ holder' = Nobody
  /\ outcome' = "refused"
  /\ release' = 0
  /\ UNCHANGED db

\* The process dies; the journal rolls the transaction back.
MigrateCrash ==
  /\ holder = Migrator
  /\ work' = db
  /\ holder' = Nobody
  /\ outcome' = "crashed"
  /\ release' = 0
  /\ UNCHANGED db

-----------------------------------------------------------------------------

Write(o) ==
  \/ Prepare(o)
  \/ \E terminal \in {"COMPLETE", "GAP"} : InsertTerminal(o, terminal) \/ Terminate(o, terminal)
  \/ \E a \in Artifacts : Capture(o, a) \/ RewriteCapture(o, a)
  \/ EraseCapture(o)
  \/ EraseEvent(o)
  \/ \E type \in {"SegmentFinalized", "GapRecorded"} : RecordEvent(o, type)
  \/ \E a \in Artifacts : AssertOccurrence(o, a)

Import(o) ==
  \/ \E state \in {"PREPARED", "COMPLETE"} : InsertRecording(o, state)
  \/ CompleteRecording(o)
  \/ PrepareJob(o)
  \/ RecordProvenance(o)
  \/ \E a \in Artifacts : InsertJobComplete(o, a) \/ CompleteJob(o, a)

Replicate(o) ==
  \/ \E kind \in {"mounted_nfs_v4", "object_store"} : InsertTarget(o, kind)
  \/ \E state \in {"PENDING", "VERIFIED"} : InsertReplica(o, state)
  \/ MarkReplica(o)

MigrateStep ==
  \/ CreateTables
  \/ BackfillExpected
  \/ BackfillAssertions
  \/ CloseCycle
  \/ MigrateCommit
  \/ MigrateRefused

Next ==
  \/ \E o \in Occurrences : Begin(o)
  \/ Commit
  \/ Rollback
  \/ \E o \in Occurrences : Write(o)
  \/ \E o \in Streamed : RecordAttempt(o)
  \/ \E o \in Imported : Import(o)
  \/ \E o \in Replicated : Replicate(o)
  \/ \E r \in Releases : MigrateBegin(r)
  \/ MigrateStep
  \/ MigrateCrash

Spec == Init /\ [][Next]_vars

-----------------------------------------------------------------------------
(* Properties *)

\* Type invariant of the committed rows, the open transaction and its holder.
EvidenceTypeOK ==
  /\ db \in Database
  /\ work \in Database
  /\ holder \in Occurrences \cup {Nobody, Migrator}
  /\ release \in Releases \cup {0}
  /\ outcome \in {"none", "applied", "refused", "ahead", "crashed"}

\* From version 8 on the committed database holds a capture exactly where it holds
\* an assertion, of the same artifact and under a COMPLETE expected row, however
\* the rows of earlier releases came about and whoever committed them.
AuthorityAgrees ==
  db.version >= 8 =>
    \A o \in Occurrences :
       /\ db.capture[o] = db.asserted[o]
       /\ db.asserted[o] # NoArtifact => db.expected[o] = "COMPLETE"

\* A committed event stays true: a finalized segment has its capture and, once
\* occurrences are expected, a COMPLETE row; a recorded gap stays a gap, and from
\* version 8 on no capture is ever found beside it.
EventsTrue ==
  \A o \in Occurrences :
    /\ db.event[o] = "SegmentFinalized" =>
         /\ db.capture[o] # NoArtifact
         /\ db.version >= 3 => db.expected[o] = "COMPLETE"
    /\ db.event[o] = "GapRecorded" =>
         /\ db.expected[o] = "GAP"
         /\ db.version >= 8 => db.capture[o] = NoArtifact

\* What recording_import_jobs_guard_update asks of a completed import: it names the
\* artifact its occurrence captured, of a completed recording, with provenance.
ImportTrue(d, o) ==
  /\ d.job[o] = "COMPLETE"
  /\ d.recording = "COMPLETE"
  /\ d.expected[o] = "COMPLETE"
  /\ d.output[o] # NoArtifact
  /\ d.capture[o] = d.output[o]
  /\ d.provenance[o]

\* A job that was committed as PREPARED is completed only truthfully, and an import
\* once true stays true, through every rebuild of the tables it relates.  Nothing
\* is promised of a job that was inserted as COMPLETE.
ImportsStayTrue ==
  [][\A o \in Occurrences :
       /\ db.job[o] = "PREPARED" => db'.job[o] = "PREPARED" \/ ImportTrue(db', o)
       /\ ImportTrue(db, o) => ImportTrue(db', o)]_db

\* What a committed database held is still there after any later commit: no
\* migration and no transaction drops or rewrites evidence, and no release of the
\* code takes the schema back.  At version 2 captures and events are kept by
\* migrations, but by no trigger.
HistoryKept ==
  [][/\ db'.version >= db.version
     /\ db.recording = "COMPLETE" => db'.recording = "COMPLETE"
     /\ \A o \in Occurrences :
          /\ db.version >= 3 \/ db'.version > db.version =>
               /\ db.capture[o] # NoArtifact => db'.capture[o] = db.capture[o]
               /\ db.event[o] # "none" => db'.event[o] = db.event[o]
          /\ db.expected[o] \in {"COMPLETE", "GAP"} => db'.expected[o] = db.expected[o]
          /\ db.expected[o] = "PREPARED" => db'.expected[o] # "none"
          /\ db.asserted[o] # NoArtifact => db'.asserted[o] = db.asserted[o]
          /\ db.job[o] # "none" => db'.job[o] # "none"
          /\ db.job[o] = "COMPLETE" => db'.job[o] = "COMPLETE" /\ db'.output[o] = db.output[o]
          /\ db.provenance[o] => db'.provenance[o]
          /\ db.replica[o] = "VERIFIED" => db'.replica[o] = "VERIFIED"]_db

\* The rows a release can take over: no two captures of one artifact before
\* assertions existed; from version 8 on every capture must have been expected
\* and, where assertions exist, asserted.
Upgradable(d, r) ==
  /\ d.version < 7 /\ r >= 7 => OneCaptureEach(d)
  /\ d.version \in 3..7 /\ r >= 8 =>
       \A o \in Occurrences : d.capture[o] # NoArtifact =>
          /\ d.expected[o] = "COMPLETE"
          /\ d.version = 7 => d.asserted[o] # NoArtifact

\* migrate() refuses a database only for rows its newest schema cannot hold, and
\* leaves it as it was; an upgradable database is never locked out of a release.
RefusesOnlyUnsound ==
  [][outcome' = "refused" /\ outcome # "refused" => ~ Upgradable(db, release) /\ db' = db]_vars

=============================================================================
