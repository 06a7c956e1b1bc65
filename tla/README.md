# Formal model of the evidence workers

TLA+ modules, TLC configurations and TLAPS proofs for the programs in this
repository: a *processor worker* that derives a report from each finalized
recording, a *replication worker* that copies finalized evidence to an NFS mount
or an object store and verifies it there, and a small HTTP service that runs both
on synthetic data; beside them stand the migrations of their database and the contracts
that a supervising agent has to keep. All programs are short-lived, single-threaded
processes (the HTTP service has one thread per request) that share a SQLite database and
directories.
Nothing keeps an operator from starting a command twice, and any of them can die
between two system calls. What these modules are about is therefore not one run of a
command but what a sequence of interrupted and overlapping runs leaves behind.

## The system

| Component | State it keeps | Operations | Source |
|---|---|---|---|
| replication authority | `replica_targets`, `replica_objects` rows (SQLite, triggers) | `discover`, `register_discovered`, `record_attempt`, `record_failure`, `mark_verified` | `replication/core/authority.py`, `database/migrations.py` |
| replication worker | none beyond its frame | `init_target`, `run`, `reconcile`, `verify`, `run_exact` | `replication/core/worker.py`, `apps/replication_worker/cli.py` |
| object-store adapter | objects and the marker in the bucket | `inspect`, `publish_immutable`, `verify`, `initialize`, `bind` | `replication/adapters/gcs/` |
| mounted-NFSv4 adapter | final names, owned partials, the marker | the same, and `cleanup_transient` | `replication/adapters/nfs/` |
| processor worker | `processing_jobs`, `artifact_lineage`, report and manifest files, their partials, quarantine, spool lock | `snapshot`, `run`, `run_exact`, `process_artifact` | `apps/processor_worker/worker.py`, `apps/edge_agent/` |
| live showcase service | one cached summary, one semaphore | `GET /api/demo` | `scripts/serve_showcase.py` |
| schema and migrations | all tables and triggers, `schema_migrations` | `migrate`, every statement the triggers admit | `packages/database/` |
| agent contracts, exact manifests | none (frozen records and digests) | `classify_*`, `propose_*`, `build_structured_receipt`, `build_candidate_manifest` | `packages/agent_contracts/`, `replication/action/` |
| capture registration and finalization | plans only; the writing commands are not in the repository | planning, validation | `apps/edge_agent/register.py`, `finalize.py`, `verification.py` |
| processor pilot | whether its one inspection is spent | `inspect` | `optional/processor-pilot/` |
| demos, deployment | none | sequential scripts | `demo/`, `scripts/`, `infra/` |

How they interact:

* The workers meet only in the database and in directories. The processor adds an
  artifact row in the transaction that completes a job; the next replication run
  discovers it. There is no queue and no notification.
* The processor takes an advisory lock on the spool for each artifact. It shares it
  with the commands that finalize media and register occurrences. The replication
  worker takes no lock: two invocations are kept apart by guarded SQL updates and by
  create-only operations at the destination.
* Releases of the code overlap on one database file: a writer of an older release may wait
  for the lock while a newer one migrates, and rows written before a constraint existed
  meet it later.
* An agent never calls a worker here. It exchanges records (observation, classification,
  proposal, approval, execution, verification), and one function binds them into a receipt.
* Every SQLite transaction, every system call and every request of the object store
  is a point where another process may step in or where this one may die.

What is hard: overlapping invocations that read a list and act on it later; a crash
between a destination write and the row that records it; requests whose answer is lost;
spool files that change between hash and copy; partial files shared by name; resuming
the processor at each of its barriers; a semaphore and a cache with double-checked
locking; constraints that are added to rows which already exist; records of different
rounds mixed in one receipt. `PROJECT.json` lists each hazard with its line and the properties that cover it.

## Modules

```
ReplicaAuthority        what replication promises, one object at a time
   ^ implemented by
ReplicationCore         the rows and the control flow of run, reconcile, verify
   | extended by
   +-- GcsReplication   the object-store adapter      (MCGcsReplication)
   |     | extended by
   |     +-- ExactAction  run_exact of one approved manifest (MCExactAction)
   +-- NfsReplication   the mounted-NFS adapter       (MCNfsReplication)
ReplicationCoreProofs                                 lemmas for any adapter
GcsReplicationProofs, NfsReplicationProofs            theorems (the first also of ExactAction)

TargetRegistry          what init-target promises
   ^ implemented by
TargetInitialization    marker and row, both adapters (MCTargetInitialization)
TargetInitializationProofs                            theorems

ProcessingAuthority     what the processor promises for one artifact
   ^ implemented by
ProcessorWorker         snapshot, lock, barriers      (MCProcessorWorker)
ProcessorWorkerProofs                                 theorems

EvidenceDatabase        rows, triggers, migrate       (MCEvidenceDatabase)
EvidenceDatabaseProofs                                theorems

AgentContracts          classification to receipt     (MCAgentContracts)
AgentContractsProofs                                  theorems

ShowcaseService         GET /api/demo                 (MCShowcaseService)
ShowcaseServiceProofs                                 theorems
```

**ReplicationCore** has the three columns of `replica_objects` that the code decides on
(`state`, `attempt_count`, `last_error`), the evidence that capture has finalized, whether
each spool file still has its digest, and for each invocation its place in the command,
the list it iterates over, what `discover` returned and its summary. One action is one
transaction, one read of the spool or one call of the target. `Raise` is an exception that
leaves the command, `Failing` one that `run` catches in order to call `record_failure`.
Rows are identified by number; their order is that of `ORDER BY object_kind, relative_uri`.
The calls of the target are left open: `Cleaned`, `Inspected`, `Verify` take as a parameter
what is found at the destination.

**GcsReplication** closes them with a bucket in which an upload with
`if_generation_match=0` is one atomic step, whose answer may be lost, and which the client
library may have sent twice (`UploadCreates` goes to `precondition`: the retry met the
object created by the first try). The bytes uploaded are those of the spool file at that
moment, not those that were hashed.

**NfsReplication** closes them with two names per object, bound to files. A file that a
worker has open for writing is written as that worker, so that a link made by somebody else
while it is being written binds the same unfinished file to a second name. `publish_object`
is modelled call by call: check the final name, check the partial name, `O_EXCL` create,
copy, link, unlink, read back. A look at a final name takes time: `hash_regular` wants the
inode, size, mtime and ctime of the file to be the same before and after, so an unlink of its
second name or a write to it makes the look fail, whatever the bytes are. `overtaken` holds the
invocations whose look (or whose lstat before an unlink, in the cleanup) is under way when that
happens; each may be caught by it or not (`Overtakes`), and one that is ends as `Interrupted`
says. Finished files have no identity in the model: two names of one object are taken for one
file, so that an unlink may overtake a look that in the code was at another file.

**ReplicaAuthority** is the abstract specification: register, create once where nothing is,
mark verified only exact bytes. The refinement mapping keeps the rows and maps the
destination to what a reader would see.

**ExactAction** adds executions of `run_exact` beside the ordinary commands of
GcsReplication, over the same rows and bucket. `Approve` is the moment in which somebody
projects evidence, rows and destinations and signs what he saw; an execution projects
them again, refuses if anything differs (`Compare`), and then takes each entry through
`Check`s before and after its attempt. Digests of projections are equal exactly when the
projections are, so the projections are compared (`SourceProjection`, `AuthoritySnapshot`,
`TargetSnapshot`, `RemainingWork`). The same manifest may be handed in again after any end.

**TargetInitialization** is `init_target`: look for the row, make the marker, insert the row,
bind. The bucket makes its marker in one conditional request; the mount goes through the
partial name that all initializers share (`look`, `sweep`, `create`, `fill`, `link`, `tidy`),
one action for each system call, and then reads whatever marker is there. Each invocation
runs once, so a retry is another invocation. What a marker holds depends on the target id
alone, so the digest in the row is not a variable. **TargetRegistry** is its abstraction:
claim a location for good, register a target with a location it has claimed.

**ProcessorWorker** follows `run`, `run_exact` and `process_artifact` through the barriers that
the code names: the frozen snapshot or the entries of an approved manifest, each looked up in
a query of its own (`ReadState`, `ReadEntry`, both without the lock), the lock with its time-out
(`Defer`), the gate that re-reads eligibility under the lock, the PREPARED row, inspection of
the final pair, staging with quarantine of half-written partials, link and unlink for the
report and then the manifest, verification of the pair, and the COMPLETE transaction. The counters of the summary are the
sizes of what `snap` lists under each prior state.
**ProcessingAuthority** is its abstract specification: prepare, report, manifest, complete,
each at most once and in this order, with files that may be there from the start.

**EvidenceDatabase** is the authority as its ten migrations define it. A record holds the rows
of each occurrence (expected, capture, event, assertion, capture attempt, import job,
provenance, replica) and the version of the schema. `db` is what is committed, `work` what the
open transaction sees; every statement is a step, guarded by the triggers and foreign keys of
the version at hand (`Unterminated`, `TerminalCorrect`, `AttemptExpected`,
`ProvenanceMatches`, `ImportMatches`, `DeferredKeysHold`). A migrator of some release takes the
lock, applies its pending migrations one by one and commits, is refused, or dies. A writer
issues its statements in any order, so that rows of every shape the old versions admitted meet
the new ones: versions 3 and 7 fill in missing rows, version 8 demands that captures and
assertions agree. The tables that a migration copies unchanged are not copied in the model.

The statements are those that the tables and triggers admit, which is more than what the writers
of the repository issue:

* Most triggers guard updates. A row inserted in its terminal state is checked by the CHECKs of
  its table alone: a job inserted as COMPLETE names any registered artifact, without a capture, a
  provenance or a completed recording (`InsertJobComplete`); the same goes for expected rows,
  recordings and replicas (`InsertTerminal`, `InsertRecording`, `InsertReplica`). So
  `ImportsStayTrue` is about jobs that were committed as PREPARED and about what was true once,
  and nothing is claimed of the others.
* At version 2 captures and events may be updated and deleted (`RewriteCapture`, `EraseCapture`,
  `EraseEvent`); their triggers come with version 3. `HistoryKept` speaks of them from version 3
  on, and at version 2 of migrations only.
* `INSERT OR REPLACE` is left out, since nothing in the repository uses it: it would delete without
  firing the triggers that guard deletions, unless `recursive_triggers` is on.

**AgentContracts** has the two classifiers as ranked findings, the mutation policy as four
operators on operations, the proposers, and `build_structured_receipt` as a sequence of steps
(`Bind`, `BindExecution`, `Issue...`), each of which takes any record that its constructor
would accept, of this round or another. A digest stands for the record it is computed from.
`PilotInspects` is the only caller in the repository. Things that are as the code has them
and worth knowing: an execution with status `denied` can never be receipted; the builder
does not consult the table of state transitions; the successor proposal of the processor can
be approved but not receipted, and the validation of its approval does not validate the
proposal (`ApproveSuccessor` supposes that a caller, of which there is none yet, does both);
nothing in a receipt says when an approval was given, so that
its freshness rests on `run_exact` (`OncePerApproval`, `CountsOwnTime`).

**ShowcaseService** has the cache, the semaphore and one program counter per handler.

Operators whose comment starts with "Mutation:" are plausible bugs. They are part of no
specification; each replaces one definition to show that a property would notice.

## Runs

| Run | Instance | Asks |
|---|---|---|
| `gcs_two_workers` | 2 invocations, 2 objects (one content, one manifest), attempts capped at 1 | Do two overlapping commands, of any kind, with lost answers, changing spool files and crashes, keep rows, bucket and summaries consistent, and implement `ReplicaAuthority`? |
| `gcs_liveness` | 1 repeated invocation, 2 objects | Do repeated runs converge from every interrupted state? |
| `nfs_one_publisher` | 1 publisher beside 1 reconcile/verify, 2 objects (one content, one manifest) | At the granularity of system calls: what is left under a partial name is exact, final names appear complete, later runs converge, the abstract authority is implemented |
| `nfs_two_runs` | 2 publishers, 1 object | What survives when they share a partial name: a VERIFIED row has exact bytes, and a `verify` accuses a replica only where its own look was overtaken |
| `nfs_incomplete` | the same | Violated: a final name can be incomplete (finding 1) |
| `exact_beside_run` | 1 execution, 1 ordinary invocation, 1 object, 3 attempts | Are the results of an approved execution true beside an ordinary run, and is an approval used once however often it is handed in? |
| `init_target` | 3 invocations, 2 targets, 1 bucket, 1 mount | Do racing and interrupted initializers keep marker and row together, and does an undisturbed retry succeed? |
| `processor_two_runs` | 2 invocations of `run` or `run_exact`, an owner, a registering command, 1 artifact | Is the lock enough, does "pass" mean complete, do the counters keep to their own time, and is every crash resumed in the published order? |
| `evidence_database` | 2 occurrences (one streamed and replicated, one imported), 2 artifacts, releases 2, 3, 6, 7, 9, 10 | Do captures and assertions agree in every committed database from version 8 on, do events and true imports stay true, is history kept, and is a database refused only for rows that schema cannot hold? |
| `agent_contracts` | every reading of both services, 2 readings of another round, 6 claimed operations | Does a receipt tell the story of one round, and do the contracts fail closed? |
| `showcase` | 3 handlers, 3 workloads | Is the slot conserved, the answer the same for all, and does the service recover? |
| `showcase_once` | 1 handler | Violated: a retry executes the workload again (finding 2) |

Why these bounds are enough. All conflicts in the code are between two processes over
one row, one name or one lock, so two invocations reach every guard in both outcomes; a
third adds no new pair. Two objects are needed where the position in the list matters
(a failure at the first stops the second; a manifest is hashed by `discover`, a content
is not); the runs with two publishers at system-call granularity use one object,
because partial names of different objects never meet. `attempt_count` is only compared
with itself and with zero, and is capped at 1. Assertions are counted up to 2 ("several").
The showcase needs three handlers: one that runs the workload, one that looked at the cache
before and acquires the slot after it, one that is refused. `gcs_two_workers`
and `nfs_two_runs` use symmetry over the invocations, `evidence_database` over the artifacts;
they check no liveness. `processor_two_runs` has one artifact, because artifacts
are processed one lock at a time and share no file; an owner approves once. In
`evidence_database` two occurrences are the least for two captures of one artifact, and the
releases are those whose newest migration changes rows or constraints, with one before and
one after each. In `agent_contracts` a reading of the other round differs in service and snapshot,
and the claims hold an operation of each row class of the policy and one without a row. `exact_beside_run` makes no attempt beyond the third (`Counted`): the attempt
count is part of what is approved, so it cannot be capped as elsewhere, where a row would
look again as it did before. Three initializers are the least for two that disturb each other and
one that comes after; command lines that differ only in who gives them are taken once.

Initial states. A database without rows, destinations that may already hold exact or
foreign bytes (an earlier authority, somebody else), no partials, spool files as
finalized. Spool files may change and be restored at any time.

## Fairness

* A started command goes on (`WF` of its steps): a process that is not killed is scheduled,
  and every wait in the code has a time-out.
* The operator starts `run` again and again (`SF` of `Begin(w, "run")`, `Snapshot`). The
  workers are no daemons, so convergence is a promise to whoever repeats the command. It
  is strong because other commands may be chosen in between.
* Nothing is assumed of faults. `Converges` is conditional: *if* crashes and errors
  eventually stop, no foreign bytes are at a destination and no needed spool file is bad,
  *then* everything finalized is eventually VERIFIED. For the processor it also supposes
  that time-outs of the lock, other holders of it, and refusals of its input, paths or schema stop.
* `init_target`: a command that is not interrupted goes on. `Resumes` is about one that
  finds nobody else under way and a location that is free or already its own.
* Showcase: handlers run, the workload ends (at the latest by its time-out, 105 s unless configured), clients keep asking.

## Proofs

Every invariant, action property and refinement that a passing run checks is also a theorem.
No invariant below is weaker than what the run checks. TLC has also evaluated the
inductive invariants of the workers and of the service on instances like those of the
runs (two invocations on one object, one on two, three handlers).

`GcsReplicationProofs` proves, for any number of invocations, objects and pieces of
evidence, under the assumptions on the constants in `ReplicationCore` (`CoreAssumption`:
objects are ordered by number, evidence contributes objects, the cap is positive):

| Theorem | States |
|---|---|
| `Invariant` | the inductive invariant `GcsInv` |
| `TypeCorrect` | types; a failure about to be recorded has a stable finding |
| `VerifiedReplicas` | VERIFIED rows have exact bytes in the bucket |
| `PassIsHonest` | a run that returns its summary left nothing it discovered unverified |
| `SummariesDisjoint` | no object is counted twice or by two invocations |
| `VerifiedRowsFinal` | no column of a VERIFIED row changes |
| `AttemptsFirst` | creations follow the commit of their attempt |
| `VerifyIsQuiet` | `verify` never accuses a replica |
| `Refinement` | the worker implements `ReplicaAuthority` |

The argument. None of the invariants is inductive: whether `mark_verified` may be
called is known only from where the invocation is. `CoreInv` (in
`ReplicationCoreProofs`, for any adapter) says what each place in the code implies: when a
run lists, everything `discover` returned has a row; while it loops, each of these is VERIFIED
or still in its list; an invocation under way has not passed yet; what a summary counts
is VERIFIED and counted once. `GcsInv` adds that at the places that precede `mark_verified`
(`adopt`, `created`, `present`) the bucket holds the exact bytes of the current object, and that
past `record_attempt` the current row has its attempt. That this survives the
steps of other invocations rests on two lemmas: an object once in the bucket never
changes (`BucketStable`), and rows never go back (`RowsMonotone`). `VerifyIsQuiet` needs one
invariant more: what `verify` has in its list is VERIFIED. The refinement maps
`RegisterDiscovered` to `Register` of the missing rows, uploads to `Create`, both marks
to `MarkVerified`, and everything else to a stutter.

The same module proves, of `ExactSpec`, with any number of executions beside the workers:

| Theorem | States |
|---|---|
| `ExactInvariant` | the inductive invariant `ExactInv` |
| `ExactTyped` | types of manifests, results and what is left |
| `ReportsAreTrue` | a reported entry is VERIFIED and counted by nobody else; pass means a result for each |
| `ApprovalsUsedOnce` | no entry is attempted twice under one approval |
| `ExactRowsFinal` | no column of a VERIFIED row changes |
| `ExactRefinement` | executions and workers together implement `ReplicaAuthority` |

The argument. `ExactInv` is `GcsInv` and, for each execution, an account of its entries: one
is either still to do or has a result (`EntriesAccounted`). That an approval is used once
rests on counting attempts: a row never has fewer attempts than it was approved with
(`ApprovedRows`), and more once the entry was tried (`TriedRows`), so a second hand-in of the
same manifest fails its comparison (`LeftUntried`). `ClaimsDisjoint` says that what an
execution has claimed no other execution and no summary has: the row is marked VERIFIED in one
transaction that only one of them can commit (`CoreStepCredits`).

`NfsReplicationProofs` proves, under `CoreAssumption` and `NfsAssumption` (no worker is named
like a state of a file):

| Theorem | States | Publishers |
|---|---|---|
| `NfsTyped` | types | any |
| `VerifiedNames` | a VERIFIED row has its exact bytes under the final name | any |
| `NfsPassIsHonest` | a run that returns its summary left nothing it discovered unverified | any |
| `NfsSummariesDisjoint` | no object is counted twice or by two invocations | any |
| `NfsVerifiedRowsFinal` | no column of a VERIFIED row changes | any |
| `VerifyAccusesOnlyOvertaken` | `verify` accuses a replica only where its own look was overtaken | any |
| `PublisherInvariance` | the inductive invariant `PublisherInv` | one |
| `LeftoversAreExact` | a partial beside a VERIFIED row is the exact file | one |
| `CreationsAreExact` | a final name appears with all of its bytes | one |
| `ReplicasImmutable` | what a final name shows never changes | one |
| `NfsRefinement` | the worker on the mount implements `ReplicaAuthority` | one |

The argument. The upper half uses `CoreInv` and that, at the places before `mark_verified`, the
final name was read back as exact (`MarkJustified`). Exact bytes stay because a finished file
is never opened again. What `verify` has in its list is VERIFIED (`VerifyListed`), and so exact
under its final name, so that only `Leaves`, the end of an overtaken look, can accuse.

The lower half has the hypothesis `OnePublisher`: at most one
invocation was started as `run`, besides any number of `reconcile` and `verify`. It is
needed: with two TLC refutes each of the last four (the run `nfs_incomplete` keeps the
counterexample to one of them, finding 1). With one, `OpenFiles` says that a file is open only under its partial name and
only for its writer, and `Linking` that between the look at the final name and the link nobody
else creates that name, while a reconcile may take the partial away at any moment; hence the link
binds all of the bytes or fails.

`TargetInitializationProofs` proves, for any number of initializers and targets, under the
assumption that no target or invocation is called "none" (`TargetAssumption`):

| Theorem | States |
|---|---|
| `InitializationInvariant` | the inductive invariant `InitializationInv` |
| `InitializationTyped` | types; a marker is linked by its writer only when it is whole |
| `SuccessIsBound` | success means the row and the whole marker of the target |
| `RegistryRefinement` | init_target implements `TargetRegistry` |

The argument. The row is inserted long after the marker was read, so the invariant says
what the places in between imply (`Places`), and that every row has its marker
(`RegisteredIsMarked`). Both survive the steps of others because what a reader finds at a
location stays (`VisibleStable`): a name is bound once and a whole file stays whole, even
when the file was linked by somebody else before its writer had finished it.

`EvidenceDatabaseProofs` proves, for any occurrences, artifacts and releases, under
`EvidenceAssumption` (the names of the lock's holders and of "no artifact" are not
occurrences or artifacts; a release knows at least two migrations):

| Theorem | States |
|---|---|
| `EvidenceInvariant` | the inductive invariant `EvidenceInv` |
| `EvidenceTypes` | types of the committed rows and the open transaction |
| `AuthorityAgreement` | from version 8 on, captures and assertions agree |
| `EventsStayTrue` | a committed event stays true through every migration |
| `ImportsTruthful` | a prepared import is completed only truthfully, and a true one stays true |
| `HistoryIsKept` | no commit drops or rewrites evidence or takes the schema back |
| `RefusalsAreSound` | `migrate` refuses only what the newest schema cannot hold |

The argument. The properties are about committed rows, but a statement only changes `work`;
so the invariant states the same facts of both (`RowsOK`), that the open transaction keeps what
is committed (`Kept`, reflexive and, over rows that are in order, transitive; it is what makes a
true import stay true, `TrueImportsKept`), and what a migrator knows of the rows it
started from at each version (`Migrating`). Deferred keys hold in `db` only, because
between two statements they may be broken. Each statement and each migration has a lemma that
it keeps `RowsOK` and `Kept`.

`ProcessorWorkerProofs` proves, for any number of invocations and artifacts, under
`ProcessorAssumption` (artifacts are ordered by number; no invocation is called "free" or
"other", the two holders of the lock that are not invocations):

| Theorem | States |
|---|---|
| `ProcessorTyped` | types |
| `LockIsHeld` | one invocation at a time is inside `process_artifact` |
| `PassIsComplete` | a run that says pass has every candidate COMPLETE |
| `CountersOfOwnTime` | the counters never claim what was COMPLETE before the invocation |
| `NoCollision` | what was inspected under the lock is still so when it is linked |
| `LeftoversAreExact` | a COMPLETE job has no unfinished partial |
| `CompleteHasPair` | a COMPLETE job has its exact report and manifest |
| `CommitIsUnambiguous` | jobs are prepared and completed only on exactly one assertion |
| `PartialsAreKept` | a half-written partial is in quarantine before its name goes away |
| `ProcessingRefinement` | the worker implements `ProcessingAuthority` |

The argument. `ProcessorInv` has a part for what is read before the lock and one for what is
done under it. The first (`ControlInv`) only needs that COMPLETE is final: what was seen
COMPLETE, or was left behind, still is. The second (`BarriersHold`) says for each barrier
what its holder may rely on: which of the four names exist, with which contents. The
lock (`LockHeld`) makes it stable, since nobody else is at a barrier and assertions are added
only under the same lock. A crash drops the lock and leaves the files, about which `FilesOK` says what the next holder finds.

`ShowcaseServiceProofs` proves, for any number of handlers, under `ServiceAssumption` (a
workload can be started):

| Theorem | States |
|---|---|
| `ServiceTyped` | types, the count of the semaphore included |
| `GateKept` | the slot is free exactly when no handler is between acquire and release |
| `OneSummary` | all handlers that answer pass answer with the same summary |

The argument. The cache is filled without a lock of its own; what makes the answers agree is
that the second look at it, under the slot, stays true up to the store (`WorkUncached`),
because the slot excludes every other handler that could store.

`AgentContractsProofs` proves, for any snapshots, readings and claims:

| Theorem | States |
|---|---|
| `ContractInvariant` | the inductive invariant `ContractInv` |
| `ReceiptsOneLineage` | a receipt that binds an execution tells the story of one round |
| `ExecutionsFailClosed` | nothing is receipted as executed for what was observed to be wrong |
| `FirstPhaseReadOnly` | no receipt of the first phase binds an approval or an execution |
| `ProposalsAccepted` | every reading has a read-only proposal that the contracts accept; the pilot is never refused |

The argument. The primary code is the least ranked of the findings (`LeastRank`,
`PrimaryFirst`), so that a backlog is primary only where no fault was found
(`ProcessorFaultFirst`, `ReplicationFaultFirst`); a bounded operation is allowed only
for a backlog and only in the later phase (`BoundedSafe`, `BoundedLater`). The invariant
keeps, for each stage of the builder, what its earlier checks have established.

`ProposalsAccepted` is about two tables written independently, what the proposers choose
and what the classifier allows: for each primary code the choice is in the table
(`ProcessorChoiceAllowed`, `ReplicationChoiceAllowed`), and the rows that are read-only need no
approval, so the builder has nothing to refuse (`ProposalReceipted`, `PilotNotRefused`).

Only model-checked: liveness (`Converges`, `Recovers`, `Resumes`), because fairness and
ENABLED are out of the prover's reach. The two findings are counterexamples and so have
no theorem. Recursion over data does not occur.

## Findings

1. `nfs_incomplete`: two overlapping `run` commands share the owned partial name of an
   object. The reconcile phase of the second removes the first one's partial and recreates
   the name; the first then links the file that the second is still writing. The final name
   is visible with a prefix of its bytes; if the second dies it stays so and every later
   run ends in `destination_collision`. Nothing is marked VERIFIED by it (`nfs_two_runs`).
2. `showcase_once`: two documents say that an instance executes the demonstration at most
   once. Only success is cached; after a failure the next request executes it again.

## What is not modelled, and why

* The identity of the mount, and the marker that `bind` reads before each command: a
  mismatch only ends a command (`Abort`, `TargetFails`, `EntryFault`).
* A marker that an initializer linked before another had written it, whose writer then
  died: it stays torn and every initialization of that location is refused. The cause is that
  of finding 1, one partial name for all; `Resumes` is conditional on its absence.
* `run_exact` over the mount, whose inspections also look at the partial. The counters
  `published_count` and `adopted_count` of its result: they are raised before `mark_verified`
  and may count an entry that then fails; only the result codes of the entries are modelled.
* Two runs of the processor may both report one artifact as newly completed, since each
  compares with its own snapshot. That is so in the model, and `CountsOwnTime` does not forbid it.
* A manifest with a wrong digest, or a foreign file at a final name, ends every later run before
  it publishes anything. `Converges` excludes both (`Unobstructed`): the code promises nothing then.
* A changed size or digest of an already registered object: `register_discovered` and
  `discover` refuse it; the evidence tables never change such a column.
* Loss of unsynced directory entries at a power failure: a crash here is the death of a process.
* The identity of the implementation (`implementation_identity.py`), which hashes files of the
  checkout: a difference ends `run_exact` before it reads anything.
* A recorded migration history with foreign names or gaps: `migrate` refuses it before any
  statement. Columns that no constraint compares, and the deletion triggers, which only refuse.
* The form of an approved manifest of the processor, which is refused before anything is read,
  and how a report is derived from its input.
* The precondition and evidence codes of a policy row: data that a proposal copies (`Terms`).
* Explanations and the framework adapter of the pilot. A pilot context that is not the
  canonical one makes no core at all.
* The demos, the hand-off script, packaging and infrastructure: sequential scripts that call
  what is modelled here, or declarations.
* Child processes that outlive the workload of the showcase.
* Formats, canonical JSON, path checks, logging.

## Plan

1. *(done)* ReplicationCore with both adapters, its abstraction, and the proofs for the
   object store.
2. *(done)* ProcessorWorker with `run_exact`, and its abstraction; ShowcaseService.
3. *(done)* Target initialization with both adapters, its abstraction and its proofs.
4. *(done, over the bucket)* `run_exact` of the replication worker beside ordinary runs.
5. *(done)* The schema and `migrate` with interrupted and concurrent migrators, and its proofs.
6. *(done)* Agent contracts from classification to receipt, and their proofs.
7. *(done)* Proofs of `NfsReplication`, `ProcessorWorker`, `ShowcaseService`, `ExactAction` and
   of the proposals of `AgentContracts`.
8. What several publishers on the mount still guarantee about partials, beyond `VerifiedNames`:
   an incomplete final name always has a writer or a crash behind it.
9. Processor and replication composed over one database: a derived artifact is
   discovered only with its pair on disk, so `discover` never fails because of it.
