--------------------------- MODULE ReplicationCore ---------------------------
(***************************************************************************)
(* The provider-neutral half of the replication worker: the SQLite         *)
(* authority (core/authority.py) and the control flow of the commands run, *)
(* reconcile and verify (core/worker.py).  Every worker is one invocation  *)
(* of the CLI; nothing in the code keeps two of them apart, so their steps *)
(* interleave.  One action is one SQLite transaction, one read of the      *)
(* spool, or one call of the target.  The calls of the target are left to  *)
(* the modules that EXTEND this one: they decide what the destination      *)
(* holds and call the operators below with the result.                     *)
(***************************************************************************)
EXTENDS Naturals

CONSTANTS
  Workers,      \* concurrent invocations of the CLI
  Publishers,   \* those an operator starts with the run command
  Objects,      \* replica objects; their order is (object_kind, relative_uri)
  Hashed,       \* the manifests and assertions, which discover() hashes again
  Evidence,     \* finalized evidence: an artifact, an assertion, a recording
  ObjectsOf,    \* the objects one piece of evidence contributes
  MaxAttempts   \* attempt_count is counted up to here and stays here

ASSUME CoreAssumption ==
  /\ Publishers \subseteq Workers
  /\ Objects \subseteq Nat
  /\ Hashed \subseteq Objects
  /\ ObjectsOf \in [Evidence -> SUBSET Objects]
  /\ MaxAttempts \in Nat \ {0}

VARIABLES
  state,        \* replica_objects.state, "ABSENT" where there is no row
  attempts,     \* replica_objects.attempt_count
  last_error,   \* replica_objects.last_error
  finalized,    \* evidence committed in the authority by capture or processing
  source,       \* the spool file of each object: "good" or "bad"
  pc,           \* where each invocation is
  cmd,          \* the command it executes
  found,        \* what its discover() returned
  todo,         \* the rest of the list it iterates over
  published,    \* RunSummary: objects it marked after creating them
  adopted,      \* RunSummary: objects it marked after finding them exact
  outcome       \* the finding being raised, or how the last invocation ended

dbVars   == <<state, attempts, last_error>>
envVars  == <<finalized, source>>
loopVars == <<cmd, found, todo, published, adopted>>
coreVars == <<dbVars, envVars, pc, loopVars, outcome>>

-----------------------------------------------------------------------------

Findings == {"local_source_corrupt", "destination_collision", "target_io_error",
             "destination_digest_mismatch", "replica_authority_conflict",
             "partial_cleanup_failed"}

Commands == {"run", "reconcile", "verify"}

CoreLabels == {"idle", "clean", "inspect", "adopt", "discover", "register", "list",
               "attempt", "hash", "publish", "created", "present", "fail", "verify"}

CoreTypeOK(Labels) ==
  /\ state \in [Objects -> {"ABSENT", "PENDING", "VERIFIED"}]
  /\ attempts \in [Objects -> 0..MaxAttempts]
  /\ last_error \in [Objects -> Findings \cup {"none"}]
  /\ finalized \subseteq Evidence
  /\ source \in [Objects -> {"good", "bad"}]
  /\ pc \in [Workers -> Labels]
  /\ cmd \in [Workers -> Commands]
  /\ found \in [Workers -> SUBSET Objects]
  /\ todo \in [Workers -> SUBSET Objects]
  /\ published \in [Workers -> SUBSET Objects]
  /\ adopted \in [Workers -> SUBSET Objects]
  /\ outcome \in [Workers -> Findings \cup {"none", "pass", "crashed"}]
  /\ \A w \in Workers : pc[w] = "fail" => outcome[w] \in Findings

CoreInit ==
  /\ state = [o \in Objects |-> "ABSENT"]
  /\ attempts = [o \in Objects |-> 0]
  /\ last_error = [o \in Objects |-> "none"]
  /\ finalized = {}
  /\ source = [o \in Objects |-> "good"]
  /\ pc = [w \in Workers |-> "idle"]
  /\ cmd = [w \in Workers |-> "run"]
  /\ found = [w \in Workers |-> {}]
  /\ todo = [w \in Workers |-> {}]
  /\ published = [w \in Workers |-> {}]
  /\ adopted = [w \in Workers |-> {}]
  /\ outcome = [w \in Workers |-> "none"]

-----------------------------------------------------------------------------
(* The rows *)

Pending  == {o \in Objects : state[o] = "PENDING"}
Verified == {o \in Objects : state[o] = "VERIFIED"}

\* The loops take the rows in the order of the query.
Current(w, o) == o \in todo[w] /\ \A p \in todo[w] : o <= p

Credited(w) == published[w] \cup adopted[w]

Goto(w, l) == pc' = [pc EXCEPT ![w] = l]

\* An exception leaves the command: no RunSummary is emitted.
Raise(w, finding) ==
  /\ Goto(w, "idle")
  /\ outcome' = [outcome EXCEPT ![w] = finding]
  /\ found' = [found EXCEPT ![w] = {}]
  /\ todo' = [todo EXCEPT ![w] = {}]
  /\ published' = [published EXCEPT ![w] = {}]
  /\ adopted' = [adopted EXCEPT ![w] = {}]
  /\ UNCHANGED cmd

\* The command returns its summary, which stays as the last thing it said.
Return(w) ==
  /\ Goto(w, "idle")
  /\ outcome' = [outcome EXCEPT ![w] = "pass"]
  /\ UNCHANGED loopVars

\* A ReplicationError inside the try block of run(): record_failure comes next.
Failing(w, finding) ==
  /\ Goto(w, "fail")
  /\ outcome' = [outcome EXCEPT ![w] = finding]
  /\ UNCHANGED loopVars

\* Mutation: the UPDATE of mark_verified without its condition on the state.
MarkVerifiedBlind(w, o, next) ==
  /\ state' = [state EXCEPT ![o] = "VERIFIED"]
  /\ last_error' = [last_error EXCEPT ![o] = "none"]
  /\ todo' = [todo EXCEPT ![w] = @ \ {o}]
  /\ published' = [published EXCEPT ![w] = IF pc[w] = "created" THEN @ \cup {o} ELSE @]
  /\ adopted' = [adopted EXCEPT ![w] = IF pc[w] = "created" THEN @ ELSE @ \cup {o}]
  /\ Goto(w, next)
  /\ UNCHANGED <<attempts, envVars, cmd, found, outcome>>

\* mark_verified: one guarded UPDATE, a conflict when the row is not PENDING.
\* The row it turns VERIFIED leaves the list and joins the summary set given.
MarkVerified(w, o, next) ==
  \/ /\ state[o] = "PENDING"
     /\ state' = [state EXCEPT ![o] = "VERIFIED"]
     /\ last_error' = [last_error EXCEPT ![o] = "none"]
     /\ todo' = [todo EXCEPT ![w] = @ \ {o}]
     /\ published' = [published EXCEPT ![w] = IF pc[w] = "created" THEN @ \cup {o} ELSE @]
     /\ adopted' = [adopted EXCEPT ![w] = IF pc[w] = "created" THEN @ ELSE @ \cup {o}]
     /\ Goto(w, next)
     /\ UNCHANGED <<attempts, envVars, cmd, found, outcome>>
  \/ /\ state[o] # "PENDING"
     /\ Raise(w, "replica_authority_conflict")
     /\ UNCHANGED <<dbVars, envVars>>

-----------------------------------------------------------------------------
(* Commands *)

\* Mutation: verify lists every row of the target, PENDING ones included.
BeginOverAll(w, c) ==
  /\ pc[w] = "idle"
  /\ c = "run" => w \in Publishers
  /\ cmd' = [cmd EXCEPT ![w] = c]
  /\ todo' = [todo EXCEPT ![w] = IF c = "verify" THEN Pending \cup Verified ELSE Pending]
  /\ Goto(w, IF c = "verify" THEN "verify" ELSE "clean")
  /\ found' = [found EXCEPT ![w] = {}]
  /\ published' = [published EXCEPT ![w] = {}]
  /\ adopted' = [adopted EXCEPT ![w] = {}]
  /\ outcome' = [outcome EXCEPT ![w] = "none"]
  /\ UNCHANGED <<dbVars, envVars>>

\* run and reconcile start with reconcile(): bind the target, list PENDING.
\* verify lists VERIFIED on a read-only connection.
Begin(w, c) ==
  /\ pc[w] = "idle"
  /\ c = "run" => w \in Publishers
  /\ cmd' = [cmd EXCEPT ![w] = c]
  /\ \/ c = "verify" /\ todo' = [todo EXCEPT ![w] = Verified] /\ Goto(w, "verify")
     \/ c # "verify" /\ todo' = [todo EXCEPT ![w] = Pending] /\ Goto(w, "clean")
  /\ found' = [found EXCEPT ![w] = {}]
  /\ published' = [published EXCEPT ![w] = {}]
  /\ adopted' = [adopted EXCEPT ![w] = {}]
  /\ outcome' = [outcome EXCEPT ![w] = "none"]
  /\ UNCHANGED <<dbVars, envVars>>

\* reconcile() of one object: validate_identity and cleanup_transient ...
Cleaned(w, o) ==
  /\ pc[w] = "clean"
  /\ Current(w, o)
  /\ Goto(w, "inspect")
  /\ UNCHANGED <<dbVars, envVars, loopVars, outcome>>

\* ... then inspect, given what it finds at the destination.
Inspected(w, o, there) ==
  /\ pc[w] = "inspect"
  /\ Current(w, o)
  /\ \/ /\ there = "exact"
        /\ Goto(w, "adopt")
        /\ UNCHANGED <<loopVars, outcome>>
     \/ /\ there = "absent"
        /\ todo' = [todo EXCEPT ![w] = @ \ {o}]
        /\ Goto(w, "clean")
        /\ UNCHANGED <<cmd, found, published, adopted, outcome>>
     \/ /\ there = "wrong"
        /\ Raise(w, "destination_collision")
  /\ UNCHANGED <<dbVars, envVars>>

ReconcileMark(w) ==
  /\ pc[w] = "adopt"
  /\ \E o \in Objects : Current(w, o) /\ MarkVerified(w, o, "clean")

ReconcileEnd(w) ==
  /\ pc[w] = "clean"
  /\ todo[w] = {}
  /\ UNCHANGED <<dbVars, envVars>>
  /\ \/ cmd[w] = "reconcile" /\ Return(w)
     \/ cmd[w] = "run" /\ Goto(w, "discover") /\ UNCHANGED <<loopVars, outcome>>

Finalized == UNION {ObjectsOf[e] : e \in finalized}

\* One read snapshot of the authority; a manifest or an assertion whose spool
\* file no longer has its digest fails the whole command.
Discover(w) ==
  /\ pc[w] = "discover"
  /\ \/ /\ \E o \in Finalized \cap Hashed : source[o] = "bad"
        /\ Raise(w, "local_source_corrupt")
     \/ /\ \A o \in Finalized \cap Hashed : source[o] = "good"
        /\ found' = [found EXCEPT ![w] = Finalized]
        /\ Goto(w, "register")
        /\ UNCHANGED <<cmd, todo, published, adopted, outcome>>
  /\ UNCHANGED <<dbVars, envVars>>

\* One BEGIN IMMEDIATE transaction inserts the missing rows.
RegisterDiscovered(w) ==
  /\ pc[w] = "register"
  /\ state' = [o \in Objects |->
                 IF o \in found[w] /\ state[o] = "ABSENT" THEN "PENDING" ELSE state[o]]
  /\ Goto(w, "list")
  /\ UNCHANGED <<attempts, last_error, envVars, loopVars, outcome>>

\* Mutation: rows with a recorded failure are left for later.
ListPendingFresh(w) ==
  /\ pc[w] = "list"
  /\ todo' = [todo EXCEPT ![w] = {o \in Pending : last_error[o] = "none"}]
  /\ Goto(w, "attempt")
  /\ UNCHANGED <<dbVars, envVars, cmd, found, published, adopted, outcome>>

ListPending(w) ==
  /\ pc[w] = "list"
  /\ todo' = [todo EXCEPT ![w] = Pending]
  /\ Goto(w, "attempt")
  /\ UNCHANGED <<dbVars, envVars, cmd, found, published, adopted, outcome>>

\* Mutation: the attempt is left uncommitted.
RecordAttemptLater(w) ==
  /\ pc[w] = "attempt"
  /\ \E o \in Objects : Current(w, o) /\ state[o] = "PENDING"
  /\ Goto(w, "hash")
  /\ UNCHANGED <<dbVars, envVars, loopVars, outcome>>

\* record_attempt commits before anything is read or published.
RecordAttempt(w) ==
  /\ pc[w] = "attempt"
  /\ \E o \in Objects :
       /\ Current(w, o)
       /\ \/ /\ state[o] = "PENDING"
             /\ attempts' = [attempts EXCEPT ![o] = IF @ < MaxAttempts THEN @ + 1 ELSE @]
             /\ last_error' = [last_error EXCEPT ![o] = "none"]
             /\ Goto(w, "hash")
             /\ UNCHANGED <<state, loopVars, outcome>>
          \/ /\ state[o] # "PENDING"
             /\ Raise(w, "replica_authority_conflict")
             /\ UNCHANGED dbVars
  /\ UNCHANGED envVars

\* The spool file against the expected size and digest.
HashSource(w) ==
  /\ pc[w] = "hash"
  /\ \E o \in Objects :
       /\ Current(w, o)
       /\ \/ /\ source[o] = "good"
             /\ Goto(w, "publish")
             /\ UNCHANGED <<loopVars, outcome>>
          \/ /\ source[o] = "bad"
             /\ Failing(w, "local_source_corrupt")
  /\ UNCHANGED <<dbVars, envVars>>

\* record_failure, then the finding leaves the command; a row another worker
\* has verified meanwhile turns it into an authority conflict.
RecordFailure(w) ==
  /\ pc[w] = "fail"
  /\ \E o \in Objects :
       /\ Current(w, o)
       /\ \/ /\ state[o] = "PENDING"
             /\ last_error' = [last_error EXCEPT ![o] = outcome[w]]
             /\ Raise(w, outcome[w])
          \/ /\ state[o] # "PENDING"
             /\ Raise(w, "replica_authority_conflict")
             /\ UNCHANGED last_error
  /\ UNCHANGED <<state, attempts, envVars>>

\* After publish_immutable returned "published" or "adopted".
RunMark(w) ==
  /\ pc[w] \in {"created", "present"}
  /\ \E o \in Objects : Current(w, o) /\ MarkVerified(w, o, "attempt")

RunEnd(w) ==
  /\ pc[w] = "attempt"
  /\ todo[w] = {}
  /\ Return(w)
  /\ UNCHANGED <<dbVars, envVars>>

\* verify() of one object, given what is at the destination.
Verify(w, o, there) ==
  /\ pc[w] = "verify"
  /\ Current(w, o)
  /\ \/ /\ there = "exact"
        /\ todo' = [todo EXCEPT ![w] = @ \ {o}]
        /\ UNCHANGED <<pc, cmd, found, published, adopted, outcome>>
     \/ /\ there # "exact"
        /\ Raise(w, "destination_digest_mismatch")
  /\ UNCHANGED <<dbVars, envVars>>

VerifyEnd(w) ==
  /\ pc[w] = "verify"
  /\ todo[w] = {}
  /\ Return(w)
  /\ UNCHANGED <<dbVars, envVars>>

\* The process dies, SQLite is busy, or the target cannot be reached or is not
\* the one that was bound, outside the try block: nothing more is written.
Abort(w) ==
  /\ pc[w] # "idle"
  /\ Raise(w, "crashed")
  /\ UNCHANGED <<dbVars, envVars>>

\* The steps of one invocation that touch no target.
CoreStep(w) ==
  \/ ReconcileMark(w) \/ ReconcileEnd(w)
  \/ Discover(w) \/ RegisterDiscovered(w) \/ ListPending(w)
  \/ RecordAttempt(w) \/ HashSource(w) \/ RecordFailure(w) \/ RunMark(w) \/ RunEnd(w)
  \/ VerifyEnd(w)

-----------------------------------------------------------------------------
(* The surroundings: evidence is finalized, spool files decay or are restored *)

Finalize(e) ==
  /\ e \notin finalized
  /\ finalized' = finalized \cup {e}
  /\ UNCHANGED <<dbVars, source, pc, loopVars, outcome>>

SourceChanges(o) ==
  /\ o \in Finalized
  /\ source' = [source EXCEPT ![o] = IF @ = "good" THEN "bad" ELSE "good"]
  /\ UNCHANGED <<dbVars, finalized, pc, loopVars, outcome>>

EnvStep == (\E e \in Evidence : Finalize(e)) \/ (\E o \in Objects : SourceChanges(o))

-----------------------------------------------------------------------------
(* Properties of the core *)

\* A run that returns its summary leaves no object it discovered unverified,
\* whatever other runs did to the same rows in between (worker.run).
PassMeansVerified ==
  \A w \in Workers :
    (outcome[w] = "pass" /\ cmd[w] = "run") => found[w] \subseteq Verified

\* Two invocations never both count the same object in their summaries, and
\* what a summary counts is VERIFIED: the guarded UPDATE of mark_verified
\* credits each row to exactly one of them.
CreditedOnce ==
  /\ \A w \in Workers : Credited(w) \subseteq Verified
  /\ \A w \in Workers : published[w] \cap adopted[w] = {}
  /\ \A v, w \in Workers : v # w => Credited(v) \cap Credited(w) = {}

\* A VERIFIED row is never touched again: no late record_attempt, record_failure
\* or second mark of an overlapping run changes any of its columns.
VerifiedIsFinal ==
  [][\A o \in Objects : state[o] = "VERIFIED" =>
       /\ state'[o] = "VERIFIED"
       /\ attempts'[o] = attempts[o]
       /\ last_error'[o] = last_error[o]]_dbVars
=============================================================================
