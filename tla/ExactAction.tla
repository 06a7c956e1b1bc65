----------------------------- MODULE ExactAction -----------------------------
(***************************************************************************)
(* run_exact of the replication worker (core/worker.py): the execution of  *)
(* one approved manifest, entry by entry, beside ordinary commands.        *)
(* Whoever approves has seen the eligible evidence, the rows and the       *)
(* destination; the execution first projects all three again, refuses if   *)
(* anything differs, and compares each entry once more before and after it *)
(* commits the attempt.  Digests of projections are equal exactly when     *)
(* what they project is, so the projections themselves are compared.  The  *)
(* target is the bucket of GcsReplication, whose generations never change. *)
(***************************************************************************)
EXTENDS GcsReplication

CONSTANT Actions            \* executions of run_exact, each with its manifest

VARIABLES
  manifest,     \* the approved manifest: projected rows and destinations
  xpc,          \* where the execution is
  left,         \* entries it has not finished
  result,       \* result_code of each entry
  status,       \* how the execution ended
  tried         \* history: entries it attempted since the approval

exactVars == <<manifest, xpc, left, result, status, tried>>
allVars   == <<vars, exactVars>>

\* Before and after record_attempt of the current entry.
Unattempted == {"source", "row", "inspect", "register", "presence", "attempt"}
Attempted   == {"again", "reinspect", "upload", "exists", "created", "verify", "mark",
                "confirm"}
ExactLabels == {"idle", "eligible", "authority", "target", "noting", "recording"}
                 \cup Unattempted \cup Attempted

\* Mutation: the projection of a row leaves out how often it was attempted.
RowUncounted(o) == <<state[o], 0, last_error[o]>>

\* ReplicaRowProjection and ReplicaRowAbsenceProjection; what a row has besides
\* never changes.
Row(o) == <<state[o], attempts[o], last_error[o]>>

\* What the manifest freezes of an eligible object: its row and its destination.
Projections ==
  [row : {"ABSENT", "PENDING", "VERIFIED"} \X (0..MaxAttempts) \X (Findings \cup {"none"}),
   dest : {"absent", "exact", "wrong"}]

ExactTypeOK ==
  /\ GcsTypeOK
  /\ \A a \in Actions : /\ DOMAIN manifest[a] \subseteq Objects
                        /\ \A o \in DOMAIN manifest[a] : manifest[a][o] \in Projections
  /\ xpc \in [Actions -> ExactLabels]
  /\ left \in [Actions -> SUBSET Objects]
  /\ result \in [Actions -> [Objects -> {"none", "published", "adopted", "failed", "not-run"}]]
  /\ status \in [Actions -> {"none", "pass", "failed", "refused", "crashed"}]
  /\ tried \in [Actions -> SUBSET Objects]

ExactInit ==
  /\ Init
  /\ manifest = [a \in Actions |-> <<>>]
  /\ xpc = [a \in Actions |-> "idle"]
  /\ left = [a \in Actions |-> {}]
  /\ result = [a \in Actions |-> [o \in Objects |-> "none"]]
  /\ status = [a \in Actions |-> "none"]
  /\ tried = [a \in Actions |-> {}]

-----------------------------------------------------------------------------
(* Approval *)

Eligible(a) == DOMAIN manifest[a]

\* The rows of finalized evidence that name an object, one reference for each.
SourceReferences(o) == {e \in finalized : o \in ObjectsOf[e]}

SourceGood == {o \in Objects : source[o] = "good"}

\* project_source_eligibility: whatever is referenced, where all of it is good.
SourceProjection == {o \in SourceGood : SourceReferences(o) # {}}

\* _replica_rows of project_authority_snapshot, and the snapshot a manifest names.
AuthoritySnapshot == [o \in {x \in Objects : state[x] # "ABSENT"} |-> Row(o)]

ApprovedAuthority(a) ==
  [o \in {x \in Eligible(a) : manifest[a][x].row[1] # "ABSENT"} |-> manifest[a][o].row]

\* What inspect_state finds for each eligible object, and the approved findings.
TargetSnapshot(eligible) == [o \in eligible |-> replica[o]]

ApprovedTarget(a) == [o \in Eligible(a) |-> manifest[a][o].dest]

\* project_remaining_work, and the entries of a manifest: what was not VERIFIED.
RemainingWork == SourceProjection \ Verified

Entries(a) == {o \in Eligible(a) : manifest[a][o].row[1] # "VERIFIED"}

\* The entries are taken in the order of their keys.
Entry(a, o) == o \in left[a] /\ \A p \in left[a] : o <= p

\* The projections and build_candidate_manifest, for whoever is to approve them:
\* every eligible file is good, no destination collides, something is left to do.
Approve(a) ==
  /\ xpc[a] = "idle"
  /\ Finalized = SourceProjection
  /\ \A o \in Finalized : TargetSnapshot(Finalized)[o] # "wrong"
  /\ RemainingWork # {}
  /\ manifest' = [manifest EXCEPT ![a] =
                    [o \in Finalized |-> [row |-> Row(o), dest |-> replica[o]]]]
  /\ status' = [status EXCEPT ![a] = "none"]
  /\ tried' = [tried EXCEPT ![a] = {}]
  /\ UNCHANGED <<vars, xpc, left, result>>

\* The same manifest may be handed in again, by mistake or after a crash.
ExactBegin(a) ==
  /\ xpc[a] = "idle"
  /\ Eligible(a) # {}
  /\ xpc' = [xpc EXCEPT ![a] = "eligible"]
  /\ left' = [left EXCEPT ![a] = Entries(a)]
  /\ result' = [result EXCEPT ![a] = [o \in Objects |-> "none"]]
  /\ status' = [status EXCEPT ![a] = "none"]
  /\ UNCHANGED <<vars, manifest, tried>>

-----------------------------------------------------------------------------
(* The projections before the first entry: any difference refuses all of it *)

Advance(a, l) ==
  /\ xpc' = [xpc EXCEPT ![a] = l]
  /\ UNCHANGED <<manifest, left, result, status, tried>>

\* The execution ends; every entry it does not reach is reported as such.
End(a, s, r) ==
  /\ xpc' = [xpc EXCEPT ![a] = "idle"]
  /\ status' = [status EXCEPT ![a] = s]
  /\ result' = [result EXCEPT ![a] = r]
  /\ left' = [left EXCEPT ![a] = {}]
  /\ UNCHANGED <<manifest, tried>>

Nothing == [o \in Objects |-> "none"]

\* Go on to l where what was projected is as approved.
Compare(a, from, same, l) ==
  /\ xpc[a] = from
  /\ \/ same /\ Advance(a, l)
     \/ ~ same /\ End(a, "refused", Nothing)
  /\ UNCHANGED vars

\* discover and the digests of all eligible files.
ProjectSource(a) ==
  Compare(a, "eligible",
          Finalized = SourceProjection /\ SourceProjection = Eligible(a),
          "authority")

\* All rows of the target, those of evidence finalized later included.
ProjectAuthority(a) ==
  Compare(a, "authority",
          AuthoritySnapshot = ApprovedAuthority(a),
          "target")

\* The inspections are separate requests; each entry is inspected again later,
\* so taking them together hides no interleaving that matters.
ProjectTarget(a) ==
  Compare(a, "target",
          TargetSnapshot(Eligible(a)) = ApprovedTarget(a),
          "source")

-----------------------------------------------------------------------------
(* One entry *)

\* Stop at the current entry.
Stop(a) ==
  End(a, "failed",
      [o \in Objects |-> IF o \notin left[a] THEN result[a][o]
                         ELSE IF Entry(a, o) THEN "failed" ELSE "not-run"])

\* A ReplicationError: after the attempt the failure is noted on the row.
EntryFails(a) ==
  \/ xpc[a] \in Unattempted /\ Stop(a)
  \/ xpc[a] \in Attempted /\ Advance(a, "noting")

\* Check the current entry: go on to l if it is among those that are as they should be.
Check(a, from, fine, l) ==
  /\ xpc[a] = from
  /\ \E o \in Objects :
       /\ Entry(a, o)
       /\ \/ o \in fine /\ Advance(a, l)
          \/ o \notin fine /\ EntryFails(a)
  /\ UNCHANGED vars

RevalidateSource(a) == Check(a, "source", SourceProjection, "row")

ReadReplicaWitness(a) ==
  Check(a, "row", {o \in Entries(a) : Row(o) = manifest[a][o].row}, "inspect")

InspectState(a) ==
  Check(a, "inspect", {o \in Entries(a) : replica[o] = manifest[a][o].dest}, "register")

\* An entry approved as unregistered is registered now.
RegisterEntry(a) ==
  /\ xpc[a] = "register"
  /\ \E o \in Objects :
       /\ Entry(a, o)
       /\ \/ /\ manifest[a][o].row[1] = "ABSENT"
             /\ state' = [state EXCEPT ![o] = IF @ = "ABSENT" THEN "PENDING" ELSE @]
             /\ Advance(a, "presence")
          \/ /\ manifest[a][o].row[1] # "ABSENT"
             /\ Advance(a, "attempt")
             /\ UNCHANGED state
  /\ UNCHANGED <<attempts, last_error, envVars, pc, loopVars, outcome, replica>>

CheckPresence(a) ==
  Check(a, "presence", {o \in Pending : last_error[o] = "none"}, "attempt")

\* record_attempt.  MaxAttempts bounds it here, see ExactNext.
AttemptEntry(a) ==
  /\ xpc[a] = "attempt"
  /\ \E o \in Objects :
       /\ Entry(a, o)
       /\ \/ /\ state[o] = "PENDING"
             /\ attempts[o] < MaxAttempts
             /\ attempts' = [attempts EXCEPT ![o] = @ + 1]
             /\ last_error' = [last_error EXCEPT ![o] = "none"]
             /\ xpc' = [xpc EXCEPT ![a] = "again"]
             /\ tried' = [tried EXCEPT ![a] = @ \cup {o}]
             /\ UNCHANGED <<manifest, left, result, status>>
          \/ /\ state[o] # "PENDING"
             /\ EntryFails(a)
             /\ UNCHANGED <<attempts, last_error>>
  /\ UNCHANGED <<state, envVars, pc, loopVars, outcome, replica>>

RevalidateAgain(a) == Check(a, "again", SourceProjection, "reinspect")

\* An exact destination is adopted, an absent one is published.
Reinspect(a) ==
  /\ xpc[a] = "reinspect"
  /\ \E o \in Objects :
       /\ Entry(a, o)
       /\ \/ replica[o] # manifest[a][o].dest /\ EntryFails(a)
          \/ replica[o] = manifest[a][o].dest /\ replica[o] = "exact" /\ Advance(a, "verify")
          \/ replica[o] = manifest[a][o].dest /\ replica[o] = "absent" /\ Advance(a, "upload")
  /\ UNCHANGED vars

\* publish_immutable: as in GcsReplication.
UploadEntry(a) ==
  /\ xpc[a] = "upload"
  /\ \E o \in Objects :
       /\ Entry(a, o)
       /\ \/ /\ replica[o] = "absent"
             /\ \E b \in Uploaded(o) : replica' = [replica EXCEPT ![o] = b]
             /\ \E l \in {"created", "exists", "noting"} : Advance(a, l)
          \/ /\ replica[o] # "absent"
             /\ Advance(a, "exists")
             /\ UNCHANGED replica
  /\ UNCHANGED coreVars

\* Mutation: whatever publish_immutable returns is taken for a publication.
EntryExistsTaken(a) ==
  /\ xpc[a] = "exists"
  /\ Advance(a, "mark")
  /\ UNCHANGED vars

\* PreconditionFailed: other bytes are a collision, and exact ones are "adopted",
\* which is not what was approved; the entry fails either way.
EntryExists(a) ==
  /\ xpc[a] = "exists"
  /\ EntryFails(a)
  /\ UNCHANGED vars

DestinationExact == {o \in Objects : replica[o] = "exact"}

\* The read-back of publish_immutable, then that of run_exact.
EntryReadBack(a) == Check(a, "created", DestinationExact, "verify")
VerifyEntry(a)   == Check(a, "verify", DestinationExact, "mark")

\* Mutation: the UPDATE of mark_verified without its condition on the state.
MarkEntryBlind(a) ==
  /\ xpc[a] = "mark"
  /\ \E o \in Objects :
       /\ Entry(a, o)
       /\ state' = [state EXCEPT ![o] = "VERIFIED"]
       /\ last_error' = [last_error EXCEPT ![o] = "none"]
       /\ Advance(a, "confirm")
  /\ UNCHANGED <<attempts, envVars, pc, loopVars, outcome, replica>>

MarkEntry(a) ==
  /\ xpc[a] = "mark"
  /\ \E o \in Objects :
       /\ Entry(a, o)
       /\ \/ /\ state[o] = "PENDING"
             /\ state' = [state EXCEPT ![o] = "VERIFIED"]
             /\ last_error' = [last_error EXCEPT ![o] = "none"]
             /\ Advance(a, "confirm")
          \/ /\ state[o] # "PENDING"
             /\ EntryFails(a)
             /\ UNCHANGED <<state, last_error>>
  /\ UNCHANGED <<attempts, envVars, pc, loopVars, outcome, replica>>

\* Row and destination are read once more; the entry has its result.  The totals
\* published_count and adopted_count, raised before the mark, are left out.
Confirm(a) ==
  /\ xpc[a] = "confirm"
  /\ \E o \in Objects :
       /\ Entry(a, o)
       /\ \/ /\ state[o] = "VERIFIED" /\ replica[o] = "exact"
             /\ result' = [result EXCEPT ![a][o] =
                             IF manifest[a][o].dest = "exact" THEN "adopted" ELSE "published"]
             /\ left' = [left EXCEPT ![a] = @ \ {o}]
             /\ xpc' = [xpc EXCEPT ![a] = "source"]
             /\ UNCHANGED <<manifest, status, tried>>
          \/ /\ ~ (state[o] = "VERIFIED" /\ replica[o] = "exact")
             /\ EntryFails(a)
  /\ UNCHANGED vars

ExactEnd(a) ==
  /\ xpc[a] = "source"
  /\ left[a] = {}
  /\ End(a, "pass", result[a])
  /\ UNCHANGED vars

\* The failure is recorded where the row was read as PENDING ...
NoteFailure(a) ==
  /\ xpc[a] = "noting"
  /\ \E o \in Objects :
       /\ Entry(a, o)
       /\ \/ state[o] = "PENDING" /\ Advance(a, "recording")
          \/ state[o] # "PENDING" /\ Stop(a)
  /\ UNCHANGED vars

\* Mutation: the UPDATE trusts what was read.
RecordEntryFailureBlind(a) ==
  /\ xpc[a] = "recording"
  /\ \E o \in Objects :
       /\ Entry(a, o)
       /\ last_error' = [last_error EXCEPT ![o] = "target_io_error"]
  /\ Stop(a)
  /\ UNCHANGED <<state, attempts, envVars, pc, loopVars, outcome, replica>>

\* ... and still is; the findings that can be recorded here are not told apart.
RecordEntryFailure(a) ==
  /\ xpc[a] = "recording"
  /\ \E o \in Objects :
       /\ Entry(a, o)
       /\ last_error' = [last_error EXCEPT ![o] =
                           IF state[o] = "PENDING" THEN "target_io_error" ELSE @]
  /\ Stop(a)
  /\ UNCHANGED <<state, attempts, envVars, pc, loopVars, outcome, replica>>

\* A call on the target or the database fails, or the runtime identity of the
\* target is no longer the approved one.
EntryFault(a) ==
  /\ \/ EntryFails(a)
     \/ xpc[a] \in {"noting", "recording"} /\ Stop(a)
     \/ xpc[a] \in {"eligible", "authority", "target"} /\ End(a, "refused", Nothing)
  /\ left[a] # {}
  /\ UNCHANGED vars

ExactCrash(a) ==
  /\ xpc[a] # "idle"
  /\ End(a, "crashed", Nothing)
  /\ UNCHANGED vars

-----------------------------------------------------------------------------

EntryStep(a) ==
  \/ RevalidateSource(a) \/ ReadReplicaWitness(a) \/ InspectState(a) \/ RegisterEntry(a)
  \/ CheckPresence(a) \/ AttemptEntry(a) \/ RevalidateAgain(a) \/ Reinspect(a)
  \/ UploadEntry(a) \/ EntryExists(a) \/ EntryReadBack(a) \/ VerifyEntry(a)
  \/ MarkEntry(a) \/ Confirm(a) \/ NoteFailure(a) \/ RecordEntryFailure(a) \/ ExactEnd(a)

\* The rows would be told apart by their attempt_count for ever; here no attempt
\* beyond MaxAttempts is made, so that a row never looks as it did before.
Counted == \A w \in Workers : (pc[w] = "attempt" /\ pc'[w] = "hash") => attempts' # attempts

ExactNext ==
  \/ \E a \in Actions : Approve(a) \/ ExactBegin(a)
  \/ \E a \in Actions : ProjectSource(a) \/ ProjectAuthority(a) \/ ProjectTarget(a)
  \/ \E a \in Actions : EntryStep(a) \/ EntryFault(a) \/ ExactCrash(a)
  \/ Next /\ Counted /\ UNCHANGED exactVars

ExactSpec == ExactInit /\ [][ExactNext]_allVars

-----------------------------------------------------------------------------
(* Properties *)

Reported(a) == {o \in Objects : result[a][o] \in {"published", "adopted"}}

\* The result of an execution is true beside whatever else runs: an entry
\* reported as published or adopted is VERIFIED and counted by nobody else, and
\* a status of "pass" has such a result for every entry that was approved.
ReportIsTrue ==
  \A a \in Actions :
    /\ Reported(a) \subseteq Verified
    /\ \A w \in Workers : Reported(a) \cap Credited(w) = {}
    /\ \A b \in Actions : a # b => Reported(a) \cap Reported(b) = {}
    /\ status[a] = "pass" => Entries(a) = Reported(a)

\* An approval is used once: no entry is attempted a second time under the same
\* manifest, however often it is handed in and wherever an execution died.
OncePerApproval ==
  [][\A a \in Actions : \A o \in tried[a] :
       ~ (xpc[a] = "attempt" /\ Entry(a, o) /\ xpc'[a] = "again")]_xpc
=============================================================================
