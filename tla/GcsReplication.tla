--------------------------- MODULE GcsReplication ---------------------------
(***************************************************************************)
(* The replication worker against the object-store adapter                 *)
(* (adapters/gcs/target.py).  Creation is one atomic request that succeeds *)
(* only where no object is (if_generation_match=0); its answer may be lost *)
(* after it took effect, and the client library may send it again.  The    *)
(* request carries whatever bytes the spool file has when it is read,      *)
(* which is after the worker hashed it.                                    *)
(***************************************************************************)
EXTENDS ReplicationCore

VARIABLE replica            \* what the bucket holds: "absent", "exact", "wrong"

vars == <<coreVars, replica>>

Labels == CoreLabels \cup {"readback", "precondition"}

GcsTypeOK ==
  /\ CoreTypeOK(Labels)
  /\ replica \in [Objects -> {"absent", "exact", "wrong"}]

\* An earlier authority, or someone else, may have left objects in the bucket.
Init == CoreInit /\ replica \in [Objects -> {"absent", "exact", "wrong"}]

-----------------------------------------------------------------------------

\* The request carries as many bytes as are expected, from the start of the file:
\* of a longer one these may even be the right ones.
Uploaded(o) == IF source[o] = "good" THEN {"exact"} ELSE {"exact", "wrong"}

\* The adapter owns no transient state in the bucket.
CleanupTransient(w) ==
  \E o \in Objects : Cleaned(w, o) /\ UNCHANGED replica

Inspect(w) ==
  \E o \in Objects : Inspected(w, o, replica[o]) /\ UNCHANGED replica

\* upload_from_file with if_generation_match=0, where nothing is: the object
\* appears and the answer arrives, or the answer is lost and the library sends
\* the request again, or the answer is lost for good.
UploadCreates(w) ==
  /\ pc[w] = "publish"
  /\ \E o \in Objects :
       /\ Current(w, o)
       /\ replica[o] = "absent"
       /\ \E b \in Uploaded(o) : replica' = [replica EXCEPT ![o] = b]
  /\ \/ Goto(w, "readback") /\ UNCHANGED <<loopVars, outcome>>
     \/ Goto(w, "precondition") /\ UNCHANGED <<loopVars, outcome>>
  /\ UNCHANGED <<dbVars, envVars>>

UploadAnswerLost(w) ==
  /\ pc[w] = "publish"
  /\ \E o \in Objects :
       /\ Current(w, o)
       /\ replica[o] = "absent"
       /\ \E b \in Uploaded(o) : replica' = [replica EXCEPT ![o] = b]
  /\ Failing(w, "target_io_error")
  /\ UNCHANGED <<dbVars, envVars>>

\* Mutation: no precondition, the upload replaces what is there.
UploadOverwrites(w) ==
  /\ pc[w] = "publish"
  /\ \E o \in Objects :
       /\ Current(w, o)
       /\ replica[o] # "absent"
       /\ \E b \in Uploaded(o) : replica' = [replica EXCEPT ![o] = b]
  /\ Goto(w, "readback")
  /\ UNCHANGED <<dbVars, envVars, loopVars, outcome>>

UploadRefused(w) ==
  /\ pc[w] = "publish"
  /\ \E o \in Objects : Current(w, o) /\ replica[o] # "absent"
  /\ Goto(w, "precondition")
  /\ UNCHANGED <<dbVars, envVars, loopVars, outcome, replica>>

\* Mutation: an object that is there is taken for the one expected.
AdoptUnread(w) ==
  /\ pc[w] = "precondition"
  /\ Goto(w, "present")
  /\ UNCHANGED <<dbVars, envVars, loopVars, outcome, replica>>

\* PreconditionFailed: adopt exact bytes, refuse any others.
InspectExisting(w) ==
  /\ pc[w] = "precondition"
  /\ \E o \in Objects :
       /\ Current(w, o)
       /\ \/ replica[o] = "exact" /\ Goto(w, "present") /\ UNCHANGED <<loopVars, outcome>>
          \/ replica[o] # "exact" /\ Failing(w, "destination_collision")
  /\ UNCHANGED <<dbVars, envVars, replica>>

\* self.verify(obj) after a creation.
ReadBack(w) ==
  /\ pc[w] = "readback"
  /\ \E o \in Objects :
       /\ Current(w, o)
       /\ \/ replica[o] = "exact" /\ Goto(w, "created") /\ UNCHANGED <<loopVars, outcome>>
          \/ replica[o] # "exact" /\ Failing(w, "destination_digest_mismatch")
  /\ UNCHANGED <<dbVars, envVars, replica>>

\* A request fails inside publish_immutable without effect.
TargetFails(w) ==
  /\ pc[w] \in {"publish", "readback", "precondition"}
  /\ Failing(w, "target_io_error")
  /\ UNCHANGED <<dbVars, envVars, replica>>

VerifyReplica(w) ==
  \E o \in Objects : Verify(w, o, replica[o]) /\ UNCHANGED replica

-----------------------------------------------------------------------------

WorkerStep(w) ==
  \/ CoreStep(w) /\ UNCHANGED replica
  \/ CleanupTransient(w) \/ Inspect(w) \/ VerifyReplica(w)
  \/ UploadCreates(w) \/ UploadRefused(w) \/ InspectExisting(w) \/ ReadBack(w)

Fault(w) ==
  \/ Abort(w) /\ UNCHANGED replica
  \/ TargetFails(w) \/ UploadAnswerLost(w)

Next ==
  \/ \E w \in Workers : WorkerStep(w) \/ Fault(w)
  \/ \E w \in Workers, c \in Commands : Begin(w, c) /\ UNCHANGED replica
  \/ EnvStep /\ UNCHANGED replica

Spec == Init /\ [][Next]_vars

\* The steps of an invocation follow one another, and the operator keeps starting
\* runs: the worker is no daemon, so convergence is a promise to whoever repeats it.
Fairness ==
  /\ \A w \in Workers : WF_vars(WorkerStep(w))
  /\ \A w \in Publishers : SF_vars(Begin(w, "run") /\ UNCHANGED replica)

FairSpec == Spec /\ Fairness

-----------------------------------------------------------------------------
(* Properties *)

\* A VERIFIED row means that the bucket holds the exact bytes, in spite of lost
\* answers, a spool file that changes between hash and upload, and other runs.
VerifiedIsReplicated == \A o \in Objects : state[o] = "VERIFIED" => replica[o] = "exact"

\* verify never accuses a replica: what it lists as VERIFIED it finds exact.
VerifyNeverAccuses ==
  \A w \in Workers :
    cmd[w] = "verify" => outcome[w] \notin {"destination_digest_mismatch", "destination_collision"}

\* The authority knows of every creation beforehand: whatever the worker puts
\* into the bucket belongs to a registered row whose attempt is committed.
AttemptPrecedesCreate ==
  [][\A o \in Objects : replica'[o] # replica[o] =>
       /\ state[o] # "ABSENT"
       /\ attempts[o] > 0]_replica

\* What stands in the way of a run for ever: wrong bytes at a destination, or a
\* bad spool file that discover or the loop still has to read.
Unobstructed ==
  \A o \in Finalized :
    /\ replica[o] # "wrong"
    /\ source[o] = "bad" => o \notin Hashed /\ state[o] = "VERIFIED"

\* Once faults and obstructions are over, repeated runs verify all that is
\* finalized: no interrupted or overlapping run leaves a state they cannot leave.
Converges ==
  (<>[][~ \E w \in Workers : Fault(w)]_vars /\ <>[]Unobstructed)
    => <>[](Finalized \subseteq Verified)

\* The abstract specification, with the rows and the bucket as they are.
Authority == INSTANCE ReplicaAuthority
ImplementsAuthority == Authority!Spec
=============================================================================
