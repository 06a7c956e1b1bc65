--------------------------- MODULE NfsReplication ---------------------------
(***************************************************************************)
(* The replication worker against the mounted-NFSv4 adapter                *)
(* (adapters/nfs/filesystem.py and inspection.py), system call by system   *)
(* call.  Bytes are staged in a partial file whose name is a function of   *)
(* the object, then linked to the final name and unlinked from the         *)
(* partial one.  A name is bound to a file that is finished ("exact",      *)
(* "wrong"), to one whose writer died before finishing it ("part"), or to  *)
(* the file that a worker still has open for writing, which is written     *)
(* here as that worker.  Finished files have no identity: where both names *)
(* exist they are taken to be names of one file.                           *)
(***************************************************************************)
EXTENDS ReplicationCore

\* A file that is open is told apart from every file that is not.
ASSUME NfsAssumption == {"absent", "exact", "wrong", "part"} \cap Workers = {}

VARIABLES final,            \* the destination name of each object
          partial,          \* its owned partial name
          overtaken         \* workers whose look at a name is under way while its file changes

nameVars == <<final, partial>>
nfsVars  == <<nameVars, overtaken>>
vars     == <<coreVars, nfsVars>>

File == {"absent", "exact", "wrong", "part"} \cup Workers

Labels == CoreLabels \cup {"stage", "create", "write", "discard", "link",
                           "yield", "recheck", "unlink", "readback"}

NfsTypeOK ==
  /\ CoreTypeOK(Labels)
  /\ final \in [Objects -> File]
  /\ partial \in [Objects -> File]
  /\ overtaken \subseteq Workers

\* Someone else may have put finished files there; no partial is left over.
Init ==
  /\ CoreInit
  /\ final \in [Objects -> {"absent", "exact", "wrong"}]
  /\ partial = [o \in Objects |-> "absent"]
  /\ overtaken = {}

-----------------------------------------------------------------------------

\* What a reader of the name sees and hashes: an unfinished file is not exact.
Seen(f) == CASE f = "absent" -> "absent"
             [] f = "exact"  -> "exact"
             [] OTHER        -> "wrong"

\* The file a worker has open gets its last bytes, or is closed without them.
Closed(names, w, f) == [o \in Objects |-> IF names[o] = w THEN f ELSE names[o]]

\* Who may be hashing the final name just now: hash_regular wants the inode, size,
\* mtime and ctime of the file to be the same before and after.
Readers(o) ==
  {w \in Workers : /\ pc[w] \in {"inspect", "publish", "recheck", "readback", "verify"}
                   /\ Current(w, o)
                   /\ final[o] # "absent"}

\* Who may be between the lstat and the unlink of cleanup_owned_partial_existing.
Cleaners(o) == {w \in Workers : pc[w] = "clean" /\ Current(w, o)}

Overtakes(some) == \E S \in SUBSET some : overtaken' = overtaken \cup S

\* The partial name goes: that is a change of the file, and a cleanup that comes
\* second finds nothing to unlink.
Unlink(w, o) ==
  /\ partial' = [partial EXCEPT ![o] = "absent"]
  /\ Overtakes(IF partial[o] = "absent" THEN {} ELSE (Readers(o) \cup Cleaners(o)) \ {w})

\* Nothing but the control of the publishing worker changes.
Proceed(w, l) ==
  /\ Goto(w, l)
  /\ UNCHANGED <<loopVars, outcome>>

\* Mutation: reconcile leaves partials alone.
CleanupNothing(w) ==
  \E o \in Objects : Cleaned(w, o) /\ UNCHANGED nfsVars

\* cleanup_owned_partial_existing: whatever is bound to the partial name goes.
CleanupTransient(w) ==
  \E o \in Objects :
    /\ Cleaned(w, o)
    /\ Unlink(w, o)
    /\ UNCHANGED final

\* Mutation: reconcile adopts whatever has the name.
InspectByName(w) ==
  \E o \in Objects :
    /\ Inspected(w, o, IF final[o] = "absent" THEN "absent" ELSE "exact")
    /\ UNCHANGED nfsVars

Inspect(w) ==
  \E o \in Objects : Inspected(w, o, Seen(final[o])) /\ UNCHANGED nfsVars

-----------------------------------------------------------------------------
(* publish_object *)

\* Mutation: bytes are staged although the final name has them already.
FinalStateIgnored(w) ==
  /\ pc[w] = "publish"
  /\ \E o \in Objects :
       /\ Current(w, o)
       /\ \/ Seen(final[o]) # "wrong" /\ Proceed(w, "stage")
          \/ Seen(final[o]) = "wrong" /\ Failing(w, "destination_collision")
  /\ UNCHANGED <<dbVars, envVars, nfsVars>>

FinalState(w) ==
  /\ pc[w] = "publish"
  /\ \E o \in Objects :
       /\ Current(w, o)
       /\ \/ Seen(final[o]) = "exact"  /\ Proceed(w, "present")
          \/ Seen(final[o]) = "absent" /\ Proceed(w, "stage")
          \/ Seen(final[o]) = "wrong"  /\ Failing(w, "destination_collision")
  /\ UNCHANGED <<dbVars, envVars, nfsVars>>

\* A partial that is there belongs to someone: cleanup is reconcile's business.
CheckPartial(w) ==
  /\ pc[w] = "stage"
  /\ \E o \in Objects :
       /\ Current(w, o)
       /\ \/ partial[o] = "absent" /\ Proceed(w, "create")
          \/ partial[o] # "absent" /\ Failing(w, "partial_cleanup_failed")
  /\ UNCHANGED <<dbVars, envVars, nfsVars>>

\* O_CREAT | O_EXCL
CreatePartial(w) ==
  /\ pc[w] = "create"
  /\ \E o \in Objects :
       /\ Current(w, o)
       /\ \/ /\ partial[o] = "absent"
             /\ partial' = [partial EXCEPT ![o] = w]
             /\ Proceed(w, "write")
          \/ /\ partial[o] # "absent"
             /\ Failing(w, "target_io_error")
             /\ UNCHANGED partial
  /\ UNCHANGED <<dbVars, envVars, final, overtaken>>

\* Mutation: the digest of the copied bytes is not compared.
CopyUnchecked(w) ==
  /\ pc[w] = "write"
  /\ \E o \in Objects :
       /\ Current(w, o)
       /\ LET written == IF source[o] = "good" THEN "exact" ELSE "wrong"
          IN /\ final' = Closed(final, w, written)
             /\ partial' = Closed(partial, w, written)
       /\ Overtakes(IF final[o] = w THEN Readers(o) ELSE {})
       /\ Proceed(w, "link")
  /\ UNCHANGED <<dbVars, envVars>>

\* Copy, fsync, close: the bytes go to the open file, under whatever names it
\* has by now; size and digest are those of the bytes that were read.
CopySource(w) ==
  /\ pc[w] = "write"
  /\ \E o \in Objects :
       /\ Current(w, o)
       /\ LET written == IF source[o] = "good" THEN "exact" ELSE "wrong"
          IN /\ final' = Closed(final, w, written)
             /\ partial' = Closed(partial, w, written)
       /\ Overtakes(IF final[o] = w THEN Readers(o) ELSE {})
       /\ Proceed(w, IF source[o] = "good" THEN "link" ELSE "discard")
  /\ UNCHANGED <<dbVars, envVars>>

\* The digest does not match: unlink the partial, whether that works or not.
DiscardPartial(w) ==
  /\ pc[w] = "discard"
  /\ \E o \in Objects :
       /\ Current(w, o)
       /\ Unlink(w, o) \/ UNCHANGED <<partial, overtaken>>
  /\ Failing(w, "local_source_corrupt")
  /\ UNCHANGED <<dbVars, envVars, final>>

\* os.link(partial, final) gives the final name the file that the partial name
\* has now, unless the final name exists or the partial one does not.
LinkFinal(w) ==
  /\ pc[w] = "link"
  /\ \E o \in Objects :
       /\ Current(w, o)
       /\ \/ /\ partial[o] # "absent" /\ final[o] = "absent"
             /\ final' = [final EXCEPT ![o] = partial[o]]
             /\ Proceed(w, "unlink")
          \/ /\ partial[o] # "absent" /\ final[o] # "absent"
             /\ Proceed(w, "yield")
             /\ UNCHANGED final
          \/ /\ partial[o] = "absent"
             /\ Failing(w, "target_io_error")
             /\ UNCHANGED final
  /\ UNCHANGED <<dbVars, envVars, partial, overtaken>>

\* FileExistsError: give the partial up, then adopt exact bytes or refuse.
YieldPartial(w) ==
  /\ pc[w] = "yield"
  /\ \E o \in Objects :
       /\ Current(w, o)
       /\ Unlink(w, o)
       /\ IF partial[o] = "absent"
          THEN Failing(w, "partial_cleanup_failed")
          ELSE Proceed(w, "recheck")
  /\ UNCHANGED <<dbVars, envVars, final>>

RecheckFinal(w) ==
  /\ pc[w] = "recheck"
  /\ \E o \in Objects :
       /\ Current(w, o)
       /\ \/ Seen(final[o]) = "exact" /\ Proceed(w, "present")
          \/ Seen(final[o]) # "exact" /\ Failing(w, "destination_collision")
  /\ UNCHANGED <<dbVars, envVars, nfsVars>>

\* Unlink the partial name and fsync the directory.
UnlinkPartial(w) ==
  /\ pc[w] = "unlink"
  /\ \E o \in Objects :
       /\ Current(w, o)
       /\ Unlink(w, o)
       /\ IF partial[o] = "absent"
          THEN Failing(w, "target_io_error")
          ELSE Proceed(w, "readback")
  /\ UNCHANGED <<dbVars, envVars, final>>

\* Mutation: what was linked is not read back.
TrustLink(w) ==
  /\ pc[w] = "readback"
  /\ Proceed(w, "created")
  /\ UNCHANGED <<dbVars, envVars, nfsVars>>

\* verify_replica_object
ReadBack(w) ==
  /\ pc[w] = "readback"
  /\ \E o \in Objects :
       /\ Current(w, o)
       /\ \/ Seen(final[o]) = "exact" /\ Proceed(w, "created")
          \/ Seen(final[o]) # "exact" /\ Failing(w, "destination_digest_mismatch")
  /\ UNCHANGED <<dbVars, envVars, nfsVars>>

VerifyReplica(w) ==
  \E o \in Objects : Verify(w, o, Seen(final[o])) /\ UNCHANGED nfsVars

\* The look was overtaken: hash_regular finds the file changed, or the cleanup
\* its name gone.  Inside run's try block that is a failure of the object.
Interrupted(w) ==
  /\ w \in overtaken
  /\ overtaken' = overtaken \ {w}
  /\ \/ pc[w] = "clean" /\ Raise(w, "partial_cleanup_failed")
     \/ pc[w] \in {"inspect", "verify"} /\ Raise(w, "destination_digest_mismatch")
     \/ pc[w] \in {"publish", "recheck", "readback"} /\ Failing(w, "destination_digest_mismatch")
  /\ UNCHANGED <<dbVars, envVars, nameVars>>

-----------------------------------------------------------------------------
(* Faults *)

\* An OSError inside publish_object: what was being written stays unfinished.
TargetFails(w) ==
  /\ pc[w] \in (Labels \ CoreLabels) \cup {"publish"}
  /\ Failing(w, "target_io_error")
  /\ final' = Closed(final, w, "part")
  /\ partial' = Closed(partial, w, "part")
  /\ overtaken' = overtaken \ {w}
  /\ UNCHANGED <<dbVars, envVars>>

\* The process dies: its open file stays under its names as it is.
Crash(w) ==
  /\ Abort(w)
  /\ final' = Closed(final, w, "part")
  /\ partial' = Closed(partial, w, "part")
  /\ overtaken' = overtaken \ {w}

-----------------------------------------------------------------------------

Publish(w) ==
  \/ FinalState(w) \/ CheckPartial(w) \/ CreatePartial(w) \/ CopySource(w)
  \/ DiscardPartial(w) \/ LinkFinal(w) \/ YieldPartial(w) \/ RecheckFinal(w)
  \/ UnlinkPartial(w) \/ ReadBack(w)

WorkerStep(w) ==
  \/ CoreStep(w) /\ UNCHANGED nfsVars
  \/ /\ w \notin overtaken
     /\ CleanupTransient(w) \/ Inspect(w) \/ VerifyReplica(w) \/ Publish(w)
  \/ Interrupted(w)

Fault(w) == TargetFails(w) \/ Crash(w)

Next ==
  \/ \E w \in Workers : WorkerStep(w) \/ Fault(w)
  \/ \E w \in Workers, c \in Commands : Begin(w, c) /\ UNCHANGED nfsVars
  \/ EnvStep /\ UNCHANGED nfsVars

Spec == Init /\ [][Next]_vars

\* As in GcsReplication: steps follow one another, runs are started repeatedly.
Fairness ==
  /\ \A w \in Workers : WF_vars(WorkerStep(w))
  /\ \A w \in Publishers : SF_vars(Begin(w, "run") /\ UNCHANGED nfsVars)

FairSpec == Spec /\ Fairness

-----------------------------------------------------------------------------
(* Properties *)

\* A VERIFIED row means that the final name is bound to the exact, complete
\* bytes, even when runs overlap and one of them links what the other writes.
VerifiedIsReplicated ==
  \A o \in Objects : state[o] = "VERIFIED" => Seen(final[o]) = "exact"

\* What a reader of a final name sees never changes once the name exists: the
\* README calls the creation immutable.
ImmutableReplica ==
  [][\A o \in Objects : final[o] # "absent" =>
       Seen(final'[o]) = Seen(final[o])]_final

\* A final name appears with all of its bytes or not at all, although the spool
\* file may change under the copy and a crash may come between any two calls.
CreatesOnlyExact ==
  [][\A o \in Objects : (final[o] = "absent" /\ final'[o] # "absent") =>
       final'[o] = "exact"]_final

\* A partial may outlive the verification of its object: an overlapping reconcile
\* verifies what the publisher has linked and not yet unlinked, the publisher dies,
\* and no later run looks at it.  It is then a second name of the exact bytes and
\* never an unfinished file (publish_object, cleanup_owned_partial_existing).
LeftoversExact ==
  \A o \in Objects : state[o] = "VERIFIED" => partial[o] \in {"absent", "exact"}

\* A verify command accuses a replica only where its own look at it was overtaken,
\* by the unlink of a second name: however old its list of VERIFIED rows is and
\* whoever publishes meanwhile, no replica it lists is absent, unfinished or wrong.
AccusesOnlyOvertaken ==
  [][\A w \in Workers :
       (pc[w] = "verify" /\ outcome[w] = "none" /\ outcome'[w] = "destination_digest_mismatch")
         => w \in overtaken]_vars

\* What stands in the way of a run for ever, as in GcsReplication.
Unobstructed ==
  \A o \in Finalized :
    /\ final[o] \notin {"wrong", "part"}
    /\ source[o] = "bad" => o \notin Hashed /\ state[o] = "VERIFIED"

\* Once faults and obstructions are over, repeated runs verify all that is
\* finalized: a crash between any two system calls leaves nothing in the way.
Converges ==
  (<>[][~ \E w \in Workers : Fault(w)]_vars /\ <>[]Unobstructed)
    => <>[](Finalized \subseteq Verified)

\* The abstract specification, where a reader of the final name sees the replica.
Authority == INSTANCE ReplicaAuthority WITH
               replica <- [o \in Objects |-> Seen(final[o])]
ImplementsAuthority == Authority!Spec
=============================================================================
