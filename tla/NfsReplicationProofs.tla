------------------------ MODULE NfsReplicationProofs ------------------------
(***************************************************************************)
(* Proofs about the worker on the mounted-NFSv4 adapter, for any sets of   *)
(* workers, objects and evidence.  With any number of overlapping runs:    *)
(* the types, the invariants of the core, that a VERIFIED row is           *)
(* replicated, and what verify may accuse.  With one publisher beside any  *)
(* number of reconciling and verifying commands: what a partial name may   *)
(* be left with, that final names appear complete and do not change, and   *)
(* ReplicaAuthority.                                                       *)
(***************************************************************************)
EXTENDS NfsReplication, ReplicationCoreProofs

-----------------------------------------------------------------------------
(* The inductive invariant, for any publishers *)

\* A worker about to mark an object has seen its exact bytes at the final name.
MarkJustified ==
  \A w \in Workers, o \in Objects :
    (pc[w] \in {"adopt", "created", "present"} /\ Current(w, o)) => final[o] = "exact"

\* A worker past record_attempt works on a row that is there.
Attempting == (Labels \ CoreLabels) \cup {"hash", "publish"}

AttemptCommitted ==
  \A w \in Workers, o \in Objects :
    (pc[w] \in Attempting /\ Current(w, o)) => state[o] # "ABSENT"

NfsInv ==
  /\ CoreInv(Labels)
  /\ final \in [Objects -> File]
  /\ partial \in [Objects -> File]
  /\ overtaken \subseteq Workers
  /\ VerifiedIsReplicated
  /\ MarkJustified
  /\ AttemptCommitted

-----------------------------------------------------------------------------
(* What it takes besides, where at most one invocation publishes *)

OnePublisher == \A v, w \in Publishers : v = w

Reconciling == {"idle", "clean", "inspect", "adopt", "verify"}

\* Only what was started with the run command gets to the publishing loop.
RunsPublish ==
  \A w \in Workers :
    /\ pc[w] # "idle" /\ cmd[w] = "run" => w \in Publishers
    /\ pc[w] \notin Reconciling => cmd[w] = "run"

\* A file is open only while its writer copies, under its partial name; somebody
\* else may have taken that name away meanwhile.
OpenFiles ==
  /\ \A o \in Objects : final[o] \notin Workers
  /\ \A w \in Workers, o \in Objects : partial[o] = w => pc[w] = "write" /\ Current(w, o)

\* From the look at the final name to the link.
Staging == {"stage", "create", "write", "discard", "link"}

\* Until the link there is no final name, and at the link the partial name has
\* all of the bytes, or is gone.
Linking ==
  \A w \in Workers, o \in Objects :
    Current(w, o) =>
      /\ pc[w] \in Staging => final[o] = "absent"
      /\ pc[w] = "write" => partial[o] \in {"absent", w}
      /\ pc[w] = "link" => partial[o] \in {"absent", "exact"}

\* What a partial may hold beside a final name, whoever created that.
PublishedPartials ==
  \A o \in Objects : final[o] # "absent" => partial[o] \in {"absent", "exact"}

PublisherInv == RunsPublish /\ OpenFiles /\ Linking /\ PublishedPartials

-----------------------------------------------------------------------------
(* The steps *)

\* A look at the final name inside publish_object that was overtaken.
LookFails(w) ==
  /\ pc[w] \in {"publish", "recheck", "readback"}
  /\ Failing(w, "destination_digest_mismatch")
  /\ UNCHANGED <<dbVars, envVars, nameVars>>

\* A step inside publish_object.
PublishStep(w) == Publish(w) \/ TargetFails(w) \/ LookFails(w)

\* A look of reconcile or verify that was overtaken: the command ends.
Leaves(w) ==
  /\ w \in overtaken
  /\ pc[w] \in {"clean", "inspect", "verify"}
  /\ \E f \in Findings : Raise(w, f)
  /\ UNCHANGED <<dbVars, envVars, nameVars>>

LEMMA CoreLabelsIn == CoreLabels \subseteq Labels
  BY DEF Labels

LEMMA AttemptLabels ==
  Attempting = {"hash", "publish", "stage", "create", "write", "discard", "link", "yield",
                "recheck", "unlink", "readback"}
  BY DEF Attempting, Labels, CoreLabels

\* The kinds of step, each with what it leaves alone.
LEMMA NextCases ==
  ASSUME [Next]_vars
  PROVE  \/ \E w \in Workers : CoreStep(w) /\ UNCHANGED nameVars
         \/ \E w \in Workers : CleanupTransient(w)
         \/ \E w \in Workers, o \in Objects : Inspected(w, o, Seen(final[o])) /\ UNCHANGED nameVars
         \/ \E w \in Workers, o \in Objects : Verify(w, o, Seen(final[o])) /\ UNCHANGED nameVars
         \/ \E w \in Workers : PublishStep(w)
         \/ \E w \in Workers : Crash(w) \/ Leaves(w)
         \/ \E w \in Workers, c \in Commands : Begin(w, c) /\ UNCHANGED nameVars
         \/ EnvStep /\ UNCHANGED nameVars
         \/ UNCHANGED vars
<1>1. ASSUME NEW w \in Workers, Interrupted(w)
      PROVE  Leaves(w) \/ PublishStep(w)
  BY <1>1 DEF Interrupted, Leaves, LookFails, PublishStep, Findings
<1>2. UNCHANGED nfsVars => UNCHANGED nameVars
  BY DEF nfsVars
<1> QED
  BY <1>1, <1>2 DEF Next, WorkerStep, Fault, PublishStep, Inspect, VerifyReplica

\* A step of publish_object moves the control and nothing of the authority.
LEMMA PublishControl ==
  ASSUME NEW w \in Workers, PublishStep(w)
  PROVE  /\ pc[w] \in (Labels \ CoreLabels) \cup {"publish"}
         /\ UNCHANGED <<dbVars, envVars, loopVars>>
         /\ \/ \E l \in (Labels \ CoreLabels) \cup {"present", "created"} :
                  Goto(w, l) /\ UNCHANGED outcome
            \/ \E f \in Findings : Failing(w, f)
<1> USE DEF Labels, CoreLabels, Proceed, Findings
<1>1. CASE FinalState(w)      BY <1>1 DEF FinalState, Failing
<1>2. CASE CheckPartial(w)    BY <1>2 DEF CheckPartial, Failing
<1>3. CASE CreatePartial(w)   BY <1>3 DEF CreatePartial, Failing
<1>4. CASE CopySource(w)      BY <1>4 DEF CopySource
<1>5. CASE DiscardPartial(w)  BY <1>5 DEF DiscardPartial, Failing
<1>6. CASE LinkFinal(w)       BY <1>6 DEF LinkFinal, Failing
<1>7. CASE YieldPartial(w)    BY <1>7 DEF YieldPartial, Failing
<1>8. CASE RecheckFinal(w)    BY <1>8 DEF RecheckFinal, Failing
<1>9. CASE UnlinkPartial(w)   BY <1>9 DEF UnlinkPartial, Failing
<1>10. CASE ReadBack(w)       BY <1>10 DEF ReadBack, Failing
<1>11. CASE TargetFails(w)    BY <1>11 DEF TargetFails, Failing
<1>12. CASE LookFails(w)      BY <1>12 DEF LookFails, Failing
<1> QED
  BY <1>1, <1>2, <1>3, <1>4, <1>5, <1>6, <1>7, <1>8, <1>9, <1>10, <1>11, <1>12
  DEF PublishStep, Publish

LEMMA PublishCore ==
  ASSUME CoreInv(Labels), NEW w \in Workers, PublishStep(w)
  PROVE  CoreInv(Labels)'
<1>1. /\ pc[w] \notin Outside
      /\ UNCHANGED <<dbVars, envVars, loopVars>>
      /\ \/ \E l \in (Labels \ CoreLabels) \cup {"present", "created"} :
               Goto(w, l) /\ UNCHANGED outcome
         \/ \E f \in Findings : Failing(w, f)
  BY PublishControl DEF Outside, Labels, CoreLabels
<1>2. CASE \E l \in (Labels \ CoreLabels) \cup {"present", "created"} :
               Goto(w, l) /\ UNCHANGED outcome
  <2>1. PICK l \in Labels : l \notin Outside \cup {"fail"} /\ Goto(w, l) /\ UNCHANGED outcome
    BY <1>2 DEF Labels, CoreLabels, Outside
  <2> QED
    BY <1>1, <2>1, CoreLabelsIn, MoveInv
<1>3. CASE \E f \in Findings : Failing(w, f)
  BY <1>1, <1>3, CoreLabelsIn, FailingInv
<1> QED
  BY <1>1, <1>2, <1>3

LEMMA NextCore == CoreInv(Labels) /\ [Next]_vars => CoreInv(Labels)'
<1> SUFFICES ASSUME CoreInv(Labels), [Next]_vars PROVE CoreInv(Labels)'
  OBVIOUS
<1> USE CoreLabelsIn
<1>1. ASSUME NEW w \in Workers, CoreStep(w) PROVE CoreInv(Labels)'
  BY <1>1, CoreStepInv
<1>2. ASSUME NEW w \in Workers, CleanupTransient(w) PROVE CoreInv(Labels)'
  BY <1>2, CleanedInv DEF CleanupTransient
<1>3. ASSUME NEW w \in Workers, NEW o \in Objects, Inspected(w, o, Seen(final[o]))
      PROVE  CoreInv(Labels)'
  BY <1>3, InspectedInv
<1>4. ASSUME NEW w \in Workers, NEW o \in Objects, Verify(w, o, Seen(final[o]))
      PROVE  CoreInv(Labels)'
  BY <1>4, VerifyInv
<1>5. ASSUME NEW w \in Workers, Crash(w) PROVE CoreInv(Labels)'
  BY <1>5, AbortInv DEF Crash
<1>6. ASSUME NEW w \in Workers, NEW c \in Commands, Begin(w, c) PROVE CoreInv(Labels)'
  BY <1>6, BeginInv
<1>7. UNCHANGED vars => CoreInv(Labels)'
  BY StutterInv DEF vars
<1>8. ASSUME NEW w \in Workers, Leaves(w) PROVE CoreInv(Labels)'
  <2>1. PICK f \in Findings : Raise(w, f)
    BY <1>8 DEF Leaves
  <2>2. UNCHANGED <<dbVars, envVars>> /\ UNCHANGED state
    BY <1>8 DEF Leaves, dbVars
  <2>3. CoreTypeOK(Labels)'
    BY <2>1, <2>2, RaiseType DEF CoreInv
  <2> QED
    BY <2>1, <2>2, <2>3, RaiseInv DEF CoreInv
<1> QED
  BY <1>1, <1>2, <1>3, <1>4, <1>5, <1>6, <1>7, <1>8, PublishCore, EnvInv, NextCases

\* The rows change in the steps of the core only.
LEMMA NextRows ==
  ASSUME CoreTypeOK(Labels), [Next]_vars
  PROVE  /\ RowsMonotone
         /\ UNCHANGED dbVars \/ \E w \in Workers : CoreStep(w) /\ UNCHANGED nameVars
<1>1. \/ \E w \in Workers : CoreStep(w) /\ UNCHANGED nameVars
      \/ UNCHANGED dbVars
  BY NextCases, PublishControl DEF CleanupTransient, Cleaned, Inspected, Verify, Crash, Abort,
     Leaves, Begin, EnvStep, Finalize, SourceChanges, vars, coreVars
<1> QED
  BY <1>1, RowsStay, CoreStepRows

-----------------------------------------------------------------------------
(* The names *)

\* A file is exact to its readers exactly when it is complete and right.
LEMMA SeenExact == \A f \in File : Seen(f) = "exact" <=> f = "exact"
  BY NfsAssumption DEF Seen, File

LEMMA SeenAbsent == \A f \in File : Seen(f) = "absent" <=> f = "absent"
  BY NfsAssumption DEF Seen, File

LEMMA ClosedType ==
  ASSUME NEW names \in [Objects -> File], NEW w \in Workers, NEW f \in File
  PROVE  /\ Closed(names, w, f) \in [Objects -> File]
         /\ \A o \in Objects : names[o] # w => Closed(names, w, f)[o] = names[o]
         /\ \A o \in Objects : names[o] = w => Closed(names, w, f)[o] = f
  BY DEF Closed

\* The names that one step of a publisher may bind.
LEMMA PublishNames ==
  ASSUME NEW w \in Workers, PublishStep(w),
         final \in [Objects -> File], partial \in [Objects -> File]
  PROVE  /\ final' \in [Objects -> File] /\ partial' \in [Objects -> File]
         /\ \A o \in Objects : final[o] \notin Workers \cup {"absent"} => final'[o] = final[o]
<1> USE DEF File
<1>1. CASE UNCHANGED nameVars
  BY <1>1 DEF nameVars
<1>2. CASE CreatePartial(w) \/ DiscardPartial(w) \/ YieldPartial(w) \/ UnlinkPartial(w)
  <2>1. UNCHANGED final
    BY <1>2 DEF CreatePartial, DiscardPartial, YieldPartial, UnlinkPartial
  <2>2. \/ UNCHANGED partial
        \/ \E o \in Objects, f \in {"absent", w} : partial' = [partial EXCEPT ![o] = f]
    BY <1>2 DEF CreatePartial, DiscardPartial, YieldPartial, UnlinkPartial, Unlink
  <2> QED
    BY <2>1, <2>2
<1>3. CASE LinkFinal(w)
  BY <1>3 DEF LinkFinal
<1>4. CASE CopySource(w) \/ TargetFails(w)
  <2>1. PICK f \in {"exact", "wrong", "part"} :
           final' = Closed(final, w, f) /\ partial' = Closed(partial, w, f)
    BY <1>4 DEF CopySource, TargetFails
  <2> QED
    BY <2>1, ClosedType
<1> QED
  BY <1>1, <1>2, <1>3, <1>4
  DEF PublishStep, Publish, FinalState, CheckPartial, RecheckFinal, ReadBack, LookFails, nfsVars

LEMMA NextNames ==
  ASSUME final \in [Objects -> File], partial \in [Objects -> File], [Next]_vars
  PROVE  /\ final' \in [Objects -> File] /\ partial' \in [Objects -> File]
         /\ \A o \in Objects : final[o] \notin Workers \cup {"absent"} => final'[o] = final[o]
<1>1. CASE UNCHANGED nameVars
  BY <1>1 DEF nameVars
<1>2. ASSUME NEW w \in Workers, CleanupTransient(w)
      PROVE  UNCHANGED final /\ partial' \in [Objects -> File]
  BY <1>2 DEF CleanupTransient, Unlink, File
<1>3. ASSUME NEW w \in Workers, Crash(w)
      PROVE  /\ final' \in [Objects -> File] /\ partial' \in [Objects -> File]
             /\ \A o \in Objects : final[o] \notin Workers \cup {"absent"} => final'[o] = final[o]
  BY <1>3, ClosedType DEF Crash, File
<1> QED
  BY <1>1, <1>2, <1>3, PublishNames, NextCases DEF vars, nfsVars, Leaves

\* Only workers are overtaken.
LEMMA NextOvertaken ==
  ASSUME overtaken \subseteq Workers, [Next]_vars
  PROVE  overtaken' \subseteq Workers
<1>1. ASSUME NEW w \in Workers, NEW o \in Objects, Unlink(w, o)
      PROVE  overtaken' \subseteq Workers
  BY <1>1 DEF Unlink, Overtakes, Readers, Cleaners
<1>2. ASSUME NEW w \in Workers, Publish(w)
      PROVE  overtaken' \subseteq Workers
  BY <1>1, <1>2 DEF Publish, FinalState, CheckPartial, CreatePartial, CopySource, DiscardPartial,
     LinkFinal, YieldPartial, RecheckFinal, UnlinkPartial, ReadBack, Overtakes, Readers, nfsVars
<1>3. ASSUME NEW w \in Workers, WorkerStep(w)
      PROVE  overtaken' \subseteq Workers
  BY <1>1, <1>2, <1>3 DEF WorkerStep, CleanupTransient, Inspect, VerifyReplica, Interrupted, nfsVars
<1> QED
  BY <1>3 DEF Next, Fault, TargetFails, Crash, vars, nfsVars

-----------------------------------------------------------------------------
(* The invariant for any publishers *)

\* One invocation.
Acts(v) ==
  \/ CoreStep(v) /\ UNCHANGED nameVars
  \/ CleanupTransient(v)
  \/ \E o \in Objects : Inspected(v, o, Seen(final[o])) /\ UNCHANGED nameVars
  \/ \E o \in Objects : Verify(v, o, Seen(final[o])) /\ UNCHANGED nameVars
  \/ PublishStep(v)
  \/ Crash(v)
  \/ Leaves(v)
  \/ \E c \in Commands : Begin(v, c) /\ UNCHANGED nameVars

LEMMA NextActs ==
  ASSUME [Next]_vars
  PROVE  \/ \E v \in Workers : Acts(v)
         \/ UNCHANGED <<dbVars, nameVars, pc, loopVars, outcome>>
  BY NextCases DEF Acts, EnvStep, Finalize, SourceChanges, vars, coreVars, nfsVars

\* The others stay where they are.
LEMMA OthersStay ==
  ASSUME CoreTypeOK(Labels), NEW v \in Workers, Acts(v), NEW w \in Workers, w # v
  PROVE  pc'[w] = pc[w] /\ todo'[w] = todo[w] /\ cmd'[w] = cmd[w]
<1> USE DEF CoreTypeOK, Goto, Raise, Failing, Return, loopVars
<1>1. CASE CoreStep(v)
  BY <1>1 DEF CoreStep, ReconcileMark, MarkVerified, ReconcileEnd, Discover,
     RegisterDiscovered, ListPending, RecordAttempt, HashSource, RecordFailure, RunMark,
     RunEnd, VerifyEnd
<1>2. CASE PublishStep(v)
  BY <1>2, PublishControl
<1>3. CASE CleanupTransient(v) \/ Crash(v) \/ Leaves(v)
  BY <1>3 DEF CleanupTransient, Cleaned, Crash, Abort, Leaves
<1>4. ASSUME NEW o \in Objects, Inspected(v, o, Seen(final[o])) \/ Verify(v, o, Seen(final[o]))
      PROVE  pc'[w] = pc[w] /\ todo'[w] = todo[w] /\ cmd'[w] = cmd[w]
  BY <1>4 DEF Inspected, Verify
<1>5. ASSUME NEW c \in Commands, Begin(v, c)
      PROVE  pc'[w] = pc[w] /\ todo'[w] = todo[w] /\ cmd'[w] = cmd[w]
  BY <1>5 DEF Begin
<1> QED
  BY <1>1, <1>2, <1>3, <1>4, <1>5 DEF Acts

\* A worker that comes to the mark has just seen the exact bytes.
LEMMA MarkReached ==
  ASSUME NfsInv, NEW w \in Workers, Acts(w), NEW o \in Objects,
         pc'[w] \in {"adopt", "created", "present"}, Current(w, o)'
  PROVE  \/ pc[w] \in {"adopt", "created", "present"} /\ Current(w, o)
         \/ final[o] = "exact"
<1> USE DEF NfsInv, CoreInv, CoreTypeOK, Goto, Raise, Failing, Return, loopVars
<1>1. CASE CoreStep(w)
  BY <1>1 DEF CoreStep, ReconcileMark, MarkVerified, ReconcileEnd, Discover,
     RegisterDiscovered, ListPending, RecordAttempt, HashSource, RecordFailure, RunMark,
     RunEnd, VerifyEnd
<1>2. CASE CleanupTransient(w) \/ Crash(w) \/ Leaves(w)
  BY <1>2 DEF CleanupTransient, Cleaned, Crash, Abort, Leaves
<1>3. ASSUME NEW p \in Objects, Inspected(w, p, Seen(final[p]))
      PROVE  final[o] = "exact"
  <2>1. Seen(final[p]) = "exact" /\ Current(w, p) /\ UNCHANGED loopVars
    BY <1>3 DEF Inspected
  <2>2. Current(w, o)
    BY <2>1 DEF Current
  <2> QED
    BY <2>1, <2>2, CurrentUnique, SeenExact
<1>4. ASSUME NEW p \in Objects, Verify(w, p, Seen(final[p]))
      PROVE  FALSE
  BY <1>4 DEF Verify
<1>5. CASE PublishStep(w)
  <2>1. Current(w, o)
    BY <1>5, PublishControl DEF Current
  <2>2. FinalState(w) \/ RecheckFinal(w) \/ ReadBack(w)
    BY <1>5 DEF PublishStep, Publish, CheckPartial, CreatePartial, CopySource, DiscardPartial,
       LinkFinal, YieldPartial, UnlinkPartial, TargetFails, LookFails, Proceed
  <2>3. PICK p \in Objects : Current(w, p) /\ Seen(final[p]) = "exact"
    BY <2>2 DEF FinalState, RecheckFinal, ReadBack, Proceed
  <2> QED
    BY <2>1, <2>3, CurrentUnique, SeenExact
<1>6. ASSUME NEW c \in Commands, Begin(w, c)
      PROVE  FALSE
  BY <1>6 DEF Begin
<1> QED
  BY <1>1, <1>2, <1>3, <1>4, <1>5, <1>6 DEF Acts

\* A worker past record_attempt was there before, or has just committed it.
LEMMA AttemptReached ==
  ASSUME NfsInv, NEW w \in Workers, Acts(w), NEW o \in Objects,
         pc'[w] \in Attempting, Current(w, o)'
  PROVE  \/ pc[w] \in Attempting /\ Current(w, o)
         \/ state'[o] # "ABSENT"
<1> USE AttemptLabels
    DEF NfsInv, CoreInv, CoreTypeOK, Goto, Raise, Failing, Return, dbVars, loopVars
<1>1. CASE CoreStep(w)
  <2>1. HashSource(w) \/ RecordAttempt(w)
    BY <1>1 DEF CoreStep, ReconcileMark, MarkVerified, ReconcileEnd, Discover,
       RegisterDiscovered, ListPending, RecordFailure, RunMark, RunEnd, VerifyEnd
  <2>2. CASE HashSource(w)
    BY <2>2 DEF HashSource, Current
  <2>3. CASE RecordAttempt(w)
    <3>1. PICK p \in Objects : Current(w, p) /\ state[p] = "PENDING" /\ UNCHANGED <<state, todo>>
      BY <2>3 DEF RecordAttempt
    <3>2. Current(w, o)
      BY <3>1 DEF Current
    <3> QED
      BY <3>1, <3>2, CurrentUnique
  <2> QED
    BY <2>1, <2>2, <2>3
<1>2. CASE CleanupTransient(w) \/ Crash(w) \/ Leaves(w)
  BY <1>2 DEF CleanupTransient, Cleaned, Crash, Abort, Leaves
<1>3. ASSUME NEW p \in Objects, Inspected(w, p, Seen(final[p])) \/ Verify(w, p, Seen(final[p]))
      PROVE  FALSE
  BY <1>3 DEF Inspected, Verify
<1>4. CASE PublishStep(w)
  BY <1>4, PublishControl DEF Current, Labels, CoreLabels
<1>5. ASSUME NEW c \in Commands, Begin(w, c)
      PROVE  FALSE
  BY <1>5 DEF Begin
<1> QED
  BY <1>1, <1>2, <1>3, <1>4, <1>5 DEF Acts

LEMMA NfsInvInit == Init => NfsInv
<1> SUFFICES ASSUME Init PROVE NfsInv
  OBVIOUS
<1>1. CoreInv(Labels)
  BY CoreInvInit, CoreLabelsIn DEF Init
<1>2. final \in [Objects -> File] /\ partial \in [Objects -> File] /\ overtaken \subseteq Workers
  BY DEF Init, File
<1> QED
  BY <1>1, <1>2, AttemptLabels
  DEF Init, CoreInit, NfsInv, VerifiedIsReplicated, MarkJustified, AttemptCommitted

LEMMA NfsInvNext == NfsInv /\ [Next]_vars => NfsInv'
<1> SUFFICES ASSUME NfsInv, [Next]_vars PROVE NfsInv'
  OBVIOUS
<1>1. CoreInv(Labels)' /\ CoreTypeOK(Labels)
  BY NextCore DEF NfsInv, CoreInv
<1>2. /\ final' \in [Objects -> File] /\ partial' \in [Objects -> File]
      /\ \A o \in Objects : final[o] = "exact" => final'[o] = "exact"
  BY NextNames, NfsAssumption DEF NfsInv
<1>3. MarkJustified'
  <2> SUFFICES ASSUME NEW w \in Workers, NEW o \in Objects,
                      pc'[w] \in {"adopt", "created", "present"}, Current(w, o)'
               PROVE  final'[o] = "exact"
    BY DEF MarkJustified
  <2>1. CASE pc[w] \in {"adopt", "created", "present"} /\ Current(w, o)
    BY <1>2, <2>1 DEF NfsInv, MarkJustified
  <2>2. CASE Acts(w)
    BY <1>2, <2>1, <2>2, MarkReached
  <2>3. ASSUME NEW v \in Workers, v # w, Acts(v)
        PROVE  pc[w] \in {"adopt", "created", "present"} /\ Current(w, o)
    BY <1>1, <2>3, OthersStay DEF Current
  <2>4. ASSUME UNCHANGED <<pc, loopVars>>
        PROVE  pc[w] \in {"adopt", "created", "present"} /\ Current(w, o)
    BY <2>4 DEF Current, loopVars
  <2> QED
    BY <2>1, <2>2, <2>3, <2>4, NextActs
<1>4. VerifiedIsReplicated'
  <2> SUFFICES ASSUME NEW o \in Objects, state'[o] = "VERIFIED" PROVE final'[o] = "exact"
    BY <1>2, SeenExact DEF VerifiedIsReplicated
  <2>1. CASE state[o] = "VERIFIED"
    BY <1>2, <2>1, SeenExact DEF NfsInv, VerifiedIsReplicated
  <2>2. CASE state[o] # "VERIFIED"
    <3>1. PICK w \in Workers : CoreStep(w)
      BY <1>1, <2>2, NextRows DEF dbVars
    <3>2. pc[w] \in {"adopt", "created", "present"} /\ Current(w, o)
      BY <1>1, <2>2, <3>1, CoreStepMarks
    <3> QED
      BY <1>2, <3>2 DEF NfsInv, MarkJustified
  <2> QED
    BY <2>1, <2>2
<1>5. AttemptCommitted'
  <2> SUFFICES ASSUME NEW w \in Workers, NEW o \in Objects, pc'[w] \in Attempting, Current(w, o)'
               PROVE  state'[o] # "ABSENT"
    BY DEF AttemptCommitted
  <2>1. CASE pc[w] \in Attempting /\ Current(w, o)
    BY <1>1, <2>1, NextRows DEF NfsInv, AttemptCommitted, RowsMonotone
  <2>2. CASE Acts(w)
    BY <2>1, <2>2, AttemptReached
  <2>3. ASSUME NEW v \in Workers, v # w, Acts(v)
        PROVE  pc[w] \in Attempting /\ Current(w, o)
    BY <1>1, <2>3, OthersStay DEF Current
  <2>4. ASSUME UNCHANGED <<pc, loopVars>>
        PROVE  pc[w] \in Attempting /\ Current(w, o)
    BY <2>4 DEF Current, loopVars
  <2> QED
    BY <2>1, <2>2, <2>3, <2>4, NextActs
<1>6. overtaken' \subseteq Workers
  BY NextOvertaken DEF NfsInv
<1> QED
  BY <1>1, <1>2, <1>3, <1>4, <1>5, <1>6 DEF NfsInv

LEMMA NfsInvariance == Spec => []NfsInv
  BY NfsInvInit, NfsInvNext, PTL DEF Spec


-----------------------------------------------------------------------------
(* What follows for any publishers *)

\* Every variable keeps its type, the file that each name is bound to included.
THEOREM NfsTyped == Spec => []NfsTypeOK
<1>1. NfsInv => NfsTypeOK
  BY DEF NfsInv, CoreInv, NfsTypeOK
<1> QED
  BY <1>1, NfsInvariance, PTL

\* However many runs overlap, wherever they die and whatever happens to the spool,
\* a row is VERIFIED only where the final name is bound to the complete exact bytes.
THEOREM VerifiedNames == Spec => []VerifiedIsReplicated
<1>1. NfsInv => VerifiedIsReplicated
  BY DEF NfsInv
<1> QED
  BY <1>1, NfsInvariance, PTL

\* A run on the mount that says pass has verified everything it discovered.
THEOREM NfsPassIsHonest == Spec => []PassMeansVerified
<1>1. NfsInv => PassMeansVerified
  BY DEF NfsInv, CoreInv
<1> QED
  BY <1>1, NfsInvariance, PTL

\* No object is counted in the summaries of two invocations on the mount.
THEOREM NfsSummariesDisjoint == Spec => []CreditedOnce
<1>1. NfsInv => CreditedOnce
  BY DEF NfsInv, CoreInv
<1> QED
  BY <1>1, NfsInvariance, PTL

\* No step of any worker on the mount changes a column of a VERIFIED row.
THEOREM NfsVerifiedRowsFinal == Spec => VerifiedIsFinal
<1>1. NfsInv /\ [Next]_vars =>
        [\A o \in Objects : state[o] = "VERIFIED" =>
           /\ state'[o] = "VERIFIED"
           /\ attempts'[o] = attempts[o]
           /\ last_error'[o] = last_error[o]]_dbVars
  BY NextRows DEF NfsInv, CoreInv, RowsMonotone
<1> QED
  BY <1>1, NfsInvariance, PTL DEF Spec, VerifiedIsFinal

-----------------------------------------------------------------------------
(* verify, for any publishers *)

\* The list of a verify holds VERIFIED rows only.
VerifyListed == \A w \in Workers : pc[w] = "verify" => todo[w] \subseteq Verified

LEMMA VerifyListedNext == NfsInv /\ VerifyListed /\ [Next]_vars => VerifyListed'
<1> SUFFICES ASSUME NfsInv, VerifyListed, [Next]_vars, NEW w \in Workers, pc'[w] = "verify"
             PROVE  todo'[w] \subseteq Verified'
  BY DEF VerifyListed
<1> USE DEF NfsInv, CoreInv, CoreTypeOK, Goto, Raise, Failing, Return, loopVars
<1>1. Verified \subseteq Verified'
  BY NextRows DEF RowsMonotone, Verified
<1>2. CASE Acts(w)
  <2>1. CASE CoreStep(w)
    BY <1>1, <2>1 DEF VerifyListed, CoreStep, ReconcileMark, MarkVerified, ReconcileEnd, Discover,
       RegisterDiscovered, ListPending, RecordAttempt, HashSource, RecordFailure, RunMark,
       RunEnd, VerifyEnd
  <2>2. CASE CleanupTransient(w) \/ Crash(w) \/ Leaves(w)
    BY <2>2 DEF CleanupTransient, Cleaned, Crash, Abort, Leaves
  <2>3. ASSUME NEW o \in Objects, Inspected(w, o, Seen(final[o])) \/ Verify(w, o, Seen(final[o]))
        PROVE  todo'[w] \subseteq Verified'
    BY <1>1, <2>3 DEF VerifyListed, Inspected, Verify
  <2>4. CASE PublishStep(w)
    BY <2>4, PublishControl DEF Labels, CoreLabels
  <2>5. ASSUME NEW c \in Commands, Begin(w, c)
        PROVE  todo'[w] \subseteq Verified'
    BY <1>1, <2>5 DEF Begin
  <2> QED
    BY <1>2, <2>1, <2>2, <2>3, <2>4, <2>5 DEF Acts
<1>3. ASSUME NEW v \in Workers, v # w, Acts(v)
      PROVE  pc'[w] = pc[w] /\ todo'[w] = todo[w]
  BY <1>3, OthersStay
<1>4. ASSUME UNCHANGED <<pc, loopVars>>
      PROVE  pc'[w] = pc[w] /\ todo'[w] = todo[w]
  BY <1>4
<1> QED
  BY <1>1, <1>2, <1>3, <1>4, NextActs DEF VerifyListed

\* However many publish, a verify on the mount accuses a replica only where its own
\* look was overtaken by the unlink of a second name.
THEOREM VerifyAccusesOnlyOvertaken == Spec => AccusesOnlyOvertaken
<1> DEFINE Quiet == \A w \in Workers :
       (pc[w] = "verify" /\ outcome[w] = "none" /\ outcome'[w] = "destination_digest_mismatch")
         => w \in overtaken
<1>1. Init => VerifyListed
  BY DEF Init, CoreInit, VerifyListed
<1>2. NfsInv /\ VerifyListed /\ [Next]_vars => [Quiet]_vars
  <2> SUFFICES ASSUME NfsInv, VerifyListed, Next, NEW w \in Workers, pc[w] = "verify",
                      outcome[w] = "none", outcome'[w] = "destination_digest_mismatch"
               PROVE  w \in overtaken
    OBVIOUS
  <2> USE DEF NfsInv, CoreInv, CoreTypeOK, Goto, Raise, Failing, Return, loopVars
  <2>1. ASSUME NEW v \in Workers, v # w, Acts(v) PROVE outcome'[w] = outcome[w]
    <3>1. CASE CoreStep(v)
      BY <2>1, <3>1 DEF CoreStep, ReconcileMark, MarkVerified, ReconcileEnd, Discover,
         RegisterDiscovered, ListPending, RecordAttempt, HashSource, RecordFailure, RunMark,
         RunEnd, VerifyEnd
    <3>2. CASE PublishStep(v)
      BY <2>1, <3>2, PublishControl
    <3>3. CASE CleanupTransient(v) \/ Crash(v) \/ Leaves(v)
      BY <2>1, <3>3 DEF CleanupTransient, Cleaned, Crash, Abort, Leaves
    <3>4. ASSUME NEW o \in Objects, Inspected(v, o, Seen(final[o])) \/ Verify(v, o, Seen(final[o]))
          PROVE  outcome'[w] = outcome[w]
      BY <2>1, <3>4 DEF Inspected, Verify
    <3>5. ASSUME NEW c \in Commands, Begin(v, c)
          PROVE  outcome'[w] = outcome[w]
      BY <2>1, <3>5 DEF Begin
    <3> QED
      BY <2>1, <3>1, <3>2, <3>3, <3>4, <3>5 DEF Acts
  <2>2. CASE Acts(w)
    <3>1. ASSUME NEW o \in Objects, Verify(w, o, Seen(final[o]))
          PROVE  outcome'[w] = "none"
      <4>1. Seen(final[o]) = "exact"
        BY <3>1 DEF Verify, Current, VerifyListed, Verified, VerifiedIsReplicated
      <4> QED
        BY <3>1, <4>1 DEF Verify
    <3>2. CASE CoreStep(w)
      BY <2>2, <3>2 DEF CoreStep, ReconcileMark, MarkVerified, ReconcileEnd, Discover,
         RegisterDiscovered, ListPending, RecordAttempt, HashSource, RecordFailure, RunMark,
         RunEnd, VerifyEnd
    <3>3. CASE PublishStep(w)
      BY <3>3, PublishControl DEF Labels, CoreLabels
    <3>4. CASE CleanupTransient(w) \/ Crash(w)
      BY <3>4 DEF CleanupTransient, Cleaned, Crash, Abort
    <3>5. CASE Leaves(w)
      BY <3>5 DEF Leaves
    <3>6. ~ \E o \in Objects : Inspected(w, o, Seen(final[o]))
      BY DEF Inspected
    <3>7. ~ \E c \in Commands : Begin(w, c)
      BY DEF Begin
    <3> QED
      BY <2>2, <3>1, <3>2, <3>3, <3>4, <3>5, <3>6, <3>7 DEF Acts
  <2>3. ASSUME UNCHANGED outcome PROVE FALSE
    BY <2>3
  <2> QED
    BY <2>1, <2>2, <2>3, NextActs
<1> QED
  BY <1>1, <1>2, VerifyListedNext, NfsInvInit, NfsInvNext, PTL DEF Spec, AccusesOnlyOvertaken

-----------------------------------------------------------------------------
(* One publisher *)

\* Who publishes was started with the run command.
LEMMA RunsPublishInit == Init => RunsPublish
  BY DEF Init, CoreInit, RunsPublish, Reconciling

LEMMA RunsPublishNext == NfsInv /\ RunsPublish /\ [Next]_vars => RunsPublish'
<1> SUFFICES ASSUME NfsInv, RunsPublish, [Next]_vars, NEW w \in Workers
             PROVE  /\ pc'[w] # "idle" /\ cmd'[w] = "run" => w \in Publishers
                    /\ pc'[w] \notin Reconciling => cmd'[w] = "run"
  BY DEF RunsPublish
<1> USE DEF NfsInv, CoreInv, CoreTypeOK, Goto, Raise, Failing, Return, loopVars, Reconciling
<1>1. CASE CoreStep(w)
  BY <1>1 DEF RunsPublish, CoreStep, ReconcileMark, MarkVerified, ReconcileEnd, Discover,
     RegisterDiscovered, ListPending, RecordAttempt, HashSource, RecordFailure, RunMark,
     RunEnd, VerifyEnd
<1>2. CASE CleanupTransient(w) \/ Crash(w) \/ Leaves(w)
  BY <1>2 DEF RunsPublish, CleanupTransient, Cleaned, Crash, Abort, Leaves
<1>3. ASSUME NEW o \in Objects, Inspected(w, o, Seen(final[o])) \/ Verify(w, o, Seen(final[o]))
      PROVE  /\ pc'[w] # "idle" /\ cmd'[w] = "run" => w \in Publishers
             /\ pc'[w] \notin Reconciling => cmd'[w] = "run"
  BY <1>3 DEF RunsPublish, Inspected, Verify
<1>4. CASE PublishStep(w)
  <2>1. pc[w] \notin Reconciling /\ UNCHANGED cmd
    BY <1>4, PublishControl DEF Labels, CoreLabels
  <2> QED
    BY <2>1 DEF RunsPublish
<1>5. ASSUME NEW c \in Commands, Begin(w, c)
      PROVE  /\ pc'[w] # "idle" /\ cmd'[w] = "run" => w \in Publishers
             /\ pc'[w] \notin Reconciling => cmd'[w] = "run"
  BY <1>5 DEF Begin
<1>6. ASSUME NEW v \in Workers, v # w, Acts(v)
      PROVE  pc'[w] = pc[w] /\ cmd'[w] = cmd[w]
  BY <1>6, OthersStay
<1>7. ASSUME UNCHANGED <<pc, loopVars>>
      PROVE  pc'[w] = pc[w] /\ cmd'[w] = cmd[w]
  BY <1>7
<1>8. CASE Acts(w)
  BY <1>1, <1>2, <1>3, <1>4, <1>5, <1>8 DEF Acts
<1> QED
  BY <1>6, <1>7, <1>8, NextActs DEF RunsPublish

\* No two are inside the publishing loop at once.
LEMMA Alone ==
  ASSUME OnePublisher, NfsInv, RunsPublish, NEW v \in Workers, NEW w \in Workers,
         pc[v] \notin Reconciling, pc[w] \notin Reconciling
  PROVE  v = w
  BY DEF OnePublisher, RunsPublish, Reconciling

\* A step that leaves the names alone and neither comes to nor leaves a staging label.
LEMMA QuietStep ==
  ASSUME NfsInv, PublisherInv, NEW v \in Workers, UNCHANGED nameVars,
         pc[v] # "write", pc'[v] \notin Staging,
         \A w \in Workers : w # v => pc'[w] = pc[w] /\ todo'[w] = todo[w]
  PROVE  OpenFiles' /\ Linking' /\ PublishedPartials'
<1>1. \A w \in Workers \ {v}, o \in Objects : Current(w, o)' <=> Current(w, o)
  BY DEF Current
<1>2. OpenFiles'
  BY <1>1 DEF PublisherInv, OpenFiles, nameVars
<1>3. Linking'
  BY <1>1 DEF PublisherInv, Linking, nameVars, Staging
<1>4. PublishedPartials'
  BY DEF PublisherInv, PublishedPartials, nameVars
<1> QED
  BY <1>2, <1>3, <1>4

\* Reconcile takes a partial away from under whoever is writing or linking it.
LEMMA CleanupStep ==
  ASSUME NfsInv, PublisherInv, NEW v \in Workers, CleanupTransient(v)
  PROVE  UNCHANGED final /\ OpenFiles' /\ Linking' /\ PublishedPartials'
<1>1. PICK p \in Objects : /\ Cleaned(v, p)
                           /\ partial' = [partial EXCEPT ![p] = "absent"]
                           /\ UNCHANGED final
  BY DEF CleanupTransient, Unlink
<1>2. /\ \A o \in Objects : partial'[o] \in {"absent", partial[o]}
      /\ \A o \in Objects : partial'[o] \in Workers => partial'[o] = partial[o]
  BY <1>1, NfsAssumption DEF NfsInv
<1>3. /\ \A w \in Workers : pc'[w] = pc[w] \/ (pc[w] = "clean" /\ pc'[w] = "inspect")
      /\ \A w \in Workers, o \in Objects : Current(w, o)' <=> Current(w, o)
  BY <1>1 DEF Cleaned, Goto, loopVars, Current, NfsInv, CoreInv, CoreTypeOK
<1>4. OpenFiles'
  BY <1>1, <1>2, <1>3 DEF PublisherInv, OpenFiles
<1>5. Linking'
  <2> SUFFICES ASSUME NEW w \in Workers, NEW o \in Objects, Current(w, o)', pc'[w] \in Staging
               PROVE  /\ final'[o] = "absent"
                      /\ pc'[w] = "write" => partial'[o] \in {"absent", w}
                      /\ pc'[w] = "link" => partial'[o] \in {"absent", "exact"}
    BY DEF Linking, Staging
  <2>1. pc'[w] = pc[w] /\ Current(w, o)
    BY <1>3 DEF Staging
  <2> QED
    BY <1>1, <1>2, <2>1 DEF PublisherInv, Linking, Staging
<1>6. PublishedPartials'
  BY <1>1, <1>2 DEF PublisherInv, PublishedPartials
<1> QED
  BY <1>1, <1>4, <1>5, <1>6

\* A writer that dies or gives up leaves its unfinished file where there is no
\* final name.
LEMMA BreakOff ==
  ASSUME OnePublisher, NfsInv, PublisherInv, NEW v \in Workers,
         Crash(v) \/ TargetFails(v)
  PROVE  UNCHANGED final /\ OpenFiles' /\ Linking' /\ PublishedPartials'
<1>1. /\ final' = Closed(final, v, "part")
      /\ partial' = Closed(partial, v, "part")
      /\ pc'[v] \in {"idle", "fail"}
      /\ \A w \in Workers : w # v => pc'[w] = pc[w] /\ todo'[w] = todo[w]
  BY DEF Crash, Abort, TargetFails, Failing, Raise, Goto, loopVars, NfsInv, CoreInv, CoreTypeOK
<1>2. "part" \in File /\ "part" \notin Workers
  BY NfsAssumption DEF File
<1>3. final' = final
  BY <1>1 DEF PublisherInv, OpenFiles, NfsInv, Closed
<1>4. /\ \A o \in Objects : partial[o] # v => partial'[o] = partial[o]
      /\ \A o \in Objects : partial[o] = v => partial'[o] = "part"
  BY <1>1, <1>2, ClosedType DEF NfsInv
<1>5. \A o \in Objects : partial[o] = v => pc[v] = "write" /\ Current(v, o)
  BY DEF PublisherInv, OpenFiles
<1>6. \A w \in Workers \ {v}, o \in Objects : Current(w, o)' <=> Current(w, o)
  BY <1>1 DEF Current
<1>7. OpenFiles'
  BY <1>1, <1>2, <1>3, <1>4, <1>6 DEF PublisherInv, OpenFiles
<1>8. Linking'
  <2> SUFFICES ASSUME NEW w \in Workers, NEW o \in Objects, Current(w, o)', pc'[w] \in Staging
               PROVE  /\ final'[o] = "absent"
                      /\ pc'[w] = "write" => partial'[o] \in {"absent", w}
                      /\ pc'[w] = "link" => partial'[o] \in {"absent", "exact"}
    BY DEF Linking, Staging
  <2>1. w # v /\ pc'[w] = pc[w] /\ Current(w, o)
    BY <1>1, <1>6 DEF Staging
  <2>2. partial[o] # v
    BY <1>5, <2>1, Alone DEF PublisherInv, Reconciling, Staging
  <2> QED
    BY <1>3, <1>4, <2>1, <2>2 DEF PublisherInv, Linking, Staging
<1>9. PublishedPartials'
  BY <1>3, <1>4, <1>5 DEF PublisherInv, PublishedPartials, Linking, Staging
<1> QED
  BY <1>3, <1>7, <1>8, <1>9

\* The publisher moves on: what its own labels ask for is all there is to ask.
LEMMA PublisherMoves ==
  ASSUME OnePublisher, NfsInv, PublisherInv, NEW v \in Workers, PublishStep(v),
         \A o \in Objects : final'[o] \notin Workers,
         \A o \in Objects : partial'[o] = v => pc'[v] = "write" /\ Current(v, o),
         \A o \in Objects : partial'[o] \in Workers \ {v} => partial[o] = partial'[o],
         \A o \in Objects : Current(v, o) =>
           /\ pc'[v] \in Staging => final'[o] = "absent"
           /\ pc'[v] = "write" => partial'[o] \in {"absent", v}
           /\ pc'[v] = "link" => partial'[o] \in {"absent", "exact"}
  PROVE  OpenFiles' /\ Linking'
<1>1. /\ pc[v] \notin Reconciling
      /\ UNCHANGED loopVars
      /\ \A w \in Workers \ {v} : pc'[w] = pc[w]
  BY PublishControl DEF Labels, CoreLabels, Reconciling, Goto, Failing, NfsInv, CoreInv, CoreTypeOK
<1>2. \A w \in Workers \ {v} : pc[w] \in Reconciling
  BY <1>1, Alone DEF PublisherInv
<1>3. \A w \in Workers, o \in Objects : Current(w, o)' <=> Current(w, o)
  BY <1>1 DEF Current, loopVars
<1>4. OpenFiles'
  BY <1>1, <1>2, <1>3 DEF PublisherInv, OpenFiles, Reconciling
<1>5. Linking'
  BY <1>1, <1>2, <1>3 DEF Linking, Reconciling, Staging
<1> QED
  BY <1>4, <1>5

\* The one step that gives a final name to a file.
Links(v, o) ==
  /\ pc[v] = "link"
  /\ Current(v, o)
  /\ final[o] = "absent"
  /\ final' = [final EXCEPT ![o] = "exact"]

LEMMA PublisherStep ==
  ASSUME OnePublisher, NfsInv, PublisherInv, NEW v \in Workers, PublishStep(v)
  PROVE  /\ OpenFiles' /\ Linking' /\ PublishedPartials'
         /\ UNCHANGED final \/ \E o \in Objects : Links(v, o)
<1> USE DEF NfsInv, CoreInv, CoreTypeOK, PublisherInv, Proceed, Goto, Failing
<1>1. /\ \A o \in Objects : final[o] \notin Workers
      /\ \A o \in Objects : partial[o] = v => pc[v] = "write" /\ Current(v, o)
  BY DEF OpenFiles
<1>2. \A o, p \in Objects : Current(v, o) /\ Current(v, p) => o = p
  BY CurrentUnique
<1>3. CASE FinalState(v)
  <2>1. PICK p \in Objects : /\ Current(v, p)
                             /\ pc'[v] \in Staging => final[p] = "absent"
    BY <1>3, SeenAbsent DEF FinalState, Staging
  <2>2. UNCHANGED nameVars /\ pc[v] # "write" /\ pc'[v] \notin {"write", "link"}
    BY <1>3 DEF FinalState, nfsVars
  <2>3. OpenFiles' /\ Linking'
    BY <1>1, <1>2, <2>1, <2>2, PublisherMoves DEF nameVars
  <2> QED
    BY <2>2, <2>3 DEF nameVars, PublishedPartials
<1>4. CASE CheckPartial(v) \/ RecheckFinal(v) \/ ReadBack(v) \/ LookFails(v)
  <2>1. UNCHANGED nameVars /\ pc[v] # "write" /\ pc'[v] \notin {"write", "link"}
    BY <1>4 DEF CheckPartial, RecheckFinal, ReadBack, LookFails, nfsVars
  <2>2. pc'[v] \in Staging => pc[v] \in Staging
    BY <1>4 DEF CheckPartial, RecheckFinal, ReadBack, LookFails, nfsVars, Staging
  <2>3. OpenFiles' /\ Linking'
    BY <1>1, <2>1, <2>2, PublisherMoves DEF nameVars, Linking
  <2> QED
    BY <2>1, <2>3 DEF nameVars, PublishedPartials
<1>5. CASE CreatePartial(v)
  <2>1. PICK p \in Objects : /\ Current(v, p)
                             /\ final[p] = "absent"
                             /\ \/ partial' = [partial EXCEPT ![p] = v] /\ pc'[v] = "write"
                                \/ UNCHANGED partial /\ pc'[v] = "fail"
    BY <1>5 DEF CreatePartial, Linking, Staging
  <2>2. UNCHANGED final /\ pc[v] = "create"
    BY <1>5 DEF CreatePartial
  <2>3. OpenFiles' /\ Linking'
    BY <1>1, <1>2, <2>1, <2>2, PublisherMoves DEF Staging
  <2>4. PublishedPartials'
    BY <2>1, <2>2 DEF PublishedPartials
  <2> QED
    BY <2>2, <2>3, <2>4
<1>6. CASE CopySource(v)
  <2>1. PICK p \in Objects, f \in {"exact", "wrong"} :
          /\ Current(v, p)
          /\ final' = Closed(final, v, f)
          /\ partial' = Closed(partial, v, f)
          /\ pc'[v] = IF f = "exact" THEN "link" ELSE "discard"
    BY <1>6 DEF CopySource
  <2>2. pc[v] = "write" /\ final[p] = "absent" /\ partial[p] \in {"absent", v}
    BY <1>6, <2>1 DEF CopySource, Linking, Staging
  <2>3. f \in File /\ f \notin Workers
    BY NfsAssumption DEF File
  <2>4. final' = final
    BY <1>1, <2>1 DEF Closed
  <2>5. /\ \A o \in Objects : partial[o] # v => partial'[o] = partial[o]
        /\ \A o \in Objects : partial[o] = v => partial'[o] = f
    BY <2>1 DEF Closed
  <2>6. OpenFiles' /\ Linking'
    BY <1>1, <1>2, <2>1, <2>2, <2>3, <2>4, <2>5, PublisherMoves
  <2>7. PublishedPartials'
    BY <1>1, <1>2, <2>1, <2>2, <2>4, <2>5 DEF PublishedPartials
  <2> QED
    BY <2>4, <2>6, <2>7
<1>7. CASE DiscardPartial(v) \/ YieldPartial(v) \/ UnlinkPartial(v)
  <2>1. /\ UNCHANGED final
        /\ pc[v] # "write"
        /\ pc'[v] \in {"fail", "recheck", "readback"}
        /\ \A o \in Objects : partial'[o] \in {"absent", partial[o]}
    <3>1. ASSUME NEW p \in Objects, Unlink(v, p)
          PROVE  \A o \in Objects : partial'[o] \in {"absent", partial[o]}
      BY <3>1 DEF Unlink
    <3>2. CASE DiscardPartial(v)  BY <3>1, <3>2 DEF DiscardPartial
    <3>3. CASE YieldPartial(v)    BY <3>1, <3>3 DEF YieldPartial
    <3>4. CASE UnlinkPartial(v)   BY <3>1, <3>4 DEF UnlinkPartial
    <3> QED
      BY <1>7, <3>2, <3>3, <3>4
  <2>2. "absent" \notin Workers
    BY NfsAssumption
  <2>3. OpenFiles' /\ Linking'
    BY <1>1, <2>1, <2>2, PublisherMoves DEF Staging
  <2> QED
    BY <2>1, <2>3 DEF PublishedPartials
<1>8. CASE LinkFinal(v)
  <2>1. /\ UNCHANGED partial
        /\ pc[v] = "link"
        /\ pc'[v] \in {"unlink", "yield", "fail"}
    BY <1>8 DEF LinkFinal
  <2>2. UNCHANGED final \/ \E o \in Objects : Links(v, o) /\ partial[o] = "exact"
    BY <1>8 DEF LinkFinal, Linking, Links
  <2>3. \A o \in Objects : final'[o] \notin Workers
    BY <1>1, <2>2, NfsAssumption DEF Links
  <2>4. OpenFiles' /\ Linking'
    BY <1>1, <2>1, <2>3, PublisherMoves DEF Staging
  <2>5. PublishedPartials'
    BY <2>1, <2>2 DEF PublishedPartials, Links
  <2> QED
    BY <2>2, <2>4, <2>5
<1>9. CASE TargetFails(v)
  BY <1>9, BreakOff
<1> QED
  BY <1>3, <1>4, <1>5, <1>6, <1>7, <1>8, <1>9 DEF PublishStep, Publish

\* Outside the calls of publish_object there is no staging label to come to.
LEMMA CoreStepQuiet ==
  ASSUME CoreTypeOK(Labels), NEW v \in Workers, CoreStep(v)
  PROVE  pc[v] # "write" /\ pc'[v] \notin Staging
  BY DEF CoreStep, ReconcileMark, MarkVerified, ReconcileEnd, Discover, RegisterDiscovered,
     ListPending, RecordAttempt, HashSource, RecordFailure, RunMark, RunEnd, VerifyEnd,
     CoreTypeOK, Goto, Raise, Failing, Return, Staging

LEMMA ActsPublisher ==
  ASSUME OnePublisher, NfsInv, PublisherInv, NEW v \in Workers, Acts(v)
  PROVE  /\ OpenFiles' /\ Linking' /\ PublishedPartials'
         /\ UNCHANGED final \/ \E o \in Objects : Links(v, o)
<1>1. \A w \in Workers : w # v => pc'[w] = pc[w] /\ todo'[w] = todo[w]
  BY OthersStay DEF NfsInv, CoreInv
<1>2. ASSUME UNCHANGED nameVars, pc[v] # "write", pc'[v] \notin Staging
      PROVE  OpenFiles' /\ Linking' /\ PublishedPartials' /\ UNCHANGED final
  BY <1>1, <1>2, QuietStep DEF nameVars
<1>3. CASE CoreStep(v) /\ UNCHANGED nameVars
  BY <1>2, <1>3, CoreStepQuiet DEF NfsInv, CoreInv
<1>4. ASSUME NEW o \in Objects, Inspected(v, o, Seen(final[o])) \/ Verify(v, o, Seen(final[o])),
             UNCHANGED nameVars
      PROVE  OpenFiles' /\ Linking' /\ PublishedPartials' /\ UNCHANGED final
  <2>1. pc[v] # "write" /\ pc'[v] \notin Staging
    BY <1>4 DEF Inspected, Verify, Raise, Goto, Staging, NfsInv, CoreInv, CoreTypeOK
  <2> QED
    BY <1>2, <1>4, <2>1
<1>5. ASSUME NEW c \in Commands, Begin(v, c), UNCHANGED nameVars
      PROVE  OpenFiles' /\ Linking' /\ PublishedPartials' /\ UNCHANGED final
  <2>1. pc[v] # "write" /\ pc'[v] \notin Staging
    BY <1>5 DEF Begin, Goto, Staging, NfsInv, CoreInv, CoreTypeOK
  <2> QED
    BY <1>2, <1>5, <2>1
<1>6. CASE Leaves(v)
  <2>1. UNCHANGED nameVars /\ pc[v] # "write" /\ pc'[v] \notin Staging
    BY <1>6 DEF Leaves, Raise, Goto, Staging, NfsInv, CoreInv, CoreTypeOK
  <2> QED
    BY <1>2, <2>1
<1> QED
  BY <1>3, <1>4, <1>5, <1>6, CleanupStep, PublisherStep, BreakOff DEF Acts

LEMMA PublisherInvInit == Init => PublisherInv
<1>1. Init => OpenFiles
  BY NfsAssumption DEF Init, OpenFiles
<1>2. Init => Linking /\ PublishedPartials
  BY DEF Init, CoreInit, Linking, Staging, PublishedPartials
<1> QED
  BY <1>1, <1>2, RunsPublishInit DEF PublisherInv

LEMMA PublisherNext ==
  ASSUME OnePublisher, NfsInv, PublisherInv, [Next]_vars
  PROVE  /\ PublisherInv'
         /\ UNCHANGED final \/ \E v \in Workers, o \in Objects : Links(v, o)
<1>1. CASE UNCHANGED <<dbVars, nameVars, pc, loopVars, outcome>>
  <2>1. /\ UNCHANGED <<final, partial, pc>>
        /\ \A w \in Workers, o \in Objects : Current(w, o)' <=> Current(w, o)
    BY <1>1 DEF nameVars, loopVars, Current
  <2> QED
    BY <2>1, RunsPublishNext DEF PublisherInv, OpenFiles, Linking, PublishedPartials
<1>2. ASSUME NEW v \in Workers, Acts(v)
      PROVE  /\ PublisherInv'
             /\ UNCHANGED final \/ \E o \in Objects : Links(v, o)
  BY <1>2, ActsPublisher, RunsPublishNext DEF PublisherInv
<1> QED
  BY <1>1, <1>2, NextActs DEF nameVars

\* What holds where at most one invocation publishes, beside any number that
\* reconcile and verify: a file is open under the partial name of its writer only,
\* there is no final name before the link, and what is linked is complete.
THEOREM PublisherInvariance == OnePublisher => (Spec => []PublisherInv)
<1> SUFFICES ASSUME OnePublisher PROVE Spec => []PublisherInv
  OBVIOUS
<1>1. NfsInv /\ PublisherInv /\ [Next]_vars => PublisherInv'
  BY PublisherNext
<1> QED
  BY <1>1, PublisherInvInit, NfsInvariance, PTL DEF Spec

\* With one publisher, a partial that outlives the verification of its object is a
\* second name of the exact bytes, never an unfinished file.
THEOREM LeftoversAreExact == OnePublisher => (Spec => []LeftoversExact)
<1> SUFFICES ASSUME OnePublisher PROVE Spec => []LeftoversExact
  OBVIOUS
<1>1. NfsInv /\ PublisherInv => LeftoversExact
  BY SeenExact DEF NfsInv, VerifiedIsReplicated, PublisherInv, PublishedPartials, LeftoversExact
<1> QED
  BY <1>1, NfsInvariance, PublisherInvariance, PTL

\* With one publisher, a final name appears with all of its bytes or not at all.
THEOREM CreationsAreExact == OnePublisher => (Spec => CreatesOnlyExact)
<1> SUFFICES ASSUME OnePublisher PROVE Spec => CreatesOnlyExact
  OBVIOUS
<1>1. NfsInv /\ PublisherInv /\ [Next]_vars =>
        [\A o \in Objects : (final[o] = "absent" /\ final'[o] # "absent") =>
           final'[o] = "exact"]_final
  BY PublisherNext DEF Links, NfsInv
<1> QED
  BY <1>1, NfsInvariance, PublisherInvariance, PTL DEF Spec, CreatesOnlyExact

\* With one publisher the creation is immutable, as the README has it; two publishers
\* of the same object can break this (run nfs_incomplete).
THEOREM ReplicasImmutable == OnePublisher => (Spec => ImmutableReplica)
<1> SUFFICES ASSUME OnePublisher PROVE Spec => ImmutableReplica
  OBVIOUS
<1>1. NfsInv /\ PublisherInv /\ [Next]_vars =>
        [\A o \in Objects : final[o] # "absent" => Seen(final'[o]) = Seen(final[o])]_final
  BY PublisherNext DEF Links, NfsInv
<1> QED
  BY <1>1, NfsInvariance, PublisherInvariance, PTL DEF Spec, ImmutableReplica

-----------------------------------------------------------------------------
(* With one publisher the worker implements the abstract authority *)

LEMMA StepSimulation ==
  ASSUME OnePublisher, NfsInv, PublisherInv, [Next]_vars
  PROVE  [Authority!Next]_(Authority!vars)
<1> USE DEF NfsInv, CoreInv, Authority!Next, Authority!vars
<1>1. CASE UNCHANGED <<dbVars, final>>
  BY <1>1 DEF dbVars
<1>2. ASSUME NEW v \in Workers, NEW o \in Objects, Links(v, o), UNCHANGED dbVars
      PROVE  [Authority!Next]_(Authority!vars)
  <2>1. state[o] # "ABSENT"
    BY <1>2, AttemptLabels DEF Links, AttemptCommitted
  <2>2. Authority!Create(o, "exact")
    BY <1>2, <2>1 DEF Authority!Create, Links, Seen, dbVars
  <2> QED
    BY <2>2 DEF Authority!Bytes
<1>3. ASSUME NEW w \in Workers, CoreStep(w), UNCHANGED nameVars
      PROVE  [Authority!Next]_(Authority!vars)
  <2>1. UNCHANGED final
    BY <1>3 DEF nameVars
  <2>2. CASE UNCHANGED state
    BY <2>1, <2>2
  <2>3. CASE \E S \in SUBSET Objects :
               /\ \A o \in S : state[o] = "ABSENT"
               /\ state' = [o \in Objects |-> IF o \in S THEN "PENDING" ELSE state[o]]
    BY <2>1, <2>3 DEF Authority!Register
  <2>4. CASE \E o \in Objects : state'[o] = "VERIFIED" /\ state[o] # "VERIFIED"
    <3>1. PICK o \in Objects : state'[o] = "VERIFIED" /\ state[o] # "VERIFIED"
      BY <2>4
    <3>2. Seen(final[o]) = "exact"
      BY <1>3, <3>1, CoreStepMarks DEF MarkJustified, Seen
    <3>3. Authority!MarkVerified(o)
      BY <1>3, <2>1, <3>1, <3>2, CoreStepMarks DEF Authority!MarkVerified
    <3> QED
      BY <3>3
  <2> QED
    BY <1>3, <2>2, <2>3, <2>4, CoreStepStates
<1> QED
  BY <1>1, <1>2, <1>3, NextRows, PublisherNext

\* With one publisher, every behaviour of the worker on the mount is one that the
\* authority promises, as seen by a reader of the final names.
THEOREM NfsRefinement == OnePublisher => (Spec => ImplementsAuthority)
<1> SUFFICES ASSUME OnePublisher PROVE Spec => ImplementsAuthority
  OBVIOUS
<1>1. Init => Authority!Init
  BY DEF Init, CoreInit, Authority!Init, Authority!Bytes, Seen
<1>2. NfsInv /\ PublisherInv /\ [Next]_vars => [Authority!Next]_(Authority!vars)
  BY StepSimulation
<1> QED
  BY <1>1, <1>2, NfsInvariance, PublisherInvariance, PTL DEF Spec, ImplementsAuthority, Authority!Spec
=============================================================================
