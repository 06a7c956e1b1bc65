------------------------ MODULE GcsReplicationProofs ------------------------
(***************************************************************************)
(* Proofs about the worker on the object-store adapter, for any sets of    *)
(* workers, objects and evidence: its types, its invariants, what a step   *)
(* may do to a VERIFIED row, and that it implements ReplicaAuthority; then *)
(* about run_exact beside that worker, for any set of executions.          *)
(***************************************************************************)
EXTENDS ExactAction, ReplicationCoreProofs

-----------------------------------------------------------------------------
(* The inductive invariant *)

\* A worker about to mark an object has seen its exact bytes in the bucket.
MarkJustified ==
  \A w \in Workers, o \in Objects :
    (pc[w] \in {"adopt", "created", "present"} /\ Current(w, o)) => replica[o] = "exact"

\* A worker past record_attempt works on a row that has the attempt.
AttemptCommitted ==
  \A w \in Workers, o \in Objects :
    (pc[w] \in {"hash", "publish"} /\ Current(w, o)) => state[o] # "ABSENT" /\ attempts[o] > 0

GcsInv ==
  /\ CoreInv(Labels)
  /\ replica \in [Objects -> {"absent", "exact", "wrong"}]
  /\ VerifiedIsReplicated
  /\ MarkJustified
  /\ AttemptCommitted

\* What holds of the bucket in every step: bytes appear where nothing was, in
\* the hands of a worker that is publishing, and never change afterwards.
BucketStep(w) ==
  \/ UNCHANGED replica
  \/ /\ pc[w] = "publish"
     /\ \E o \in Objects, b \in {"exact", "wrong"} :
          /\ Current(w, o)
          /\ replica[o] = "absent"
          /\ replica' = [replica EXCEPT ![o] = b]

\* A step of a worker inside publish_immutable.
PublishStep(w) ==
  \/ UploadCreates(w) \/ UploadAnswerLost(w) \/ UploadRefused(w)
  \/ InspectExisting(w) \/ ReadBack(w) \/ TargetFails(w)

LEMMA CoreLabelsIn == CoreLabels \subseteq Labels
  BY DEF Labels

LEMMA PublishCore ==
  ASSUME CoreInv(Labels), NEW w \in Workers, PublishStep(w)
  PROVE  CoreInv(Labels)'
<1>1. pc[w] \in {"publish", "readback", "precondition"} /\ UNCHANGED <<dbVars, envVars>>
  BY DEF PublishStep, UploadCreates, UploadAnswerLost, UploadRefused, InspectExisting,
     ReadBack, TargetFails
<1>2. \/ \E l \in {"readback", "precondition", "present", "created"} :
              Goto(w, l) /\ UNCHANGED <<loopVars, outcome>>
      \/ \E f \in Findings : Failing(w, f)
  BY DEF PublishStep, UploadCreates, UploadAnswerLost, UploadRefused, InspectExisting,
     ReadBack, TargetFails, Findings
<1>3. CASE \E l \in {"readback", "precondition", "present", "created"} :
              Goto(w, l) /\ UNCHANGED <<loopVars, outcome>>
  BY <1>1, <1>3, CoreLabelsIn, MoveInv DEF Labels, CoreLabels, Outside
<1>4. CASE \E f \in Findings : Failing(w, f)
  BY <1>1, <1>4, CoreLabelsIn, FailingInv DEF Outside
<1> QED
  BY <1>2, <1>3, <1>4

LEMMA PublishBucket ==
  ASSUME NEW w \in Workers, PublishStep(w)
  PROVE  BucketStep(w)
  BY DEF PublishStep, BucketStep, UploadCreates, UploadAnswerLost, UploadRefused,
     InspectExisting, ReadBack, TargetFails, Uploaded

\* The ten kinds of step, each with what it leaves alone.
LEMMA NextCases ==
  ASSUME [Next]_vars
  PROVE  \/ \E w \in Workers : CoreStep(w) /\ UNCHANGED replica
         \/ \E w \in Workers, o \in Objects : Cleaned(w, o) /\ UNCHANGED replica
         \/ \E w \in Workers, o \in Objects : Inspected(w, o, replica[o]) /\ UNCHANGED replica
         \/ \E w \in Workers, o \in Objects : Verify(w, o, replica[o]) /\ UNCHANGED replica
         \/ \E w \in Workers : PublishStep(w)
         \/ \E w \in Workers : Abort(w) /\ UNCHANGED replica
         \/ \E w \in Workers, c \in Commands : Begin(w, c) /\ UNCHANGED replica
         \/ EnvStep /\ UNCHANGED replica
         \/ UNCHANGED vars
  BY DEF Next, WorkerStep, Fault, PublishStep, CleanupTransient, Inspect, VerifyReplica

LEMMA NextCore == CoreInv(Labels) /\ [Next]_vars => CoreInv(Labels)'
<1> SUFFICES ASSUME CoreInv(Labels), [Next]_vars PROVE CoreInv(Labels)'
  OBVIOUS
<1> USE CoreLabelsIn
<1>1. ASSUME NEW w \in Workers, CoreStep(w) PROVE CoreInv(Labels)'
  BY <1>1, CoreStepInv
<1>2. ASSUME NEW w \in Workers, NEW o \in Objects, Cleaned(w, o) PROVE CoreInv(Labels)'
  BY <1>2, CleanedInv
<1>3. ASSUME NEW w \in Workers, NEW o \in Objects, Inspected(w, o, replica[o])
      PROVE  CoreInv(Labels)'
  BY <1>3, InspectedInv
<1>4. ASSUME NEW w \in Workers, NEW o \in Objects, Verify(w, o, replica[o])
      PROVE  CoreInv(Labels)'
  BY <1>4, VerifyInv
<1>5. ASSUME NEW w \in Workers, Abort(w) PROVE CoreInv(Labels)'
  BY <1>5, AbortInv
<1>6. ASSUME NEW w \in Workers, NEW c \in Commands, Begin(w, c) PROVE CoreInv(Labels)'
  BY <1>6, BeginInv
<1>7. UNCHANGED vars => CoreInv(Labels)'
  BY StutterInv DEF vars
<1> QED
  BY <1>1, <1>2, <1>3, <1>4, <1>5, <1>6, <1>7, PublishCore, EnvInv, NextCases

\* Rows change in the steps of the core only, and one worker acts on the bucket.
LEMMA NextRows ==
  ASSUME CoreTypeOK(Labels), [Next]_vars
  PROVE  /\ RowsMonotone
         /\ UNCHANGED replica \/ \E w \in Workers : BucketStep(w) /\ UNCHANGED dbVars
         /\ UNCHANGED dbVars \/ \E w \in Workers : CoreStep(w)
<1>1. \/ \E w \in Workers : CoreStep(w) /\ UNCHANGED replica
      \/ UNCHANGED <<dbVars, replica>>
      \/ \E w \in Workers : PublishStep(w) /\ UNCHANGED dbVars
  BY NextCases DEF Cleaned, Inspected, Verify, Abort, Begin, EnvStep, Finalize, SourceChanges,
     PublishStep, UploadCreates, UploadAnswerLost, UploadRefused, InspectExisting, ReadBack,
     TargetFails, vars, coreVars
<1> QED
  BY <1>1, RowsStay, CoreStepRows, PublishBucket

-----------------------------------------------------------------------------
(* The invariant is inductive *)

LEMMA BucketStable ==
  ASSUME GcsInv, [Next]_vars, NEW o \in Objects, replica[o] # "absent"
  PROVE  replica'[o] = replica[o]
  BY NextRows DEF GcsInv, CoreInv, BucketStep

LEMMA GcsInvInit == Init => GcsInv
<1> SUFFICES ASSUME Init PROVE GcsInv
  OBVIOUS
<1>1. CoreInv(Labels)
  BY CoreInvInit, CoreLabelsIn DEF Init
<1> QED
  BY <1>1 DEF Init, CoreInit, GcsInv, VerifiedIsReplicated, MarkJustified, AttemptCommitted

\* A worker stays at the object it has in hand, or reaches the mark in a step
\* that has just seen the exact bytes.
LEMMA MarkReached ==
  ASSUME GcsInv, [Next]_vars, NEW w \in Workers, NEW o \in Objects,
         pc'[w] \in {"adopt", "created", "present"}, Current(w, o)'
  PROVE  \/ pc[w] \in {"adopt", "created", "present"} /\ Current(w, o)
         \/ replica[o] = "exact" /\ UNCHANGED replica
<1> USE DEF GcsInv, CoreInv, CoreTypeOK, Goto, Raise, Failing, Return, dbVars, envVars, loopVars
<1>1. ASSUME NEW v \in Workers, v # w, CoreStep(v)
      PROVE  pc'[w] = pc[w] /\ todo'[w] = todo[w]
  BY <1>1 DEF CoreStep, ReconcileMark, MarkVerified, ReconcileEnd, Discover,
     RegisterDiscovered, ListPending, RecordAttempt, HashSource, RecordFailure, RunMark,
     RunEnd, VerifyEnd
<1>2. ASSUME CoreStep(w)
      PROVE  pc'[w] \notin {"adopt", "created", "present"}
  BY <1>2 DEF CoreStep, ReconcileMark, MarkVerified, ReconcileEnd, Discover,
     RegisterDiscovered, ListPending, RecordAttempt, HashSource, RecordFailure, RunMark,
     RunEnd, VerifyEnd
<1>3. ASSUME NEW v \in Workers, NEW p \in Objects,
             \/ Cleaned(v, p)
             \/ Verify(v, p, replica[p])
             \/ Abort(v)
             \/ \E c \in Commands : Begin(v, c)
      PROVE  pc[w] \in {"adopt", "created", "present"} /\ Current(w, o)
  BY <1>3 DEF Cleaned, Verify, Abort, Begin, Current
<1>4. ASSUME NEW v \in Workers, NEW p \in Objects, Inspected(v, p, replica[p]), UNCHANGED replica
      PROVE  \/ pc[w] \in {"adopt", "created", "present"} /\ Current(w, o)
             \/ replica[o] = "exact" /\ UNCHANGED replica
  <2>1. CASE v # w
    BY <1>4, <2>1 DEF Inspected, Current
  <2>2. CASE v = w
    <3>1. replica[p] = "exact" /\ Current(w, p) /\ UNCHANGED loopVars
      BY <1>4, <2>2 DEF Inspected
    <3>2. Current(w, o)
      BY <3>1 DEF Current
    <3> QED
      BY <1>4, <3>1, <3>2, CurrentUnique
  <2> QED
    BY <2>1, <2>2
<1>5. ASSUME NEW v \in Workers, PublishStep(v)
      PROVE  \/ pc[w] \in {"adopt", "created", "present"} /\ Current(w, o)
             \/ replica[o] = "exact" /\ UNCHANGED replica
  <2>1. UNCHANGED loopVars
    BY <1>5 DEF PublishStep, UploadCreates, UploadAnswerLost, UploadRefused, InspectExisting,
       ReadBack, TargetFails
  <2>2. Current(w, o)
    BY <2>1 DEF Current
  <2>3. CASE v # w
    BY <1>5, <2>2, <2>3 DEF PublishStep, UploadCreates, UploadAnswerLost, UploadRefused,
       InspectExisting, ReadBack, TargetFails
  <2>4. CASE v = w
    <3>1. InspectExisting(w) \/ ReadBack(w)
      BY <1>5, <2>4 DEF PublishStep, UploadCreates, UploadAnswerLost, UploadRefused, TargetFails
    <3>2. PICK p \in Objects : Current(w, p) /\ replica[p] = "exact"
      BY <3>1, <2>4 DEF InspectExisting, ReadBack
    <3>3. UNCHANGED replica
      BY <3>1 DEF InspectExisting, ReadBack
    <3> QED
      BY <2>2, <3>2, <3>3, CurrentUnique
  <2> QED
    BY <2>3, <2>4
<1>6. CASE EnvStep \/ UNCHANGED vars
  BY <1>6 DEF EnvStep, Finalize, SourceChanges, Current, vars, coreVars
<1>7. ASSUME NEW v \in Workers, CoreStep(v)
      PROVE  pc[w] \in {"adopt", "created", "present"} /\ Current(w, o)
  BY <1>1, <1>2, <1>7 DEF Current
<1> QED
  BY <1>3, <1>4, <1>5, <1>6, <1>7, NextCases

\* A worker past record_attempt was there before, or has just committed it.
LEMMA AttemptReached ==
  ASSUME GcsInv, [Next]_vars, NEW w \in Workers, NEW o \in Objects,
         pc'[w] \in {"hash", "publish"}, Current(w, o)'
  PROVE  \/ pc[w] \in {"hash", "publish"} /\ Current(w, o)
         \/ state'[o] # "ABSENT" /\ attempts'[o] > 0
<1> USE DEF GcsInv, CoreInv, CoreTypeOK, Goto, Raise, Failing, Return, dbVars, envVars, loopVars
<1>1. ASSUME NEW v \in Workers, v # w, CoreStep(v)
      PROVE  pc[w] \in {"hash", "publish"} /\ Current(w, o)
  BY <1>1 DEF CoreStep, ReconcileMark, MarkVerified, ReconcileEnd, Discover,
     RegisterDiscovered, ListPending, RecordAttempt, HashSource, RecordFailure, RunMark,
     RunEnd, VerifyEnd, Current
<1>2. ASSUME CoreStep(w)
      PROVE  \/ pc[w] \in {"hash", "publish"} /\ Current(w, o)
             \/ state'[o] # "ABSENT" /\ attempts'[o] > 0
  <2>1. HashSource(w) \/ RecordAttempt(w)
    BY <1>2 DEF CoreStep, ReconcileMark, MarkVerified, ReconcileEnd, Discover,
       RegisterDiscovered, ListPending, RecordFailure, RunMark, RunEnd, VerifyEnd
  <2>2. CASE HashSource(w)
    BY <2>2 DEF HashSource, Current
  <2>3. CASE RecordAttempt(w)
    <3>1. PICK p \in Objects :
            /\ Current(w, p)
            /\ state[p] = "PENDING"
            /\ attempts' = [attempts EXCEPT ![p] = IF @ < MaxAttempts THEN @ + 1 ELSE @]
            /\ UNCHANGED <<state, todo>>
      BY <2>3 DEF RecordAttempt
    <3>2. Current(w, o)
      BY <3>1 DEF Current
    <3>3. p = o
      BY <3>1, <3>2, CurrentUnique
    <3>4. attempts[o] \in Nat /\ MaxAttempts \in Nat \ {0}
      BY CoreAssumption
    <3> QED
      BY <3>1, <3>3, <3>4
  <2> QED
    BY <2>1, <2>2, <2>3
<1>3. ASSUME NEW v \in Workers, NEW p \in Objects,
             \/ Cleaned(v, p)
             \/ Inspected(v, p, replica[p])
             \/ Verify(v, p, replica[p])
             \/ Abort(v)
             \/ \E c \in Commands : Begin(v, c)
      PROVE  pc[w] \in {"hash", "publish"} /\ Current(w, o)
  BY <1>3 DEF Cleaned, Inspected, Verify, Abort, Begin, Current
<1>4. ASSUME NEW v \in Workers, PublishStep(v)
      PROVE  pc[w] \in {"hash", "publish"} /\ Current(w, o)
  BY <1>4 DEF PublishStep, UploadCreates, UploadAnswerLost, UploadRefused, InspectExisting,
     ReadBack, TargetFails, Current
<1>5. CASE EnvStep \/ UNCHANGED vars
  BY <1>5 DEF EnvStep, Finalize, SourceChanges, Current, vars, coreVars
<1> QED
  BY <1>1, <1>2, <1>3, <1>4, <1>5, NextCases

LEMMA GcsInvNext == GcsInv /\ [Next]_vars => GcsInv'
<1> SUFFICES ASSUME GcsInv, [Next]_vars PROVE GcsInv'
  OBVIOUS
<1>1. CoreInv(Labels)'
  BY NextCore DEF GcsInv
<1>2. replica' \in [Objects -> {"absent", "exact", "wrong"}]
  <2>1. CoreTypeOK(Labels)
    BY DEF GcsInv, CoreInv
  <2> QED
    BY <2>1, NextRows DEF GcsInv, BucketStep
<1>3. MarkJustified'
  <2> SUFFICES ASSUME NEW w \in Workers, NEW o \in Objects,
                      pc'[w] \in {"adopt", "created", "present"}, Current(w, o)'
               PROVE  replica'[o] = "exact"
    BY DEF MarkJustified
  <2>1. replica[o] = "exact"
    BY MarkReached DEF GcsInv, MarkJustified
  <2> QED
    BY <2>1, BucketStable
<1>4. VerifiedIsReplicated'
  <2> SUFFICES ASSUME NEW o \in Objects, state'[o] = "VERIFIED" PROVE replica'[o] = "exact"
    BY DEF VerifiedIsReplicated
  <2>1. replica[o] = "exact"
    BY CoreStepMarks, NextRows
       DEF GcsInv, CoreInv, VerifiedIsReplicated, MarkJustified, dbVars
  <2> QED
    BY <2>1, BucketStable
<1>5. AttemptCommitted'
  <2> SUFFICES ASSUME NEW w \in Workers, NEW o \in Objects,
                      pc'[w] \in {"hash", "publish"}, Current(w, o)'
               PROVE  state'[o] # "ABSENT" /\ attempts'[o] > 0
    BY DEF AttemptCommitted
  <2>1. RowsMonotone
    BY NextRows DEF GcsInv, CoreInv
  <2>2. attempts[o] \in Nat /\ attempts'[o] \in Nat
    BY <1>1, CoreAssumption DEF GcsInv, CoreInv, CoreTypeOK
  <2> QED
    BY <2>1, <2>2, AttemptReached DEF GcsInv, AttemptCommitted, RowsMonotone
<1> QED
  BY <1>1, <1>2, <1>3, <1>4, <1>5 DEF GcsInv

\* The inductive invariant: it ties every row, spool file and stored object to the
\* place in run, reconcile or verify that each invocation has reached.
THEOREM Invariant == Spec => []GcsInv
  BY GcsInvInit, GcsInvNext, PTL DEF Spec

-----------------------------------------------------------------------------
(* What follows from it *)

\* Every variable keeps its type: rows, spool files, the control state of each
\* invocation and what the bucket holds.
THEOREM TypeCorrect == Spec => []GcsTypeOK
<1>1. GcsInv => GcsTypeOK
  BY DEF GcsInv, CoreInv, GcsTypeOK
<1> QED
  BY <1>1, Invariant, PTL

\* Whatever runs overlap, answers get lost and spool files change, a row is
\* VERIFIED only where the bucket holds the exact bytes.
THEOREM VerifiedReplicas == Spec => []VerifiedIsReplicated
<1>1. GcsInv => VerifiedIsReplicated
  BY DEF GcsInv
<1> QED
  BY <1>1, Invariant, PTL

\* A run that says pass has verified everything it discovered.
THEOREM PassIsHonest == Spec => []PassMeansVerified
<1>1. GcsInv => PassMeansVerified
  BY DEF GcsInv, CoreInv
<1> QED
  BY <1>1, Invariant, PTL

\* No object is counted in the summaries of two invocations.
THEOREM SummariesDisjoint == Spec => []CreditedOnce
<1>1. GcsInv => CreditedOnce
  BY DEF GcsInv, CoreInv
<1> QED
  BY <1>1, Invariant, PTL

\* No step of any worker changes a column of a VERIFIED row.
THEOREM VerifiedRowsFinal == Spec => VerifiedIsFinal
<1>1. GcsInv /\ [Next]_vars =>
        [\A o \in Objects : state[o] = "VERIFIED" =>
           /\ state'[o] = "VERIFIED"
           /\ attempts'[o] = attempts[o]
           /\ last_error'[o] = last_error[o]]_dbVars
  BY NextRows DEF GcsInv, CoreInv, RowsMonotone
<1> QED
  BY <1>1, Invariant, PTL DEF Spec, VerifiedIsFinal

\* Nothing is put into the bucket before its attempt is committed.
THEOREM AttemptsFirst == Spec => AttemptPrecedesCreate
<1>1. GcsInv /\ [Next]_vars =>
        [\A o \in Objects : replica'[o] # replica[o] =>
           /\ state[o] # "ABSENT"
           /\ attempts[o] > 0]_replica
  BY NextRows DEF GcsInv, CoreInv, BucketStep, AttemptCommitted
<1> QED
  BY <1>1, Invariant, PTL DEF Spec, AttemptPrecedesCreate

-----------------------------------------------------------------------------
(* verify *)

\* The list of a verify holds VERIFIED rows only, and it does nothing else.
VerifyListed ==
  \A w \in Workers :
    /\ pc[w] = "verify" => todo[w] \subseteq Verified
    /\ cmd[w] = "verify" => pc[w] \in {"idle", "verify"}

VerifyInvariant == VerifyListed /\ VerifyNeverAccuses

LEMMA VerifyInvInit == Init => VerifyInvariant
  BY DEF Init, CoreInit, VerifyInvariant, VerifyListed, VerifyNeverAccuses

LEMMA VerifyInvNext == GcsInv /\ VerifyInvariant /\ [Next]_vars => VerifyInvariant'
<1> SUFFICES ASSUME GcsInv, VerifyInvariant, [Next]_vars PROVE VerifyInvariant'
  OBVIOUS
<1> USE DEF GcsInv, CoreInv, CoreTypeOK, VerifyInvariant, VerifyListed, VerifyNeverAccuses,
    Goto, Raise, Failing, Return, envVars, loopVars
<1>1. Verified \subseteq Verified'
  BY NextRows DEF RowsMonotone, Verified
<1>2. ASSUME NEW w \in Workers, CoreStep(w) PROVE VerifyInvariant'
  <2>1. CASE pc[w] = "verify"
    BY <1>1, <1>2, <2>1 DEF CoreStep, ReconcileMark, ReconcileEnd, Discover,
       RegisterDiscovered, ListPending, RecordAttempt, HashSource, RecordFailure, RunMark,
       RunEnd, VerifyEnd
  <2>2. CASE pc[w] # "verify"
    <3>1. cmd[w] # "verify"
      BY <1>2, <2>2 DEF CoreStep, ReconcileMark, ReconcileEnd, Discover,
         RegisterDiscovered, ListPending, RecordAttempt, HashSource, RecordFailure, RunMark,
         RunEnd, VerifyEnd
    <3>2. /\ \A v \in Workers \ {w} : UNCHANGED <<pc[v], todo[v], outcome[v]>>
          /\ UNCHANGED cmd
          /\ pc'[w] # "verify"
      BY <1>2 DEF CoreStep, ReconcileMark, MarkVerified, ReconcileEnd, Discover,
         RegisterDiscovered, ListPending, RecordAttempt, HashSource, RecordFailure, RunMark,
         RunEnd, VerifyEnd
    <3> QED
      BY <1>1, <3>1, <3>2
  <2> QED
    BY <2>1, <2>2
<1>3. ASSUME NEW w \in Workers, NEW o \in Objects, Cleaned(w, o) PROVE VerifyInvariant'
  BY <1>1, <1>3 DEF Cleaned
<1>4. ASSUME NEW w \in Workers, NEW o \in Objects, Inspected(w, o, replica[o])
      PROVE  VerifyInvariant'
  BY <1>1, <1>4 DEF Inspected
<1>5. ASSUME NEW w \in Workers, NEW o \in Objects, Verify(w, o, replica[o])
      PROVE  VerifyInvariant'
  <2>1. replica[o] = "exact"
    BY <1>5 DEF Verify, Current, Verified, VerifiedIsReplicated
  <2> QED
    BY <1>1, <1>5, <2>1 DEF Verify
<1>6. ASSUME NEW w \in Workers, PublishStep(w) PROVE VerifyInvariant'
  BY <1>1, <1>6 DEF PublishStep, UploadCreates, UploadAnswerLost, UploadRefused,
     InspectExisting, ReadBack, TargetFails
<1>7. ASSUME NEW w \in Workers, Abort(w) PROVE VerifyInvariant'
  BY <1>1, <1>7 DEF Abort
<1>8. ASSUME NEW w \in Workers, NEW c \in Commands, Begin(w, c) PROVE VerifyInvariant'
  BY <1>1, <1>8 DEF Begin
<1>9. CASE EnvStep \/ UNCHANGED vars
  BY <1>1, <1>9 DEF EnvStep, Finalize, SourceChanges, vars, coreVars
<1> QED
  BY <1>2, <1>3, <1>4, <1>5, <1>6, <1>7, <1>8, <1>9, NextCases

\* A verify never reports a VERIFIED replica as missing or different.
THEOREM VerifyIsQuiet == Spec => []VerifyNeverAccuses
<1>1. VerifyInvariant => VerifyNeverAccuses
  BY DEF VerifyInvariant
<1> QED
  BY <1>1, Invariant, VerifyInvInit, VerifyInvNext, PTL DEF Spec

-----------------------------------------------------------------------------
(* The worker implements the abstract authority *)

LEMMA StepSimulation ==
  ASSUME GcsInv, [Next]_vars
  PROVE  [Authority!Next]_(Authority!vars)
<1> USE DEF GcsInv, CoreInv, Authority!Next, Authority!vars
<1>1. ASSUME NEW w \in Workers, BucketStep(w), UNCHANGED dbVars
      PROVE  [Authority!Next]_(Authority!vars)
  <2>1. CASE UNCHANGED replica
    BY <1>1, <2>1 DEF dbVars
  <2>2. CASE replica' # replica
    <3>1. PICK o \in Objects, b \in {"exact", "wrong"} :
            /\ pc[w] = "publish"
            /\ Current(w, o)
            /\ replica[o] = "absent"
            /\ replica' = [replica EXCEPT ![o] = b]
      BY <1>1, <2>2 DEF BucketStep
    <3>2. state[o] # "ABSENT"
      BY <3>1 DEF AttemptCommitted
    <3>3. Authority!Create(o, b)
      BY <1>1, <3>1, <3>2 DEF Authority!Create, dbVars
    <3> QED
      BY <3>3 DEF Authority!Bytes
  <2> QED
    BY <2>1, <2>2
<1>2. ASSUME NEW w \in Workers, CoreStep(w), UNCHANGED replica
      PROVE  [Authority!Next]_(Authority!vars)
  <2>1. CASE UNCHANGED state
    BY <1>2, <2>1
  <2>2. CASE \E S \in SUBSET Objects :
               /\ \A o \in S : state[o] = "ABSENT"
               /\ state' = [o \in Objects |-> IF o \in S THEN "PENDING" ELSE state[o]]
    BY <1>2, <2>2 DEF Authority!Register
  <2>3. CASE \E o \in Objects : state'[o] = "VERIFIED" /\ state[o] # "VERIFIED"
    <3>1. PICK o \in Objects : state'[o] = "VERIFIED" /\ state[o] # "VERIFIED"
      BY <2>3
    <3>2. Authority!MarkVerified(o)
      BY <1>2, <3>1, CoreStepMarks DEF Authority!MarkVerified, MarkJustified
    <3> QED
      BY <3>2
  <2> QED
    BY <1>2, <2>1, <2>2, <2>3, CoreStepStates
<1>3. CASE UNCHANGED <<dbVars, replica>>
  BY <1>3 DEF dbVars
<1> QED
  BY <1>1, <1>2, <1>3, NextRows

\* Every behaviour of the worker is one that the authority promises.
THEOREM Refinement == Spec => ImplementsAuthority
<1>1. Init => Authority!Init
  BY DEF Init, CoreInit, Authority!Init, Authority!Bytes
<1>2. GcsInv /\ [Next]_vars => [Authority!Next]_(Authority!vars)
  BY StepSimulation
<1> QED
  BY <1>1, <1>2, Invariant, PTL DEF Spec, ImplementsAuthority, Authority!Spec

-----------------------------------------------------------------------------
(* run_exact beside the worker: the inductive invariant *)

Manifests == UNION {[S -> Projections] : S \in SUBSET Objects}

Results == {"none", "published", "adopted", "failed", "not-run"}

ExactTypes ==
  /\ manifest \in [Actions -> Manifests]
  /\ xpc \in [Actions -> ExactLabels]
  /\ left \in [Actions -> SUBSET Objects]
  /\ result \in [Actions -> [Objects -> Results]]
  /\ status \in [Actions -> {"none", "pass", "failed", "refused", "crashed"}]
  /\ tried \in [Actions -> SUBSET Objects]

\* While an execution runs, each entry is still to do or has its result.
EntriesAccounted(a) ==
  /\ xpc[a] # "idle" => status[a] = "none" /\ Entries(a) = left[a] \cup Reported(a)
  /\ status[a] = "pass" => Entries(a) = Reported(a)

\* A row has at least the attempts it was approved with ...
ApprovedRows(a) ==
  \A o \in Eligible(a) :
    manifest[a][o].row[1] # "ABSENT" =>
      state[o] # "ABSENT" /\ manifest[a][o].row[2] <= attempts[o]

\* ... and more once an execution has attempted the entry.
TriedRows(a) ==
  \A o \in tried[a] :
    /\ o \in Eligible(a)
    /\ state[o] # "ABSENT"
    /\ manifest[a][o].row[1] # "ABSENT" => manifest[a][o].row[2] < attempts[o]

\* An execution that has compared the rows has none of these before it, but for
\* the entry that it is at.
LeftUntried(a) ==
  \A o \in left[a] \cap tried[a] :
    /\ xpc[a] \notin {"target"} \cup Unattempted
    /\ xpc[a] \in Attempted \cup {"noting", "recording"} => Entry(a, o)

\* What the entry in hand has been found to be.
EntryJustified(a) ==
  \A o \in Objects : Entry(a, o) =>
    /\ xpc[a] \in Attempted => state[o] # "ABSENT"
    /\ xpc[a] \in {"mark", "confirm"} => replica[o] = "exact"

Execution(a) ==
  /\ EntriesAccounted(a)
  /\ ApprovedRows(a)
  /\ TriedRows(a)
  /\ LeftUntried(a)
  /\ EntryJustified(a)

\* What an execution has reported, and the entry it has just marked.
Claimed(a) == Reported(a) \cup {o \in Objects : xpc[a] = "confirm" /\ Entry(a, o)}

\* Marking claims a row for one execution, or for the summary of one worker.
ClaimsDisjoint ==
  \A a \in Actions :
    /\ Claimed(a) \subseteq Verified
    /\ \A w \in Workers : Claimed(a) \cap Credited(w) = {}
    /\ \A b \in Actions : a # b => Claimed(a) \cap Claimed(b) = {}

ExactInv ==
  /\ GcsInv
  /\ ExactTypes
  /\ \A a \in Actions : Execution(a)
  /\ ClaimsDisjoint

-----------------------------------------------------------------------------
(* The steps of an execution *)

\* Rows move forward and what is in the bucket stays.
Forward ==
  /\ RowsMonotone
  /\ \A o \in Objects : replica[o] # "absent" => replica'[o] = replica[o]

ExecutionStep(a) ==
  \/ Approve(a) \/ ExactBegin(a)
  \/ ProjectSource(a) \/ ProjectAuthority(a) \/ ProjectTarget(a)
  \/ EntryStep(a) \/ EntryFault(a) \/ ExactCrash(a)

\* It ends, with no result that it did not have.
Ends(a) ==
  \E s \in {"pass", "failed", "refused", "crashed"}, r \in [Objects -> Results] :
    /\ End(a, s, r)
    /\ \A o \in Objects : r[o] \in {"published", "adopted"} => r[o] = result[a][o]
    /\ s = "pass" => xpc[a] = "source" /\ left[a] = {} /\ r = result[a]

\* It goes on with the entry in hand, or to the entries.
Moves(a) ==
  \E l \in ExactLabels \ {"idle", "confirm"} :
    /\ Advance(a, l)
    /\ xpc[a] # "idle"
    /\ l = "authority" => xpc[a] = "eligible"
    /\ l = "target" => AuthoritySnapshot = ApprovedAuthority(a)
    /\ l \in Unattempted => xpc[a] \in {"target"} \cup Unattempted
    /\ l \in Attempted => xpc[a] \in Attempted
    /\ l \in {"noting", "recording"} => xpc[a] \in Attempted \cup {"noting"}
    /\ l = "mark" => \A o \in Objects : Entry(a, o) => replica[o] = "exact"

\* It attempts the entry in hand.
Attempts(a) ==
  \E o \in Objects :
    /\ xpc[a] = "attempt"
    /\ Entry(a, o)
    /\ state[o] = "PENDING"
    /\ attempts' = [attempts EXCEPT ![o] = @ + 1]
    /\ xpc' = [xpc EXCEPT ![a] = "again"]
    /\ tried' = [tried EXCEPT ![a] = @ \cup {o}]
    /\ UNCHANGED <<state, manifest, left, result, status>>

\* It turns the row of the entry in hand VERIFIED.
Marks(a) ==
  \E o \in Objects :
    /\ xpc[a] = "mark"
    /\ Entry(a, o)
    /\ state[o] = "PENDING"
    /\ state' = [state EXCEPT ![o] = "VERIFIED"]
    /\ Advance(a, "confirm")
    /\ UNCHANGED replica

\* It reports the entry in hand.
Confirms(a) ==
  \E o \in Objects, r \in {"published", "adopted"} :
    /\ xpc[a] = "confirm"
    /\ Entry(a, o)
    /\ result' = [result EXCEPT ![a][o] = r]
    /\ left' = [left EXCEPT ![a] = @ \ {o}]
    /\ xpc' = [xpc EXCEPT ![a] = "source"]
    /\ UNCHANGED <<dbVars, replica, manifest, status, tried>>

LEMMA EntryUnique ==
  ASSUME NEW a \in Actions, NEW o \in Objects, NEW p \in Objects, Entry(a, o), Entry(a, p)
  PROVE  o = p
<1>1. o <= p /\ p <= o /\ o \in Nat /\ p \in Nat
  BY CoreAssumption DEF Entry
<1> QED
  BY <1>1

LEMMA StopEnds ==
  ASSUME ExactTypes, NEW a \in Actions, Stop(a)
  PROVE  Ends(a)
<1> DEFINE r == [o \in Objects |-> IF o \notin left[a] THEN result[a][o]
                                   ELSE IF Entry(a, o) THEN "failed" ELSE "not-run"]
<1>1. End(a, "failed", r)
  BY DEF Stop
<1>2. r \in [Objects -> Results]
  BY DEF ExactTypes, Results
<1>3. \A o \in Objects : r[o] \in {"published", "adopted"} => r[o] = result[a][o]
  OBVIOUS
<1> QED
  BY <1>1, <1>2, <1>3 DEF Ends

LEMMA NothingEnds ==
  ASSUME NEW a \in Actions, NEW s \in {"refused", "crashed"}, End(a, s, Nothing)
  PROVE  Ends(a)
<1>1. Nothing \in [Objects -> Results] /\ \A o \in Objects : Nothing[o] = "none"
  BY DEF Nothing, Results
<1> QED
  BY <1>1 DEF Ends

\* What fails without an effect of its own.
LEMMA FailsForms ==
  ASSUME ExactTypes, NEW a \in Actions, EntryFails(a)
  PROVE  Ends(a) \/ Moves(a)
<1>1. CASE xpc[a] \in Unattempted /\ Stop(a)
  BY <1>1, StopEnds
<1>2. CASE xpc[a] \in Attempted /\ Advance(a, "noting")
  BY <1>2 DEF Moves, ExactLabels, Unattempted, Attempted
<1> QED
  BY <1>1, <1>2 DEF EntryFails

\* A check leads on to its label, or fails.
LEMMA CheckForms ==
  ASSUME ExactTypes, NEW a \in Actions, NEW from, NEW fine, NEW l, Check(a, from, fine, l)
  PROVE  \/ Ends(a)
         \/ Moves(a)
         \/ /\ xpc[a] = from
            /\ Advance(a, l)
            /\ \A o \in Objects : Entry(a, o) => o \in fine
<1>1. PICK o \in Objects : /\ Entry(a, o)
                           /\ (o \in fine /\ Advance(a, l)) \/ EntryFails(a)
  BY DEF Check
<1> QED
  BY <1>1, EntryUnique, FailsForms DEF Check

LEMMA ExecutionForms ==
  ASSUME ExactTypes, NEW a \in Actions, ExecutionStep(a)
  PROVE  \/ Approve(a) \/ ExactBegin(a) \/ Ends(a) \/ Moves(a)
         \/ Attempts(a) \/ Marks(a) \/ Confirms(a)
<1> USE DEF Moves, ExactLabels, Unattempted, Attempted
<1>1. CASE ProjectSource(a)
  BY <1>1, NothingEnds DEF ProjectSource, Compare
<1>2. CASE ProjectAuthority(a)
  BY <1>2, NothingEnds DEF ProjectAuthority, Compare
<1>3. CASE ProjectTarget(a)
  BY <1>3, NothingEnds DEF ProjectTarget, Compare
<1>4. CASE RevalidateSource(a)
  BY <1>4, CheckForms DEF RevalidateSource
<1>5. CASE ReadReplicaWitness(a)
  BY <1>5, CheckForms DEF ReadReplicaWitness
<1>6. CASE InspectState(a)
  BY <1>6, CheckForms DEF InspectState
<1>7. CASE RegisterEntry(a)
  BY <1>7 DEF RegisterEntry
<1>8. CASE CheckPresence(a)
  BY <1>8, CheckForms DEF CheckPresence
<1>9. CASE AttemptEntry(a)
  <2>1. CASE EntryFails(a)
    BY <2>1, FailsForms
  <2>2. CASE ~ EntryFails(a)
    BY <1>9, <2>2 DEF AttemptEntry, Attempts
  <2> QED
    BY <2>1, <2>2
<1>10. CASE RevalidateAgain(a)
  BY <1>10, CheckForms DEF RevalidateAgain
<1>11. CASE Reinspect(a)
  BY <1>11, FailsForms DEF Reinspect
<1>12. CASE UploadEntry(a)
  BY <1>12 DEF UploadEntry
<1>13. CASE EntryExists(a)
  BY <1>13, FailsForms DEF EntryExists
<1>14. CASE EntryReadBack(a)
  BY <1>14, CheckForms DEF EntryReadBack
<1>15. CASE VerifyEntry(a)
  BY <1>15, CheckForms DEF VerifyEntry, DestinationExact
<1>16. CASE MarkEntry(a)
  <2>1. CASE EntryFails(a)
    BY <2>1, FailsForms
  <2>2. CASE ~ EntryFails(a)
    BY <1>16, <2>2 DEF MarkEntry, Marks
  <2> QED
    BY <2>1, <2>2
<1>17. CASE Confirm(a)
  <2>1. CASE EntryFails(a)
    BY <2>1, FailsForms
  <2>2. CASE ~ EntryFails(a)
    BY <1>17, <2>2 DEF Confirm, Confirms, vars, coreVars
  <2> QED
    BY <2>1, <2>2
<1>18. CASE NoteFailure(a)
  BY <1>18, StopEnds DEF NoteFailure
<1>19. CASE RecordEntryFailure(a)
  BY <1>19, StopEnds DEF RecordEntryFailure
<1>20. CASE ExactEnd(a)
  BY <1>20 DEF ExactEnd, Ends, ExactTypes
<1>21. CASE EntryFault(a)
  BY <1>21, FailsForms, StopEnds, NothingEnds DEF EntryFault
<1>22. CASE ExactCrash(a)
  BY <1>22, NothingEnds DEF ExactCrash
<1> QED
  BY <1>1, <1>2, <1>3, <1>4, <1>5, <1>6, <1>7, <1>8, <1>9, <1>10, <1>11, <1>12, <1>13, <1>14,
     <1>15, <1>16, <1>17, <1>18, <1>19, <1>20, <1>21, <1>22 DEF ExecutionStep, EntryStep

\* The steps that write a row or to the bucket, each with what it requires of it.
Writes(a, o) ==
  \/ /\ state[o] = "ABSENT"
     /\ state' = [state EXCEPT ![o] = "PENDING"]
     /\ UNCHANGED <<attempts, last_error, replica>>
  \/ /\ state[o] = "PENDING"
     /\ attempts[o] < MaxAttempts
     /\ attempts' = [attempts EXCEPT ![o] = @ + 1]
     /\ last_error' = [last_error EXCEPT ![o] = "none"]
     /\ UNCHANGED <<state, replica>>
  \/ /\ xpc[a] = "upload"
     /\ Entry(a, o)
     /\ replica[o] = "absent"
     /\ \E b \in {"exact", "wrong"} : replica' = [replica EXCEPT ![o] = b]
     /\ UNCHANGED dbVars
  \/ /\ xpc[a] = "mark"
     /\ Entry(a, o)
     /\ state[o] = "PENDING"
     /\ state' = [state EXCEPT ![o] = "VERIFIED"]
     /\ last_error' = [last_error EXCEPT ![o] = "none"]
     /\ UNCHANGED <<attempts, replica>>
  \/ /\ state[o] = "PENDING"
     /\ last_error' = [last_error EXCEPT ![o] = "target_io_error"]
     /\ UNCHANGED <<state, attempts, replica>>

LEMMA ExecutionWrites ==
  ASSUME CoreTypeOK(Labels), NEW a \in Actions, ExecutionStep(a)
  PROVE  /\ UNCHANGED <<envVars, pc, loopVars, outcome>>
         /\ UNCHANGED <<dbVars, replica>> \/ \E o \in Objects : Writes(a, o)
<1> USE DEF vars, coreVars, dbVars
<1>1. CASE RegisterEntry(a)
  BY <1>1 DEF RegisterEntry, Writes, CoreTypeOK
<1>2. CASE AttemptEntry(a)
  BY <1>2 DEF AttemptEntry, Writes
<1>3. CASE UploadEntry(a)
  BY <1>3 DEF UploadEntry, Writes, Uploaded
<1>4. CASE MarkEntry(a)
  BY <1>4 DEF MarkEntry, Writes
<1>5. CASE RecordEntryFailure(a)
  BY <1>5 DEF RecordEntryFailure, Writes, CoreTypeOK
<1>6. CASE UNCHANGED vars
  BY <1>6
<1> QED
  BY <1>1, <1>2, <1>3, <1>4, <1>5, <1>6 DEF ExecutionStep, EntryStep, Approve, ExactBegin,
     ProjectSource, ProjectAuthority, ProjectTarget, Compare, RevalidateSource,
     ReadReplicaWitness, InspectState, CheckPresence, RevalidateAgain, Reinspect, EntryExists,
     EntryReadBack, VerifyEntry, Check, Confirm, NoteFailure, ExactEnd, EntryFault, ExactCrash

LEMMA ExecutionForward ==
  ASSUME CoreTypeOK(Labels), replica \in [Objects -> {"absent", "exact", "wrong"}],
         NEW a \in Actions, ExecutionStep(a)
  PROVE  /\ Forward
         /\ CoreTypeOK(Labels)'
         /\ replica' \in [Objects -> {"absent", "exact", "wrong"}]
<1>1. \A o \in Objects : attempts[o] \in Nat
  BY CoreAssumption DEF CoreTypeOK
<1>2. CASE UNCHANGED <<dbVars, replica>>
  <2>1. UNCHANGED <<envVars, pc, loopVars, outcome>>
    BY ExecutionWrites
  <2> QED
    BY <1>2, <2>1, RowsStay DEF Forward, CoreTypeOK, dbVars, envVars, loopVars
<1>3. ASSUME NEW o \in Objects, Writes(a, o)
      PROVE  Forward
  BY <1>1, <1>3 DEF Writes, Forward, RowsMonotone, CoreTypeOK, dbVars
<1>4. ASSUME NEW o \in Objects, Writes(a, o)
      PROVE  /\ state' \in [Objects -> {"ABSENT", "PENDING", "VERIFIED"}]
             /\ attempts' \in [Objects -> 0..MaxAttempts]
             /\ last_error' \in [Objects -> Findings \cup {"none"}]
             /\ replica' \in [Objects -> {"absent", "exact", "wrong"}]
  <2>1. state' \in [Objects -> {"ABSENT", "PENDING", "VERIFIED"}]
    BY <1>4 DEF Writes, CoreTypeOK, dbVars
  <2>2. attempts' \in [Objects -> 0..MaxAttempts]
    BY <1>4, CoreAssumption DEF Writes, CoreTypeOK, dbVars
  <2>3. last_error' \in [Objects -> Findings \cup {"none"}]
    BY <1>4 DEF Writes, CoreTypeOK, Findings, dbVars
  <2>4. replica' \in [Objects -> {"absent", "exact", "wrong"}]
    BY <1>4 DEF Writes
  <2> QED
    BY <2>1, <2>2, <2>3, <2>4
<1>5. ASSUME NEW o \in Objects, Writes(a, o)
      PROVE  CoreTypeOK(Labels)'
  <2>1. UNCHANGED <<envVars, pc, loopVars, outcome>>
    BY ExecutionWrites
  <2> QED
    BY <1>4, <1>5, <2>1 DEF CoreTypeOK, envVars, loopVars
<1> QED
  BY <1>2, <1>3, <1>4, <1>5, ExecutionWrites

\* A step of the worker does the same to rows and bucket.
LEMMA WorkerForward ==
  ASSUME GcsInv, [Next]_vars
  PROVE  Forward
  BY NextRows, BucketStable DEF GcsInv, CoreInv, Forward

\* The invariant of the worker survives the steps of the executions beside it.
LEMMA ExecutionKeepsGcs ==
  ASSUME ExactInv, NEW a \in Actions, ExecutionStep(a)
  PROVE  GcsInv'
<1> USE DEF ExactInv, GcsInv, CoreInv
<1>1. /\ Forward
      /\ CoreTypeOK(Labels)'
      /\ replica' \in [Objects -> {"absent", "exact", "wrong"}]
      /\ UNCHANGED <<envVars, pc, loopVars, outcome>>
  BY ExecutionForward, ExecutionWrites
<1>2. CoreInv(Labels)'
  BY <1>1, RowsInv DEF Forward
<1>3. \A w \in Workers, o \in Objects : Current(w, o)' <=> Current(w, o)
  BY <1>1 DEF Current, loopVars
<1>4. MarkJustified'
  BY <1>1, <1>3 DEF MarkJustified, Forward
<1>5. AttemptCommitted'
  <2>1. \A o \in Objects : attempts[o] \in Nat /\ attempts'[o] \in Nat
    BY <1>1, CoreAssumption DEF CoreTypeOK
  <2> QED
    BY <1>1, <1>3, <2>1 DEF AttemptCommitted, Forward, RowsMonotone
<1>6. VerifiedIsReplicated'
  <2> SUFFICES ASSUME NEW o \in Objects, state'[o] = "VERIFIED" PROVE replica'[o] = "exact"
    BY DEF VerifiedIsReplicated
  <2>1. CASE state[o] = "VERIFIED"
    BY <1>1, <2>1 DEF VerifiedIsReplicated, Forward
  <2>2. CASE state[o] # "VERIFIED"
    <3>1. xpc[a] = "mark" /\ Entry(a, o)
      BY <2>2, ExecutionWrites DEF Writes, dbVars, CoreTypeOK
    <3>2. replica[o] = "exact"
      BY <3>1 DEF Execution, EntryJustified
    <3> QED
      BY <1>1, <3>2 DEF Forward
  <2> QED
    BY <2>1, <2>2
<1> QED
  BY <1>1, <1>2, <1>4, <1>5, <1>6

-----------------------------------------------------------------------------
(* The executions keep their invariant *)

\* What one execution does to the control of itself, and to that of no other.
LEMMA ExecutionTypes ==
  ASSUME ExactInv, NEW a \in Actions, ExecutionStep(a)
  PROVE  /\ ExactTypes'
         /\ \A b \in Actions : b # a =>
              /\ manifest'[b] = manifest[b] /\ xpc'[b] = xpc[b] /\ left'[b] = left[b]
              /\ result'[b] = result[b] /\ status'[b] = status[b] /\ tried'[b] = tried[b]
<1> USE DEF ExactInv, ExactTypes
<1>1. CASE Approve(a)
  <2>1. UNCHANGED <<xpc, left, result>>
    BY <1>1 DEF Approve
  <2>2. status' \in [Actions -> {"none", "pass", "failed", "refused", "crashed"}]
    BY <1>1 DEF Approve
  <2>3. tried' \in [Actions -> SUBSET Objects]
    BY <1>1 DEF Approve
  <2> DEFINE m == [o \in Finalized |-> [row |-> Row(o), dest |-> replica[o]]]
  <2>4. m \in Manifests
    <3>1. Finalized \subseteq Objects
      BY FinalizedObjects DEF GcsInv, CoreInv
    <3>2. \A o \in Objects : [row |-> Row(o), dest |-> replica[o]] \in Projections
      BY DEF GcsInv, CoreInv, CoreTypeOK, Row, Projections
    <3>3. m \in [Finalized -> Projections]
      BY <3>1, <3>2
    <3> QED
      BY <3>1, <3>3 DEF Manifests
  <2>5. manifest' = [manifest EXCEPT ![a] = m]
    BY <1>1 DEF Approve
  <2>6. manifest' \in [Actions -> Manifests]
    <3> HIDE DEF m
    <3> QED
      BY <2>4, <2>5
  <2>7. \A b \in Actions : b # a => manifest'[b] = manifest[b]
    <3> HIDE DEF m
    <3> QED
      BY <2>5
  <2>8. \A b \in Actions : b # a => status'[b] = status[b] /\ tried'[b] = tried[b]
    BY <1>1 DEF Approve
  <2> QED
    BY <2>1, <2>2, <2>3, <2>6, <2>7, <2>8
<1>2. CASE ExactBegin(a)
  <2>1. UNCHANGED <<manifest, tried>>
    BY <1>2 DEF ExactBegin
  <2>2. xpc' \in [Actions -> ExactLabels]
    BY <1>2 DEF ExactBegin, ExactLabels
  <2>3. left' \in [Actions -> SUBSET Objects]
    <3>1. Entries(a) \subseteq Objects
      BY DEF Entries, Eligible, Manifests
    <3> QED
      BY <1>2, <3>1 DEF ExactBegin
  <2>4. result' \in [Actions -> [Objects -> Results]]
    BY <1>2 DEF ExactBegin, Results
  <2>5. status' \in [Actions -> {"none", "pass", "failed", "refused", "crashed"}]
    BY <1>2 DEF ExactBegin
  <2>6. \A b \in Actions : b # a =>
          xpc'[b] = xpc[b] /\ left'[b] = left[b] /\ result'[b] = result[b] /\ status'[b] = status[b]
    BY <1>2 DEF ExactBegin
  <2> QED
    BY <2>1, <2>2, <2>3, <2>4, <2>5, <2>6
<1>3. CASE Ends(a)
  <2>1. PICK s \in {"pass", "failed", "refused", "crashed"}, r \in [Objects -> Results] :
           End(a, s, r)
    BY <1>3 DEF Ends
  <2> QED
    BY <2>1 DEF End, ExactLabels
<1>4. CASE Moves(a)
  BY <1>4 DEF Moves, Advance
<1>5. CASE Attempts(a)
  BY <1>5 DEF Attempts, ExactLabels, Attempted
<1>6. CASE Marks(a)
  BY <1>6 DEF Marks, Advance, ExactLabels, Attempted
<1>7. CASE Confirms(a)
  <2>1. PICK o \in Objects, r \in {"published", "adopted"} :
          /\ result' = [result EXCEPT ![a][o] = r]
          /\ left' = [left EXCEPT ![a] = @ \ {o}]
          /\ xpc' = [xpc EXCEPT ![a] = "source"]
          /\ UNCHANGED <<manifest, status, tried>>
    BY <1>7 DEF Confirms
  <2>2. result' \in [Actions -> [Objects -> Results]]
    BY <2>1 DEF Results
  <2> QED
    BY <2>1, <2>2 DEF ExactLabels, Unattempted
<1> QED
  BY <1>1, <1>2, <1>3, <1>4, <1>5, <1>6, <1>7, ExecutionForms

\* A manifest names objects, each with the attempts that it was approved with.
LEMMA ManifestRows ==
  ASSUME ExactTypes, NEW a \in Actions
  PROVE  /\ Eligible(a) \subseteq Objects
         /\ \A o \in Eligible(a) : manifest[a][o].row[2] \in Nat
<1>1. PICK S \in SUBSET Objects : manifest[a] \in [S -> Projections]
  BY DEF Manifests, ExactTypes
<1>2. Eligible(a) = S
  BY <1>1 DEF Eligible
<1>3. \A p \in Projections : p.row[2] \in Nat
  <2> SUFFICES ASSUME NEW p \in Projections PROVE p.row[2] \in Nat
    OBVIOUS
  <2>1. p.row[2] \in 0..MaxAttempts
    BY DEF Projections
  <2> QED
    BY <2>1, CoreAssumption
<1>4. \A o \in S : manifest[a][o] \in Projections
  BY <1>1
<1> QED
  BY <1>2, <1>3, <1>4

\* As rows move forward, attempts stay counted against what was approved.
LEMMA ApprovedForward ==
  ASSUME ExactInv, CoreTypeOK(Labels)', Forward, NEW a \in Actions, manifest'[a] = manifest[a]
  PROVE  /\ ApprovedRows(a)'
         /\ tried'[a] = tried[a] => TriedRows(a)'
<1> USE DEF ExactInv, Forward
<1>1. /\ Eligible(a)' = Eligible(a) /\ Eligible(a) \subseteq Objects
      /\ \A o \in Eligible(a) : manifest[a][o].row[2] \in Nat
      /\ \A o \in Objects : attempts[o] \in Nat /\ attempts'[o] \in Nat
  BY ManifestRows, CoreAssumption DEF Eligible, GcsInv, CoreInv, CoreTypeOK
<1>2. ApprovedRows(a)'
  <2> SUFFICES ASSUME NEW o \in Eligible(a), manifest[a][o].row[1] # "ABSENT"
               PROVE  state'[o] # "ABSENT" /\ manifest[a][o].row[2] <= attempts'[o]
    BY <1>1 DEF ApprovedRows
  <2>1. state[o] # "ABSENT" /\ manifest[a][o].row[2] <= attempts[o]
    BY DEF Execution, ApprovedRows
  <2> QED
    BY <1>1, <2>1 DEF RowsMonotone
<1>3. ASSUME tried'[a] = tried[a]
      PROVE  TriedRows(a)'
  <2> SUFFICES ASSUME NEW o \in tried[a]
               PROVE  /\ o \in Eligible(a)
                      /\ state'[o] # "ABSENT"
                      /\ manifest[a][o].row[1] # "ABSENT" => manifest[a][o].row[2] < attempts'[o]
    BY <1>1, <1>3 DEF TriedRows
  <2>1. /\ o \in Eligible(a)
        /\ state[o] # "ABSENT"
        /\ manifest[a][o].row[1] # "ABSENT" => manifest[a][o].row[2] < attempts[o]
    BY DEF Execution, TriedRows
  <2> QED
    BY <1>1, <2>1 DEF RowsMonotone
<1> QED
  BY <1>2, <1>3

\* An execution that does not move keeps what holds of it.
LEMMA ExecutionStays ==
  ASSUME ExactInv, CoreTypeOK(Labels)', Forward, NEW a \in Actions,
         manifest'[a] = manifest[a], xpc'[a] = xpc[a], left'[a] = left[a],
         result'[a] = result[a], status'[a] = status[a], tried'[a] = tried[a]
  PROVE  Execution(a)'
<1> USE DEF ExactInv, Execution, Forward
<1>1. Entries(a)' = Entries(a) /\ Reported(a)' = Reported(a)
  BY DEF Eligible, Entries, Reported
<1>2. \A o : Entry(a, o)' <=> Entry(a, o)
  BY DEF Entry
<1>3. EntriesAccounted(a)'
  BY <1>1 DEF EntriesAccounted
<1>4. LeftUntried(a)'
  BY <1>2 DEF LeftUntried
<1>5. EntryJustified(a)'
  BY <1>2 DEF EntryJustified, RowsMonotone
<1> QED
  BY <1>3, <1>4, <1>5, ApprovedForward

\* Approval takes the rows as they are; nothing has been tried under it.
LEMMA ApproveOwn ==
  ASSUME ExactInv, ExactTypes', NEW a \in Actions, Approve(a)
  PROVE  Execution(a)'
<1> USE DEF ExactInv, ExactTypes
<1>1. /\ xpc'[a] = "idle" /\ status'[a] = "none" /\ tried'[a] = {}
      /\ UNCHANGED <<state, attempts>>
      /\ manifest'[a] = [o \in Finalized |-> [row |-> Row(o), dest |-> replica[o]]]
  BY DEF Approve, vars, coreVars, dbVars
<1>2. \A o \in Finalized : attempts[o] \in Nat
  <2>1. Finalized \subseteq Objects
    BY FinalizedObjects DEF GcsInv, CoreInv
  <2> QED
    BY <2>1, CoreAssumption DEF GcsInv, CoreInv, CoreTypeOK
<1>3. ApprovedRows(a)'
  BY <1>1, <1>2 DEF ApprovedRows, Eligible, Row
<1> QED
  BY <1>1, <1>3 DEF Execution, EntriesAccounted, TriedRows, LeftUntried, EntryJustified,
     Attempted

LEMMA BeginOwn ==
  ASSUME ExactInv, CoreTypeOK(Labels)', Forward, NEW a \in Actions, ExactBegin(a)
  PROVE  Execution(a)'
<1> USE DEF ExactInv, ExactTypes
<1>1. /\ xpc'[a] = "eligible" /\ status'[a] = "none" /\ left'[a] = Entries(a)
      /\ result'[a] = [o \in Objects |-> "none"]
      /\ UNCHANGED <<manifest, tried>>
  BY DEF ExactBegin
<1>2. Entries(a)' = Entries(a) /\ Reported(a)' = {}
  BY <1>1 DEF Entries, Eligible, Reported
<1> QED
  BY <1>1, <1>2, ApprovedForward
  DEF Execution, EntriesAccounted, LeftUntried, EntryJustified, Attempted, Unattempted

LEMMA EndOwn ==
  ASSUME ExactInv, CoreTypeOK(Labels)', Forward, NEW a \in Actions, Ends(a)
  PROVE  Execution(a)'
<1> USE DEF ExactInv, ExactTypes
<1>1. /\ xpc'[a] = "idle" /\ left'[a] = {}
      /\ UNCHANGED <<manifest, tried>>
      /\ status'[a] = "pass" => xpc[a] = "source" /\ left[a] = {} /\ result'[a] = result[a]
  BY DEF Ends, End
<1>2. Entries(a)' = Entries(a)
  BY <1>1 DEF Entries, Eligible
<1>3. EntriesAccounted(a)'
  BY <1>1, <1>2 DEF Execution, EntriesAccounted, Reported
<1> QED
  BY <1>1, <1>3, ApprovedForward
  DEF Execution, LeftUntried, EntryJustified, Attempted

\* Where the rows are as approved, nothing has been tried under the approval.
LEMMA ProjectedUntried ==
  ASSUME ExactInv, NEW a \in Actions, AuthoritySnapshot = ApprovedAuthority(a)
  PROVE  tried[a] = {}
<1> SUFFICES ASSUME NEW o \in tried[a] PROVE FALSE
  OBVIOUS
<1>1. /\ o \in Eligible(a) /\ o \in Objects
      /\ state[o] # "ABSENT"
      /\ manifest[a][o].row[1] # "ABSENT" => manifest[a][o].row[2] < attempts[o]
  BY DEF ExactInv, ExactTypes, Execution, TriedRows
<1>2. o \in DOMAIN AuthoritySnapshot
  BY <1>1 DEF AuthoritySnapshot
<1>3. o \in DOMAIN ApprovedAuthority(a)
  BY <1>2
<1>4. manifest[a][o].row[1] # "ABSENT"
  BY <1>3 DEF ApprovedAuthority
<1>5. manifest[a][o].row = Row(o)
  <2>1. AuthoritySnapshot[o] = Row(o)
    BY <1>1 DEF AuthoritySnapshot
  <2>2. ApprovedAuthority(a)[o] = manifest[a][o].row
    BY <1>1, <1>4 DEF ApprovedAuthority
  <2> QED
    BY <2>1, <2>2
<1>6. manifest[a][o].row[2] = attempts[o]
  BY <1>5 DEF Row
<1>7. attempts[o] \in Nat
  BY <1>1, CoreAssumption DEF ExactInv, GcsInv, CoreInv, CoreTypeOK
<1> QED
  BY <1>1, <1>4, <1>6, <1>7

LEMMA MoveOwn ==
  ASSUME ExactInv, CoreTypeOK(Labels)', Forward, NEW a \in Actions, Moves(a)
  PROVE  Execution(a)'
<1> USE DEF ExactInv, ExactTypes
<1>1. PICK l \in ExactLabels \ {"idle", "confirm"} :
        /\ Advance(a, l)
        /\ xpc[a] # "idle"
        /\ l = "target" => AuthoritySnapshot = ApprovedAuthority(a)
        /\ l \in Unattempted => xpc[a] \in {"target"} \cup Unattempted
        /\ l \in Attempted => xpc[a] \in Attempted
        /\ l \in {"noting", "recording"} => xpc[a] \in Attempted \cup {"noting"}
        /\ l = "mark" => \A o \in Objects : Entry(a, o) => replica[o] = "exact"
  BY DEF Moves
<1>2. xpc'[a] = l /\ UNCHANGED <<manifest, left, result, status, tried>>
  BY <1>1 DEF Advance
<1>3. /\ Entries(a)' = Entries(a) /\ Reported(a)' = Reported(a)
      /\ \A o : Entry(a, o)' <=> Entry(a, o)
  BY <1>2 DEF Entries, Eligible, Reported, Entry
<1>4. EntriesAccounted(a)'
  BY <1>1, <1>2, <1>3 DEF Execution, EntriesAccounted
<1>5. LeftUntried(a)'
  <2>1. CASE l = "target"
    BY <1>1, <1>2, <2>1, ProjectedUntried DEF LeftUntried
  <2>2. CASE l \in Unattempted
    BY <1>1, <1>2, <2>2 DEF Execution, LeftUntried
  <2>3. CASE l \in Attempted \cup {"noting", "recording"}
    <3>1. xpc[a] \in Attempted \cup {"noting"}
      BY <1>1, <2>3
    <3>2. l \notin {"target"} \cup Unattempted
      BY <2>3 DEF Attempted, Unattempted
    <3> QED
      BY <1>2, <1>3, <3>1, <3>2 DEF Execution, LeftUntried
  <2>4. CASE l \in {"eligible", "authority"}
    BY <1>2, <2>4 DEF LeftUntried, Unattempted, Attempted
  <2> QED
    BY <2>1, <2>2, <2>3, <2>4 DEF ExactLabels
<1>6. EntryJustified(a)'
  <2> SUFFICES ASSUME NEW o \in Objects, Entry(a, o)
               PROVE  /\ l \in Attempted => state'[o] # "ABSENT"
                      /\ l \in {"mark", "confirm"} => replica'[o] = "exact"
    BY <1>2, <1>3 DEF EntryJustified
  <2>1. l \in Attempted => state'[o] # "ABSENT"
    BY <1>1 DEF Execution, EntryJustified, Forward, RowsMonotone
  <2>2. l = "mark" => replica'[o] = "exact"
    BY <1>1 DEF Forward
  <2> QED
    BY <1>1, <2>1, <2>2
<1> QED
  BY <1>2, <1>4, <1>5, <1>6, ApprovedForward DEF Execution

\* The attempt is committed before the entry goes on, and counts against the approval.
LEMMA AttemptOwn ==
  ASSUME ExactInv, CoreTypeOK(Labels)', Forward, NEW a \in Actions, Attempts(a)
  PROVE  Execution(a)'
<1> USE DEF ExactInv, ExactTypes
<1>1. PICK o \in Objects :
        /\ xpc[a] = "attempt"
        /\ Entry(a, o)
        /\ state[o] = "PENDING"
        /\ attempts' = [attempts EXCEPT ![o] = @ + 1]
        /\ xpc' = [xpc EXCEPT ![a] = "again"]
        /\ tried' = [tried EXCEPT ![a] = @ \cup {o}]
        /\ UNCHANGED <<state, manifest, left, result, status>>
  BY DEF Attempts
<1>2. xpc'[a] = "again" /\ tried'[a] = tried[a] \cup {o}
  BY <1>1
<1>3. /\ Entries(a)' = Entries(a) /\ Reported(a)' = Reported(a) /\ Eligible(a)' = Eligible(a)
      /\ \A p : Entry(a, p)' <=> Entry(a, p)
  BY <1>1 DEF Entries, Eligible, Reported, Entry
<1>4. EntriesAccounted(a)'
  BY <1>1, <1>3 DEF Execution, EntriesAccounted
<1>5. \A p \in Objects : attempts[p] \in Nat /\ attempts'[p] \in Nat
  BY CoreAssumption DEF GcsInv, CoreInv, CoreTypeOK
<1>6. TriedRows(a)'
  <2> SUFFICES ASSUME NEW p \in tried[a] \cup {o}
               PROVE  /\ p \in Eligible(a)
                      /\ state[p] # "ABSENT"
                      /\ manifest[a][p].row[1] # "ABSENT" => manifest[a][p].row[2] < attempts'[p]
    BY <1>1, <1>2, <1>3 DEF TriedRows
  <2>1. o \in Eligible(a) /\ manifest[a][o].row[2] \in Nat
    <3>1. o \in Entries(a)
      BY <1>1 DEF Execution, EntriesAccounted, Entry
    <3> QED
      BY <3>1, ManifestRows DEF Entries
  <2>2. CASE p = o
    <3>1. manifest[a][o].row[1] # "ABSENT" => manifest[a][o].row[2] <= attempts[o]
      BY <2>1 DEF Execution, ApprovedRows
    <3>2. attempts'[o] = attempts[o] + 1
      BY <1>1 DEF GcsInv, CoreInv, CoreTypeOK
    <3> QED
      BY <1>1, <1>5, <2>1, <2>2, <3>1, <3>2
  <2>3. CASE p \in tried[a]
    <3>1. /\ p \in Eligible(a) /\ p \in Objects
          /\ state[p] # "ABSENT"
          /\ manifest[a][p].row[1] # "ABSENT" => manifest[a][p].row[2] < attempts[p]
      BY <2>3 DEF Execution, TriedRows
    <3>2. attempts[p] <= attempts'[p] /\ manifest[a][p].row[2] \in Nat
      BY <3>1, ManifestRows DEF Forward, RowsMonotone
    <3> QED
      BY <1>5, <3>1, <3>2
  <2> QED
    BY <2>2, <2>3
<1>7. LeftUntried(a)'
  BY <1>1, <1>2, <1>3 DEF Execution, LeftUntried, Unattempted
<1>8. EntryJustified(a)'
  BY <1>1, <1>2, <1>3, EntryUnique DEF EntryJustified
<1>9. ApprovedRows(a)'
  BY <1>1, ApprovedForward
<1> QED
  BY <1>4, <1>6, <1>7, <1>8, <1>9 DEF Execution

LEMMA MarkOwn ==
  ASSUME ExactInv, CoreTypeOK(Labels)', Forward, NEW a \in Actions, Marks(a)
  PROVE  Execution(a)'
<1> USE DEF ExactInv, ExactTypes
<1>1. /\ xpc[a] = "mark" /\ xpc'[a] = "confirm"
      /\ UNCHANGED <<manifest, left, result, status, tried, replica>>
  BY DEF Marks, Advance
<1>2. /\ Entries(a)' = Entries(a) /\ Reported(a)' = Reported(a)
      /\ \A o : Entry(a, o)' <=> Entry(a, o)
  BY <1>1 DEF Entries, Eligible, Reported, Entry
<1>3. EntriesAccounted(a)'
  BY <1>1, <1>2 DEF Execution, EntriesAccounted
<1>4. LeftUntried(a)'
  BY <1>1, <1>2 DEF Execution, LeftUntried, Attempted, Unattempted
<1>5. EntryJustified(a)'
  BY <1>1, <1>2 DEF Execution, EntryJustified, Forward, RowsMonotone, Attempted
<1> QED
  BY <1>1, <1>3, <1>4, <1>5, ApprovedForward DEF Execution

\* An entry leaves the list when it has its result, and the next one is taken up.
LEMMA ConfirmOwn ==
  ASSUME ExactInv, CoreTypeOK(Labels)', Forward, NEW a \in Actions, Confirms(a)
  PROVE  Execution(a)'
<1> USE DEF ExactInv, ExactTypes
<1>1. PICK o \in Objects, r \in {"published", "adopted"} :
        /\ xpc[a] = "confirm"
        /\ Entry(a, o)
        /\ result' = [result EXCEPT ![a][o] = r]
        /\ left' = [left EXCEPT ![a] = @ \ {o}]
        /\ xpc' = [xpc EXCEPT ![a] = "source"]
        /\ UNCHANGED <<manifest, status, tried>>
  BY DEF Confirms
<1>2. xpc'[a] = "source" /\ left'[a] = left[a] \ {o} /\ o \in left[a]
  BY <1>1 DEF Entry
<1>3. Entries(a)' = Entries(a)
  BY <1>1 DEF Entries, Eligible
<1>4. Reported(a)' = Reported(a) \cup {o}
  BY <1>1 DEF Reported
<1>5. EntriesAccounted(a)'
  BY <1>1, <1>2, <1>3, <1>4 DEF Execution, EntriesAccounted
<1>6. LeftUntried(a)'
  <2>1. \A p \in left[a] \cap tried[a] : Entry(a, p) /\ p \in Objects
    BY <1>1 DEF Execution, LeftUntried, Attempted
  <2>2. left'[a] \cap tried[a] = {}
    BY <1>1, <1>2, <2>1, EntryUnique
  <2> QED
    BY <1>1, <2>2 DEF LeftUntried
<1>7. EntryJustified(a)'
  BY <1>2 DEF EntryJustified, Attempted
<1> QED
  BY <1>1, <1>5, <1>6, <1>7, ApprovedForward DEF Execution

LEMMA ExecutionKeeps ==
  ASSUME ExactInv, NEW a \in Actions, ExecutionStep(a)
  PROVE  \A b \in Actions : Execution(b)'
<1>1. Forward /\ CoreTypeOK(Labels)'
  BY ExecutionForward DEF ExactInv, GcsInv, CoreInv
<1>2. Execution(a)'
  BY <1>1, ExecutionForms, ExecutionTypes, ApproveOwn, BeginOwn, EndOwn, MoveOwn, AttemptOwn,
     MarkOwn, ConfirmOwn DEF ExactInv
<1>3. \A b \in Actions \ {a} : Execution(b)'
  BY <1>1, ExecutionTypes, ExecutionStays
<1> QED
  BY <1>2, <1>3

\* Whoever claims a row for the first time has found it PENDING.
LEMMA ExecutionClaims ==
  ASSUME ExactInv, NEW a \in Actions, ExecutionStep(a)
  PROVE  /\ \A o \in Claimed(a)' \ Claimed(a) : state[o] = "PENDING" /\ state'[o] = "VERIFIED"
         /\ \A b \in Actions \ {a} : Claimed(b)' = Claimed(b)
<1> USE DEF ExactInv, ExactTypes
<1>1. \A b \in Actions \ {a} : Claimed(b)' = Claimed(b)
  BY ExecutionTypes DEF Claimed, Reported, Entry
<1>2. CASE Approve(a) \/ ExactBegin(a) \/ Moves(a) \/ Attempts(a)
  <2>1. xpc'[a] # "confirm" /\ Reported(a)' \subseteq Reported(a)
    BY <1>2 DEF Approve, ExactBegin, Moves, Advance, Attempts, Reported
  <2> QED
    BY <1>1, <2>1 DEF Claimed
<1>3. CASE Ends(a)
  <2>1. PICK r \in [Objects -> Results] :
          /\ xpc'[a] = "idle" /\ result'[a] = r
          /\ \A o \in Objects : r[o] \in {"published", "adopted"} => r[o] = result[a][o]
    BY <1>3 DEF Ends, End
  <2> QED
    BY <1>1, <2>1 DEF Claimed, Reported
<1>4. CASE Marks(a)
  <2>1. PICK o \in Objects : /\ Entry(a, o)
                             /\ state[o] = "PENDING"
                             /\ state' = [state EXCEPT ![o] = "VERIFIED"]
                             /\ UNCHANGED <<left, result>>
    BY <1>4 DEF Marks, Advance
  <2>2. Reported(a)' = Reported(a) /\ \A p : Entry(a, p)' <=> Entry(a, p)
    BY <2>1 DEF Reported, Entry
  <2>3. state'[o] = "VERIFIED"
    BY <2>1 DEF GcsInv, CoreInv, CoreTypeOK
  <2> QED
    BY <1>1, <2>1, <2>2, <2>3, EntryUnique DEF Claimed
<1>5. CASE Confirms(a)
  <2>1. PICK o \in Objects, r \in {"published", "adopted"} :
          /\ xpc[a] = "confirm" /\ Entry(a, o)
          /\ result' = [result EXCEPT ![a][o] = r]
          /\ xpc'[a] = "source"
    BY <1>5 DEF Confirms
  <2>2. Reported(a)' = Reported(a) \cup {o}
    BY <2>1 DEF Reported
  <2> QED
    BY <1>1, <2>1, <2>2 DEF Claimed
<1> QED
  BY <1>2, <1>3, <1>4, <1>5, ExecutionForms

LEMMA NextCredits ==
  ASSUME CoreTypeOK(Labels), [Next]_vars
  PROVE  \A v \in Workers : Credited(v)' \subseteq Credited(v) \cup Pending
<1> USE DEF Credited, loopVars
<1>1. ASSUME NEW w \in Workers, CoreStep(w)
      PROVE  \A v \in Workers : Credited(v)' \subseteq Credited(v) \cup Pending
  BY <1>1, CoreStepCredits
<1>2. CASE \E w \in Workers, o \in Objects : \/ Cleaned(w, o)
                                             \/ Inspected(w, o, replica[o])
                                             \/ Verify(w, o, replica[o])
  BY <1>2 DEF Cleaned, Inspected, Verify, Raise, CoreTypeOK
<1>3. CASE \E w \in Workers : PublishStep(w) \/ Abort(w) \/ \E c \in Commands : Begin(w, c)
  BY <1>3 DEF PublishStep, UploadCreates, UploadAnswerLost, UploadRefused, InspectExisting,
     ReadBack, TargetFails, Failing, Abort, Raise, Begin, CoreTypeOK
<1>4. CASE EnvStep \/ UNCHANGED vars
  BY <1>4 DEF EnvStep, Finalize, SourceChanges, vars, coreVars
<1> QED
  BY <1>1, <1>2, <1>3, <1>4, NextCases

LEMMA ClaimsKept ==
  ASSUME ExactInv, GcsInv', RowsMonotone,
         \A b \in Actions : \A o \in Claimed(b)' \ Claimed(b) :
            /\ state[o] = "PENDING" /\ state'[o] = "VERIFIED"
            /\ \A c \in Actions \ {b} : o \notin Claimed(c)' \ Claimed(c)
            /\ \A w \in Workers : Credited(w)' = Credited(w),
         \A w \in Workers : Credited(w)' \subseteq Credited(w) \cup Pending
  PROVE  ClaimsDisjoint'
<1>1. /\ \A a \in Actions : Claimed(a) \subseteq Verified /\ Claimed(a)' \subseteq Objects
      /\ Verified \cap Pending = {} /\ Verified \subseteq Verified'
  BY DEF ExactInv, ClaimsDisjoint, Claimed, Reported, Verified, Pending, RowsMonotone
<1>2. \A o \in Objects : state[o] = "PENDING" => o \notin Verified
  BY DEF Verified
<1>3. \A w \in Workers : Credited(w) \subseteq Verified
  BY DEF ExactInv, GcsInv, CoreInv, CreditedOnce
<1>4. ASSUME NEW a \in Actions
      PROVE  Claimed(a)' \subseteq Verified'
  BY <1>1 DEF Verified
<1>5. ASSUME NEW a \in Actions, NEW w \in Workers
      PROVE  Claimed(a)' \cap Credited(w)' = {}
  <2> SUFFICES ASSUME NEW o \in Claimed(a)', o \in Credited(w)' PROVE FALSE
    OBVIOUS
  <2>1. CASE o \in Claimed(a)
    <3>1. o \notin Pending /\ o \notin Credited(w)
      BY <1>1, <2>1 DEF ExactInv, ClaimsDisjoint
    <3> QED
      BY <3>1
  <2>2. CASE o \notin Claimed(a)
    BY <1>1, <1>2, <1>3, <2>2
  <2> QED
    BY <2>1, <2>2
<1>6. ASSUME NEW a \in Actions, NEW b \in Actions, a # b
      PROVE  Claimed(a)' \cap Claimed(b)' = {}
  <2> SUFFICES ASSUME NEW o \in Claimed(a)', o \in Claimed(b)' PROVE FALSE
    OBVIOUS
  <2>1. ~ (o \in Claimed(a) /\ o \in Claimed(b))
    BY <1>6 DEF ExactInv, ClaimsDisjoint
  <2>2. o \in Objects
    BY <1>1
  <2> QED
    BY <1>1, <1>2, <1>6, <2>1, <2>2
<1> QED
  BY <1>4, <1>5, <1>6 DEF ClaimsDisjoint

LEMMA ExactCases ==
  ASSUME [ExactNext]_allVars
  PROVE  \/ [Next]_vars /\ UNCHANGED exactVars
         \/ \E a \in Actions : ExecutionStep(a)
  BY DEF ExactNext, allVars, ExecutionStep

LEMMA ExactInvInit == ExactInit => ExactInv
<1> SUFFICES ASSUME ExactInit PROVE ExactInv
  OBVIOUS
<1>1. GcsInv
  BY GcsInvInit DEF ExactInit
<1>2. ExactTypes
  <2>1. <<>> \in Manifests
    <3>1. <<>> \in [{} -> Projections]
      OBVIOUS
    <3> QED
      BY <3>1 DEF Manifests
  <2> QED
    BY <2>1 DEF ExactInit, ExactTypes, ExactLabels, Results
<1>3. \A a \in Actions : Execution(a)
  <2> SUFFICES ASSUME NEW a \in Actions PROVE Execution(a)
    OBVIOUS
  <2>1. /\ xpc[a] = "idle" /\ status[a] = "none" /\ left[a] = {} /\ tried[a] = {}
        /\ Eligible(a) = {}
    BY DEF ExactInit, Eligible
  <2> QED
    BY <2>1 DEF Execution, EntriesAccounted, ApprovedRows, TriedRows, LeftUntried,
       EntryJustified, Attempted
<1>4. ClaimsDisjoint
  BY DEF ExactInit, ClaimsDisjoint, Claimed, Reported
<1> QED
  BY <1>1, <1>2, <1>3, <1>4 DEF ExactInv

\* A step of the worker beside the executions.
LEMMA WorkerKeeps ==
  ASSUME ExactInv, [Next]_vars, UNCHANGED exactVars
  PROVE  ExactInv'
<1>1. GcsInv' /\ Forward /\ CoreTypeOK(Labels)'
  BY GcsInvNext, WorkerForward DEF ExactInv, GcsInv, CoreInv
<1>2. ExactTypes'
  BY DEF ExactInv, ExactTypes, exactVars
<1>3. \A a \in Actions : Execution(a)'
  BY <1>1, ExecutionStays DEF exactVars
<1>4. ClaimsDisjoint'
  <2>1. \A a \in Actions : Claimed(a)' = Claimed(a)
    BY DEF exactVars, Claimed, Reported, Entry
  <2>2. \A w \in Workers : Credited(w)' \subseteq Credited(w) \cup Pending
    BY NextCredits DEF ExactInv, GcsInv, CoreInv
  <2> QED
    BY <1>1, <2>1, <2>2, ClaimsKept DEF Forward
<1> QED
  BY <1>1, <1>2, <1>3, <1>4 DEF ExactInv

LEMMA ExecutionInv ==
  ASSUME ExactInv, NEW a \in Actions, ExecutionStep(a)
  PROVE  ExactInv'
<1>1. GcsInv' /\ Forward
  BY ExecutionKeepsGcs, ExecutionForward DEF ExactInv, GcsInv, CoreInv
<1>2. ExactTypes' /\ \A b \in Actions : Execution(b)'
  BY ExecutionTypes, ExecutionKeeps
<1>3. ClaimsDisjoint'
  <2>1. \A w \in Workers : Credited(w)' = Credited(w)
    <3>1. UNCHANGED loopVars
      BY ExecutionWrites DEF ExactInv, GcsInv, CoreInv
    <3> QED
      BY <3>1 DEF loopVars, Credited
  <2>2. /\ \A o \in Claimed(a)' \ Claimed(a) : state[o] = "PENDING" /\ state'[o] = "VERIFIED"
        /\ \A b \in Actions \ {a} : Claimed(b)' = Claimed(b)
    BY ExecutionClaims
  <2> QED
    BY <1>1, <2>1, <2>2, ClaimsKept DEF Forward
<1> QED
  BY <1>1, <1>2, <1>3 DEF ExactInv

\* The inductive invariant of executions beside the worker: what each has approved,
\* attempted, marked and reported against the rows and the bucket.
THEOREM ExactInvariant == ExactSpec => []ExactInv
<1>1. ExactInv /\ [ExactNext]_allVars => ExactInv'
  BY ExactCases, WorkerKeeps, ExecutionInv
<1> QED
  BY <1>1, ExactInvInit, PTL DEF ExactSpec

\* Every variable of the executions keeps its type, and those of the worker too.
THEOREM ExactTyped == ExactSpec => []ExactTypeOK
<1>1. ExactInv => ExactTypeOK
  <2> SUFFICES ASSUME ExactInv PROVE ExactTypeOK
    OBVIOUS
  <2>1. GcsTypeOK
    BY DEF ExactInv, GcsInv, CoreInv, GcsTypeOK
  <2>2. \A a \in Actions : /\ DOMAIN manifest[a] \subseteq Objects
                           /\ \A o \in DOMAIN manifest[a] : manifest[a][o] \in Projections
    BY DEF ExactInv, ExactTypes, Manifests
  <2> QED
    BY <2>1, <2>2 DEF ExactInv, ExactTypes, ExactTypeOK, Results
<1> QED
  BY <1>1, ExactInvariant, PTL

\* What an execution reports is true, however many run beside each other and beside
\* any commands: a reported entry is VERIFIED and nobody else counts it, and "pass"
\* means a result for every approved entry.
THEOREM ReportsAreTrue == ExactSpec => []ReportIsTrue
<1>1. ExactInv => ReportIsTrue
  BY DEF ExactInv, Execution, EntriesAccounted, ClaimsDisjoint, Claimed, ReportIsTrue
<1> QED
  BY <1>1, ExactInvariant, PTL

\* No entry is attempted twice under one approval, wherever an execution has died and
\* however often the manifest is handed in again.
THEOREM ApprovalsUsedOnce == ExactSpec => OncePerApproval
<1>1. ExactInv =>
        \A a \in Actions : \A o \in tried[a] : ~ (xpc[a] = "attempt" /\ Entry(a, o))
  BY DEF ExactInv, Execution, LeftUntried, Unattempted, Entry
<1>2. ExactInv /\ [ExactNext]_allVars =>
        [\A a \in Actions : \A o \in tried[a] :
           ~ (xpc[a] = "attempt" /\ Entry(a, o) /\ xpc'[a] = "again")]_xpc
  BY <1>1
<1> QED
  BY <1>2, ExactInvariant, PTL DEF ExactSpec, OncePerApproval

LEMMA ExactForward ==
  ASSUME ExactInv, [ExactNext]_allVars
  PROVE  Forward
  BY ExactCases, WorkerForward, ExecutionForward DEF ExactInv, GcsInv, CoreInv

\* No execution and no command changes a column of a VERIFIED row.
THEOREM ExactRowsFinal == ExactSpec => VerifiedIsFinal
<1>1. ExactInv /\ [ExactNext]_allVars =>
        [\A o \in Objects : state[o] = "VERIFIED" =>
           /\ state'[o] = "VERIFIED"
           /\ attempts'[o] = attempts[o]
           /\ last_error'[o] = last_error[o]]_dbVars
  BY ExactForward DEF Forward, RowsMonotone
<1> QED
  BY <1>1, ExactInvariant, PTL DEF ExactSpec, VerifiedIsFinal

LEMMA ExecutionSimulation ==
  ASSUME ExactInv, NEW a \in Actions, ExecutionStep(a)
  PROVE  [Authority!Next]_(Authority!vars)
<1> USE DEF ExactInv, GcsInv, CoreInv, Authority!Next, Authority!vars
<1>1. CASE UNCHANGED <<state, replica>>
  BY <1>1
<1>2. ASSUME NEW o \in Objects, Writes(a, o), ~ UNCHANGED <<state, replica>>
      PROVE  [Authority!Next]_(Authority!vars)
  <2>1. CASE state[o] = "ABSENT"
    <3>1. state' = [state EXCEPT ![o] = "PENDING"] /\ UNCHANGED replica
      BY <1>2, <2>1 DEF Writes, Execution, EntryJustified, Attempted
    <3>2. Authority!Register({o})
      BY <2>1, <3>1 DEF Authority!Register, CoreTypeOK
    <3> QED
      BY <3>2
  <2>2. CASE state[o] # "ABSENT" /\ xpc[a] = "upload"
    <3>1. PICK b \in {"exact", "wrong"} : /\ replica[o] = "absent"
                                          /\ replica' = [replica EXCEPT ![o] = b]
                                          /\ UNCHANGED state
      BY <1>2, <2>2 DEF Writes, dbVars
    <3>2. Authority!Create(o, b)
      BY <2>2, <3>1 DEF Authority!Create
    <3> QED
      BY <3>2 DEF Authority!Bytes
  <2>3. CASE state[o] # "ABSENT" /\ xpc[a] # "upload"
    <3>1. /\ Entry(a, o) /\ xpc[a] = "mark"
          /\ state[o] = "PENDING"
          /\ state' = [state EXCEPT ![o] = "VERIFIED"]
          /\ UNCHANGED replica
      BY <1>2, <2>3 DEF Writes
    <3>2. replica[o] = "exact"
      BY <3>1 DEF Execution, EntryJustified
    <3>3. Authority!MarkVerified(o)
      BY <3>1, <3>2 DEF Authority!MarkVerified
    <3> QED
      BY <3>3
  <2> QED
    BY <2>1, <2>2, <2>3
<1> QED
  BY <1>1, <1>2, ExecutionWrites DEF dbVars

\* Executions beside the worker promise no less than the worker alone does.
THEOREM ExactRefinement == ExactSpec => ImplementsAuthority
<1>1. ExactInit => Authority!Init
  BY DEF ExactInit, Init, CoreInit, Authority!Init, Authority!Bytes
<1>2. ExactInv /\ [ExactNext]_allVars => [Authority!Next]_(Authority!vars)
  BY ExactCases, StepSimulation, ExecutionSimulation DEF ExactInv
<1> QED
  BY <1>1, <1>2, ExactInvariant, PTL DEF ExactSpec, ImplementsAuthority, Authority!Spec
=============================================================================
