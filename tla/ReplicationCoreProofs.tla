------------------------ MODULE ReplicationCoreProofs ------------------------
(***************************************************************************)
(* What the provider-neutral core keeps invariant whatever the target      *)
(* does: the lemmas that the proofs about both adapters rest on.           *)
(***************************************************************************)
EXTENDS ReplicationCore, TLAPS

-----------------------------------------------------------------------------
(* The inductive invariant of the core *)

\* Where an invocation is while no object of the publishing loop is in hand.
Outside == {"idle", "clean", "inspect", "adopt", "discover", "register", "list", "verify"}

\* What a run discovered is registered when it lists, and while it loops each
\* discovered object is still on its list or VERIFIED.
FoundAccounted ==
  \A w \in Workers :
    /\ pc[w] = "list" => \A o \in found[w] : state[o] # "ABSENT"
    /\ pc[w] \notin Outside => found[w] \subseteq todo[w] \cup Verified

\* An invocation under way has not passed, and a read-only one is a verify.
Underway ==
  \A w \in Workers :
    /\ pc[w] # "idle" => outcome[w] # "pass"
    /\ pc[w] = "verify" => cmd[w] = "verify"

CoreInv(L) ==
  /\ CoreTypeOK(L)
  /\ FoundAccounted
  /\ Underway
  /\ PassMeansVerified
  /\ CreditedOnce

-----------------------------------------------------------------------------
(* Type correctness *)

LEMMA CoreTypeInit ==
  ASSUME NEW L, CoreLabels \subseteq L, CoreInit
  PROVE  CoreTypeOK(L)
  BY CoreAssumption DEF CoreInit, CoreTypeOK, CoreLabels, Findings, Commands

LEMMA FinalizedObjects ==
  ASSUME NEW L, CoreTypeOK(L)
  PROVE  Finalized \subseteq Objects
  BY CoreAssumption DEF CoreTypeOK, Finalized

\* The ways a command leaves an object: each keeps every type.
LEMMA RaiseType ==
  ASSUME NEW L, CoreLabels \subseteq L, CoreTypeOK(L), NEW w \in Workers,
         NEW f \in Findings \cup {"crashed"}, Raise(w, f),
         UNCHANGED <<dbVars, envVars>>
  PROVE  CoreTypeOK(L)'
  BY DEF Raise, Goto, CoreTypeOK, CoreLabels, dbVars, envVars

LEMMA MarkType ==
  ASSUME NEW L, CoreLabels \subseteq L, CoreTypeOK(L), NEW w \in Workers,
         NEW o \in Objects, NEW l \in L, l # "fail", MarkVerified(w, o, l)
  PROVE  CoreTypeOK(L)'
<1>1. CASE state[o] = "PENDING"
  <2>1. /\ state' \in [Objects -> {"ABSENT", "PENDING", "VERIFIED"}]
        /\ last_error' \in [Objects -> Findings \cup {"none"}]
    BY <1>1 DEF MarkVerified, CoreTypeOK
  <2>2. /\ todo' \in [Workers -> SUBSET Objects]
        /\ published' \in [Workers -> SUBSET Objects]
        /\ adopted' \in [Workers -> SUBSET Objects]
    BY <1>1 DEF MarkVerified, CoreTypeOK
  <2>3. /\ pc' \in [Workers -> L]
        /\ \A v \in Workers : pc'[v] = "fail" => outcome'[v] \in Findings
    BY <1>1 DEF MarkVerified, CoreTypeOK, Goto
  <2> QED
    BY <1>1, <2>1, <2>2, <2>3 DEF MarkVerified, CoreTypeOK, envVars
<1>2. CASE state[o] # "PENDING"
  <2>1. Raise(w, "replica_authority_conflict") /\ UNCHANGED <<dbVars, envVars>>
    BY <1>2 DEF MarkVerified
  <2> QED
    BY <2>1, RaiseType DEF Findings
<1> QED
  BY <1>1, <1>2

LEMMA CoreStepType ==
  ASSUME NEW L, CoreLabels \subseteq L, CoreTypeOK(L), NEW w \in Workers, CoreStep(w)
  PROVE  CoreTypeOK(L)'
<1> USE DEF CoreTypeOK, CoreLabels, dbVars, envVars, loopVars, Goto, Return, Failing
<1>1. CASE ReconcileMark(w)
  BY <1>1, MarkType DEF ReconcileMark
<1>2. CASE ReconcileEnd(w)
  BY <1>2 DEF ReconcileEnd
<1>3. CASE Discover(w)
  <2>1. CASE Raise(w, "local_source_corrupt") /\ UNCHANGED <<dbVars, envVars>>
    BY <2>1, RaiseType DEF Findings
  <2>2. CASE /\ found' = [found EXCEPT ![w] = Finalized]
             /\ Goto(w, "register")
             /\ UNCHANGED <<dbVars, envVars, cmd, todo, published, adopted, outcome>>
    BY <2>2, FinalizedObjects
  <2> QED
    BY <1>3, <2>1, <2>2 DEF Discover
<1>4. CASE RegisterDiscovered(w)
  BY <1>4 DEF RegisterDiscovered
<1>5. CASE ListPending(w)
  BY <1>5 DEF ListPending, Pending
<1>6. CASE RecordAttempt(w)
  <2>1. CASE Raise(w, "replica_authority_conflict") /\ UNCHANGED <<dbVars, envVars>>
    BY <2>1, RaiseType DEF Findings
  <2>2. PICK o \in Objects :
          \/ /\ attempts' = [attempts EXCEPT ![o] = IF @ < MaxAttempts THEN @ + 1 ELSE @]
             /\ last_error' = [last_error EXCEPT ![o] = "none"]
             /\ Goto(w, "hash")
             /\ UNCHANGED <<state, loopVars, outcome>>
          \/ Raise(w, "replica_authority_conflict") /\ UNCHANGED dbVars
    BY <1>6 DEF RecordAttempt
  <2>3. attempts' = [attempts EXCEPT ![o] = IF @ < MaxAttempts THEN @ + 1 ELSE @]
          => attempts' \in [Objects -> 0..MaxAttempts]
    BY CoreAssumption
  <2> QED
    BY <1>6, <2>1, <2>2, <2>3 DEF RecordAttempt
<1>7. CASE HashSource(w)
  BY <1>7 DEF HashSource, Findings
<1>8. CASE RecordFailure(w)
  <2>1. CASE Raise(w, "replica_authority_conflict") /\ UNCHANGED <<dbVars, envVars>>
    BY <2>1, RaiseType DEF Findings
  <2>2. CASE Raise(w, outcome[w])
    <3>1. /\ outcome[w] \in Findings
          /\ UNCHANGED <<state, attempts, envVars>>
      BY <1>8 DEF RecordFailure
    <3>2. last_error' \in [Objects -> Findings \cup {"none"}]
      BY <1>8, <3>1 DEF RecordFailure
    <3> QED
      BY <2>2, <3>1, <3>2 DEF Raise
  <2> QED
    BY <1>8, <2>1, <2>2 DEF RecordFailure
<1>9. CASE RunMark(w)
  BY <1>9, MarkType DEF RunMark
<1>10. CASE RunEnd(w)
  BY <1>10 DEF RunEnd
<1>11. CASE VerifyEnd(w)
  BY <1>11 DEF VerifyEnd
<1> QED
  BY <1>1, <1>2, <1>3, <1>4, <1>5, <1>6, <1>7, <1>8, <1>9, <1>10, <1>11 DEF CoreStep
-----------------------------------------------------------------------------
(* The invariant *)

LEMMA CoreInvInit ==
  ASSUME NEW L, CoreLabels \subseteq L, CoreInit
  PROVE  CoreInv(L)
<1>1. CoreTypeOK(L)
  BY CoreTypeInit
<1> QED
  BY <1>1 DEF CoreInit, CoreInv, FoundAccounted, Underway, PassMeansVerified,
     CreditedOnce, Credited, Outside

\* An exception forgets everything that was counted.
LEMMA RaiseInv ==
  ASSUME NEW L, CoreLabels \subseteq L, CoreInv(L), NEW w \in Workers,
         NEW f \in Findings \cup {"crashed"}, Raise(w, f),
         UNCHANGED state
  PROVE  /\ FoundAccounted'
         /\ Underway'
         /\ PassMeansVerified'
         /\ CreditedOnce'
<1> USE DEF CoreInv, CoreTypeOK, Raise, Goto
<1>1. FoundAccounted'
  BY DEF FoundAccounted, Outside, Verified
<1>2. Underway'
  BY DEF Underway
<1>3. PassMeansVerified'
  BY DEF PassMeansVerified, Verified, Findings
<1>4. CreditedOnce'
  BY DEF CreditedOnce, Credited, Verified
<1> QED
  BY <1>1, <1>2, <1>3, <1>4

\* The guarded UPDATE: a row that is PENDING is on nobody's summary yet.
LEMMA MarkInv ==
  ASSUME NEW L, CoreLabels \subseteq L, CoreInv(L), NEW w \in Workers,
         NEW o \in Objects, MarkVerified(w, o, IF pc[w] = "adopt" THEN "clean" ELSE "attempt"),
         pc[w] \in {"adopt", "created", "present"}
  PROVE  CoreInv(L)'
<1> DEFINE l == IF pc[w] = "adopt" THEN "clean" ELSE "attempt"
<1>1. CoreTypeOK(L)'
  BY MarkType DEF CoreInv, CoreLabels
<1>2. CASE state[o] # "PENDING"
  <2>1. Raise(w, "replica_authority_conflict") /\ UNCHANGED <<dbVars, envVars>>
    BY <1>2 DEF MarkVerified
  <2> QED
    BY <1>1, <2>1, RaiseInv DEF CoreInv, Findings, dbVars
<1>3. CASE state[o] = "PENDING"
  <2>1. /\ Verified' = Verified \cup {o}
        /\ o \notin Verified
    BY <1>3 DEF MarkVerified, Verified, CoreInv, CoreTypeOK
  <2>2. /\ todo' = [todo EXCEPT ![w] = @ \ {o}]
        /\ pc' = [pc EXCEPT ![w] = l]
        /\ UNCHANGED <<cmd, found, outcome>>
    BY <1>3 DEF MarkVerified, Goto
  <2>3. FoundAccounted'
    BY <2>1, <2>2, <1>3 DEF FoundAccounted, Outside, CoreInv, CoreTypeOK, MarkVerified
  <2>4. Underway'
    BY <2>2 DEF Underway, CoreInv, CoreTypeOK
  <2>5. PassMeansVerified'
    BY <2>1, <2>2 DEF PassMeansVerified, CoreInv
  <2>6. CreditedOnce'
    <3>1. \A v \in Workers : v # w => published'[v] = published[v] /\ adopted'[v] = adopted[v]
      BY <1>3 DEF MarkVerified, CoreInv, CoreTypeOK
    <3>2. \/ published'[w] = published[w] \cup {o} /\ adopted'[w] = adopted[w]
          \/ published'[w] = published[w] /\ adopted'[w] = adopted[w] \cup {o}
      BY <1>3 DEF MarkVerified, CoreInv, CoreTypeOK
    <3>3. \A v \in Workers : o \notin Credited(v)
      BY <2>1 DEF CoreInv, CreditedOnce
    <3> QED
      BY <2>1, <3>1, <3>2, <3>3 DEF CoreInv, CreditedOnce, Credited
  <2> QED
    BY <1>1, <2>3, <2>4, <2>5, <2>6 DEF CoreInv
<1> QED
  BY <1>2, <1>3

LEMMA CoreStepInv ==
  ASSUME NEW L, CoreLabels \subseteq L, CoreInv(L), NEW w \in Workers, CoreStep(w)
  PROVE  CoreInv(L)'
<1> USE DEF CoreInv, CoreTypeOK, dbVars, envVars, loopVars, Goto, Return, Failing
<1>0. CoreTypeOK(L)'
  BY CoreStepType
<1>1. CASE ReconcileMark(w)
  BY <1>1, MarkInv DEF ReconcileMark
<1>2. CASE ReconcileEnd(w)
  <2>1. FoundAccounted'
    BY <1>2 DEF ReconcileEnd, FoundAccounted, Outside, Verified
  <2>2. Underway' /\ PassMeansVerified' /\ CreditedOnce'
    BY <1>2 DEF ReconcileEnd, Underway, PassMeansVerified, CreditedOnce, Credited, Verified
  <2> QED
    BY <1>0, <2>1, <2>2
<1>3. CASE Discover(w)
  <2>1. CASE Raise(w, "local_source_corrupt") /\ UNCHANGED <<dbVars, envVars>>
    BY <1>0, <2>1, RaiseInv DEF Findings
  <2>2. CASE /\ found' = [found EXCEPT ![w] = Finalized]
             /\ Goto(w, "register")
             /\ UNCHANGED <<dbVars, envVars, cmd, todo, published, adopted, outcome>>
    <3>1. outcome[w] # "pass"
      BY <1>3 DEF Discover, Underway
    <3> QED
      BY <1>0, <2>2, <3>1 DEF FoundAccounted, Outside, Underway, PassMeansVerified,
         CreditedOnce, Credited, Verified
  <2> QED
    BY <1>3, <2>1, <2>2 DEF Discover
<1>4. CASE RegisterDiscovered(w)
  <2>1. Verified' = Verified /\ \A o \in found[w] : state'[o] # "ABSENT"
    BY <1>4 DEF RegisterDiscovered, Verified
  <2>2. \A o \in Objects : state[o] # "ABSENT" => state'[o] # "ABSENT"
    BY <1>4 DEF RegisterDiscovered
  <2>3. FoundAccounted'
    BY <1>4, <2>1, <2>2 DEF RegisterDiscovered, FoundAccounted, Outside
  <2>4. Underway' /\ PassMeansVerified' /\ CreditedOnce'
    BY <1>4, <2>1 DEF RegisterDiscovered, Underway, PassMeansVerified, CreditedOnce, Credited
  <2> QED
    BY <1>0, <2>3, <2>4
<1>5. CASE ListPending(w)
  <2>1. found[w] \subseteq Pending \cup Verified
    BY <1>5 DEF ListPending, FoundAccounted, Pending, Verified
  <2>2. FoundAccounted'
    BY <1>5, <2>1 DEF ListPending, FoundAccounted, Outside, Verified
  <2>3. Underway' /\ PassMeansVerified' /\ CreditedOnce'
    BY <1>5 DEF ListPending, Underway, PassMeansVerified, CreditedOnce, Credited, Verified
  <2> QED
    BY <1>0, <2>2, <2>3
<1>6. CASE RecordAttempt(w)
  <2>1. CASE Raise(w, "replica_authority_conflict") /\ UNCHANGED dbVars
    BY <1>0, <2>1, RaiseInv DEF Findings
  <2>2. CASE pc[w] = "attempt" /\ Goto(w, "hash") /\ UNCHANGED <<state, loopVars, outcome>>
    BY <1>0, <2>2 DEF FoundAccounted, Outside, Underway, PassMeansVerified, CreditedOnce,
       Credited, Verified
  <2> QED
    BY <1>6, <2>1, <2>2 DEF RecordAttempt
<1>7. CASE HashSource(w)
  <2>1. /\ pc[w] = "hash"
        /\ \E l \in {"publish", "fail"} : Goto(w, l)
        /\ outcome' = outcome \/ outcome' = [outcome EXCEPT ![w] = "local_source_corrupt"]
        /\ UNCHANGED <<state, loopVars>>
    BY <1>7 DEF HashSource
  <2> QED
    BY <1>0, <2>1 DEF FoundAccounted, Outside, Underway, PassMeansVerified, CreditedOnce,
       Credited, Verified
<1>8. CASE RecordFailure(w)
  <2>1. \E f \in Findings : Raise(w, f)
    BY <1>8 DEF RecordFailure, Findings
  <2> QED
    BY <1>0, <1>8, <2>1, RaiseInv DEF RecordFailure
<1>9. CASE RunMark(w)
  BY <1>9, MarkInv DEF RunMark
<1>10. CASE RunEnd(w)
  <2>1. found[w] \subseteq Verified
    BY <1>10 DEF RunEnd, FoundAccounted, Outside
  <2> QED
    BY <1>0, <1>10, <2>1 DEF RunEnd, FoundAccounted, Outside, Underway, PassMeansVerified,
       CreditedOnce, Credited, Verified
<1>11. CASE VerifyEnd(w)
  <2>1. cmd[w] = "verify"
    BY <1>11 DEF VerifyEnd, Underway
  <2> QED
    BY <1>0, <1>11, <2>1 DEF VerifyEnd, FoundAccounted, Outside, Underway,
       PassMeansVerified, CreditedOnce, Credited, Verified
<1> QED
  BY <1>1, <1>2, <1>3, <1>4, <1>5, <1>6, <1>7, <1>8, <1>9, <1>10, <1>11 DEF CoreStep

-----------------------------------------------------------------------------
(* The steps that the adapters share *)

\* A call of publish_immutable that goes on: only the control moves.
LEMMA MoveInv ==
  ASSUME NEW L, CoreLabels \subseteq L, CoreInv(L), NEW w \in Workers,
         pc[w] \notin Outside, NEW l \in L, l \notin Outside \cup {"fail"}, Goto(w, l),
         UNCHANGED <<dbVars, envVars, loopVars, outcome>>
  PROVE  CoreInv(L)'
<1> USE DEF CoreInv, CoreTypeOK, dbVars, envVars, loopVars, Goto
<1>1. CoreTypeOK(L)'
  OBVIOUS
<1> QED
  BY <1>1 DEF FoundAccounted, Outside, Underway, PassMeansVerified, CreditedOnce,
     Credited, Verified

\* A call of publish_immutable that raises.
LEMMA FailingInv ==
  ASSUME NEW L, CoreLabels \subseteq L, CoreInv(L), NEW w \in Workers,
         pc[w] \notin Outside, NEW f \in Findings, Failing(w, f),
         UNCHANGED <<dbVars, envVars>>
  PROVE  CoreInv(L)'
<1> USE DEF CoreInv, CoreTypeOK, CoreLabels, dbVars, envVars, loopVars, Failing, Goto
<1>1. CoreTypeOK(L)'
  OBVIOUS
<1>2. f # "pass"
  BY DEF Findings
<1> QED
  BY <1>1, <1>2 DEF FoundAccounted, Outside, Underway, PassMeansVerified, CreditedOnce,
     Credited, Verified

LEMMA CleanedInv ==
  ASSUME NEW L, CoreLabels \subseteq L, CoreInv(L), NEW w \in Workers,
         NEW o \in Objects, Cleaned(w, o)
  PROVE  CoreInv(L)'
<1> USE DEF CoreInv, CoreTypeOK, CoreLabels, Cleaned, dbVars, envVars, loopVars, Goto
<1>1. CoreTypeOK(L)'
  OBVIOUS
<1> QED
  BY <1>1 DEF FoundAccounted, Outside, Underway, PassMeansVerified, CreditedOnce,
     Credited, Verified

LEMMA InspectedInv ==
  ASSUME NEW L, CoreLabels \subseteq L, CoreInv(L), NEW w \in Workers,
         NEW o \in Objects, NEW there, Inspected(w, o, there)
  PROVE  CoreInv(L)'
<1>1. CASE Raise(w, "destination_collision") /\ UNCHANGED <<dbVars, envVars>>
  <2>1. CoreTypeOK(L)'
    BY <1>1, RaiseType DEF CoreInv, Findings
  <2> QED
    BY <1>1, <2>1, RaiseInv DEF CoreInv, Findings, dbVars
<1>2. CASE /\ pc[w] = "inspect"
           /\ \/ Goto(w, "adopt") /\ UNCHANGED <<loopVars, outcome>>
              \/ /\ todo' = [todo EXCEPT ![w] = @ \ {o}]
                 /\ Goto(w, "clean")
                 /\ UNCHANGED <<cmd, found, published, adopted, outcome>>
           /\ UNCHANGED <<dbVars, envVars>>
  <2>1. CoreTypeOK(L)'
    BY <1>2 DEF CoreInv, CoreTypeOK, CoreLabels, dbVars, envVars, loopVars, Goto
  <2> QED
    BY <1>2, <2>1 DEF CoreInv, CoreTypeOK, dbVars, envVars, loopVars, Goto, FoundAccounted,
       Outside, Underway, PassMeansVerified, CreditedOnce, Credited, Verified
<1> QED
  BY <1>1, <1>2 DEF Inspected

LEMMA VerifyInv ==
  ASSUME NEW L, CoreLabels \subseteq L, CoreInv(L), NEW w \in Workers,
         NEW o \in Objects, NEW there, Verify(w, o, there)
  PROVE  CoreInv(L)'
<1>1. CASE Raise(w, "destination_digest_mismatch") /\ UNCHANGED <<dbVars, envVars>>
  <2>1. CoreTypeOK(L)'
    BY <1>1, RaiseType DEF CoreInv, Findings
  <2> QED
    BY <1>1, <2>1, RaiseInv DEF CoreInv, Findings, dbVars
<1>2. CASE /\ pc[w] = "verify"
           /\ todo' = [todo EXCEPT ![w] = @ \ {o}]
           /\ UNCHANGED <<dbVars, envVars, pc, cmd, found, published, adopted, outcome>>
  <2>1. CoreTypeOK(L)'
    BY <1>2 DEF CoreInv, CoreTypeOK, dbVars, envVars
  <2> QED
    BY <1>2, <2>1 DEF CoreInv, CoreTypeOK, dbVars, envVars, FoundAccounted,
       Outside, Underway, PassMeansVerified, CreditedOnce, Credited, Verified
<1> QED
  BY <1>1, <1>2 DEF Verify

LEMMA BeginInv ==
  ASSUME NEW L, CoreLabels \subseteq L, CoreInv(L), NEW w \in Workers,
         NEW c \in Commands, Begin(w, c)
  PROVE  CoreInv(L)'
<1> USE DEF CoreInv, CoreTypeOK, CoreLabels, Begin, dbVars, envVars, Goto
<1>1. CoreTypeOK(L)'
  BY DEF Pending, Verified
<1> QED
  BY <1>1 DEF FoundAccounted, Outside, Underway, PassMeansVerified, CreditedOnce,
     Credited, Verified

LEMMA AbortInv ==
  ASSUME NEW L, CoreLabels \subseteq L, CoreInv(L), NEW w \in Workers, Abort(w)
  PROVE  CoreInv(L)'
<1>1. CoreTypeOK(L)'
  BY RaiseType DEF CoreInv, Abort
<1> QED
  BY <1>1, RaiseInv DEF CoreInv, Abort, dbVars

LEMMA EnvInv ==
  ASSUME NEW L, CoreLabels \subseteq L, CoreInv(L), EnvStep
  PROVE  CoreInv(L)'
<1> USE DEF CoreInv, CoreTypeOK, EnvStep, Finalize, SourceChanges, dbVars, loopVars
<1>1. CoreTypeOK(L)'
  OBVIOUS
<1> QED
  BY <1>1 DEF FoundAccounted, Outside, Underway, PassMeansVerified, CreditedOnce,
     Credited, Verified

LEMMA StutterInv ==
  ASSUME NEW L, CoreInv(L), UNCHANGED coreVars
  PROVE  CoreInv(L)'
  BY DEF coreVars, dbVars, envVars, loopVars, CoreInv, CoreTypeOK, FoundAccounted, Outside,
     Underway, PassMeansVerified, CreditedOnce, Credited, Verified

-----------------------------------------------------------------------------
(* What one step may do to the rows *)

\* The objects are ordered, so a list has at most one first object.
LEMMA CurrentUnique ==
  ASSUME NEW w \in Workers, NEW o \in Objects, NEW p \in Objects, Current(w, o), Current(w, p)
  PROVE  o = p
<1>1. o <= p /\ p <= o /\ o \in Nat /\ p \in Nat
  BY CoreAssumption DEF Current
<1> QED
  BY <1>1

\* No row is lost, no attempt forgotten, and nothing of a VERIFIED row changes.
RowsMonotone ==
  \A o \in Objects :
    /\ state[o] # "ABSENT" => state'[o] # "ABSENT"
    /\ attempts[o] <= attempts'[o]
    /\ state[o] = "VERIFIED" =>
         /\ state'[o] = "VERIFIED"
         /\ attempts'[o] = attempts[o]
         /\ last_error'[o] = last_error[o]

LEMMA RowsStay ==
  ASSUME NEW L, CoreTypeOK(L), UNCHANGED dbVars
  PROVE  RowsMonotone
<1>1. \A o \in Objects : attempts[o] \in Nat
  BY CoreAssumption DEF CoreTypeOK
<1> QED
  BY <1>1 DEF dbVars, RowsMonotone

\* Whoever else moves rows forward takes nothing from the invariant of the core.
LEMMA RowsInv ==
  ASSUME NEW L, CoreInv(L), CoreTypeOK(L)', RowsMonotone, UNCHANGED <<pc, loopVars, outcome>>
  PROVE  CoreInv(L)'
<1> USE DEF CoreInv, loopVars
<1>1. Verified \subseteq Verified'
  BY DEF RowsMonotone, Verified
<1>2. FoundAccounted'
  <2>1. \A w \in Workers : found[w] \subseteq Objects
    BY DEF CoreTypeOK
  <2> QED
    BY <1>1, <2>1 DEF FoundAccounted, RowsMonotone
<1>3. Underway' /\ PassMeansVerified' /\ CreditedOnce'
  BY <1>1 DEF Underway, PassMeansVerified, CreditedOnce, Credited
<1> QED
  BY <1>2, <1>3

LEMMA CoreStepRows ==
  ASSUME NEW L, CoreTypeOK(L), NEW w \in Workers, CoreStep(w)
  PROVE  RowsMonotone
<1> USE DEF CoreTypeOK, dbVars, RowsMonotone
<1>0. MaxAttempts \in Nat /\ \A o \in Objects : attempts[o] \in Nat
  BY CoreAssumption
<1>1. CASE ReconcileMark(w) \/ RunMark(w)
  <2>1. PICK o \in Objects, l \in {"clean", "attempt"} : MarkVerified(w, o, l)
    BY <1>1 DEF ReconcileMark, RunMark
  <2> QED
    BY <1>0, <2>1 DEF MarkVerified
<1>2. CASE RegisterDiscovered(w)
  BY <1>0, <1>2 DEF RegisterDiscovered
<1>3. CASE RecordAttempt(w)
  <2>1. PICK o \in Objects :
          \/ /\ state[o] = "PENDING"
             /\ attempts' = [attempts EXCEPT ![o] = IF @ < MaxAttempts THEN @ + 1 ELSE @]
             /\ last_error' = [last_error EXCEPT ![o] = "none"]
             /\ UNCHANGED state
          \/ UNCHANGED dbVars
    BY <1>3 DEF RecordAttempt
  <2> QED
    BY <1>0, <2>1
<1>4. CASE RecordFailure(w)
  BY <1>0, <1>4 DEF RecordFailure
<1>5. CASE UNCHANGED dbVars
  BY <1>0, <1>5
<1> QED
  BY <1>1, <1>2, <1>3, <1>4, <1>5 DEF CoreStep, ReconcileEnd, Discover, ListPending, HashSource,
     RunEnd, VerifyEnd

\* Only the worker whose object it is turns a row VERIFIED, when it may mark.
LEMMA CoreStepMarks ==
  ASSUME NEW L, CoreTypeOK(L), NEW w \in Workers, CoreStep(w),
         NEW o \in Objects, state'[o] = "VERIFIED", state[o] # "VERIFIED"
  PROVE  /\ pc[w] \in {"adopt", "created", "present"}
         /\ Current(w, o)
         /\ state[o] = "PENDING"
         /\ state' = [state EXCEPT ![o] = "VERIFIED"]
<1> USE DEF CoreTypeOK, dbVars
<1>1. CASE ReconcileMark(w) \/ RunMark(w)
  <2>1. PICK p \in Objects, l \in {"clean", "attempt"} : Current(w, p) /\ MarkVerified(w, p, l)
    BY <1>1 DEF ReconcileMark, RunMark
  <2>2. p = o
    BY <2>1 DEF MarkVerified
  <2> QED
    BY <1>1, <2>1, <2>2 DEF MarkVerified, ReconcileMark, RunMark
<1>2. CASE RegisterDiscovered(w)
  BY <1>2 DEF RegisterDiscovered
<1>3. CASE UNCHANGED state
  BY <1>3
<1> QED
  BY <1>1, <1>2, <1>3 DEF CoreStep, ReconcileEnd, Discover, ListPending, RecordAttempt,
     HashSource, RecordFailure, RunEnd, VerifyEnd

\* A step of the core leaves the states alone, registers, or marks one row.
LEMMA CoreStepStates ==
  ASSUME NEW L, CoreTypeOK(L), NEW w \in Workers, CoreStep(w)
  PROVE  \/ UNCHANGED state
         \/ \E S \in SUBSET Objects :
              /\ \A o \in S : state[o] = "ABSENT"
              /\ state' = [o \in Objects |-> IF o \in S THEN "PENDING" ELSE state[o]]
         \/ \E o \in Objects : state'[o] = "VERIFIED" /\ state[o] # "VERIFIED"
<1> USE DEF CoreTypeOK, dbVars
<1>1. CASE ReconcileMark(w) \/ RunMark(w)
  <2>1. PICK o \in Objects, l \in {"clean", "attempt"} : MarkVerified(w, o, l)
    BY <1>1 DEF ReconcileMark, RunMark
  <2> QED
    BY <2>1 DEF MarkVerified
<1>2. CASE RegisterDiscovered(w)
  <2> DEFINE S == {o \in found[w] : state[o] = "ABSENT"}
  <2>1. state' = [o \in Objects |-> IF o \in S THEN "PENDING" ELSE state[o]]
    BY <1>2 DEF RegisterDiscovered
  <2> QED
    BY <2>1
<1>3. CASE UNCHANGED state
  BY <1>3
<1> QED
  BY <1>1, <1>2, <1>3 DEF CoreStep, ReconcileEnd, Discover, ListPending, RecordAttempt,
     HashSource, RecordFailure, RunEnd, VerifyEnd

\* A summary counts nothing new but the PENDING row that is being marked.
LEMMA CoreStepCredits ==
  ASSUME NEW L, CoreTypeOK(L), NEW w \in Workers, CoreStep(w)
  PROVE  \A v \in Workers : Credited(v)' \subseteq Credited(v) \cup Pending
<1> USE DEF CoreTypeOK, Credited, Goto, Raise, Failing, Return, loopVars
<1>1. CASE ReconcileMark(w) \/ RunMark(w)
  <2>1. PICK o \in Objects, l \in {"clean", "attempt"} : MarkVerified(w, o, l)
    BY <1>1 DEF ReconcileMark, RunMark
  <2>2. CASE Raise(w, "replica_authority_conflict")
    BY <2>2
  <2>3. CASE /\ state[o] = "PENDING"
             /\ published' = [published EXCEPT ![w] = IF pc[w] = "created" THEN @ \cup {o} ELSE @]
             /\ adopted' = [adopted EXCEPT ![w] = IF pc[w] = "created" THEN @ ELSE @ \cup {o}]
    BY <2>3 DEF Pending
  <2> QED
    BY <2>1, <2>2, <2>3 DEF MarkVerified
<1>2. CASE ReconcileEnd(w) \/ Discover(w) \/ RegisterDiscovered(w) \/ ListPending(w)
  BY <1>2 DEF ReconcileEnd, Discover, RegisterDiscovered, ListPending
<1>3. CASE RecordAttempt(w) \/ HashSource(w) \/ RecordFailure(w) \/ RunEnd(w) \/ VerifyEnd(w)
  BY <1>3 DEF RecordAttempt, HashSource, RecordFailure, RunEnd, VerifyEnd
<1> QED
  BY <1>1, <1>2, <1>3 DEF CoreStep
=============================================================================
