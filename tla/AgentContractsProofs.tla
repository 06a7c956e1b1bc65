------------------------- MODULE AgentContractsProofs -------------------------
(***************************************************************************)
(* What the receipt builder issues, for any snapshots, readings and claims *)
(* that callers may make.                                                  *)
(***************************************************************************)
EXTENDS AgentContracts, TLAPS

-----------------------------------------------------------------------------
(* Classification: the primary code is the one ranked first *)

LEMMA LeastRank ==
  ASSUME NEW S, S \subseteq 1..9, S # {}
  PROVE  \E m \in S : \A n \in S : m <= n
<1>1. PICK n \in S : n \in 1..9
  OBVIOUS
<1>2. \A m \in S : m \in Nat /\ m >= 1 /\ m <= 9
  OBVIOUS
<1>3. n = 1 \/ n = 2 \/ n = 3 \/ n = 4 \/ n = 5 \/ n = 6 \/ n = 7 \/ n = 8 \/ n = 9
  BY <1>1
<1>4. CASE 1 \in S
  BY <1>2, <1>4
<1>5. CASE 1 \notin S /\ 2 \in S
  BY <1>2, <1>5
<1>6. CASE 1 \notin S /\ 2 \notin S /\ 3 \in S
  BY <1>2, <1>6
<1>7. CASE 1 \notin S /\ 2 \notin S /\ 3 \notin S /\ 4 \in S
  BY <1>2, <1>7
<1>8. CASE 1 \notin S /\ 2 \notin S /\ 3 \notin S /\ 4 \notin S /\ 5 \in S
  BY <1>2, <1>8
<1>9. CASE 1 \notin S /\ 2 \notin S /\ 3 \notin S /\ 4 \notin S /\ 5 \notin S /\ 6 \in S
  BY <1>2, <1>9
<1>10. CASE 1 \notin S /\ 2 \notin S /\ 3 \notin S /\ 4 \notin S /\ 5 \notin S /\ 6 \notin S /\ 7 \in S
  BY <1>2, <1>10
<1>11. CASE 1 \notin S /\ 2 \notin S /\ 3 \notin S /\ 4 \notin S /\ 5 \notin S /\ 6 \notin S /\ 7 \notin S /\ 8 \in S
  BY <1>2, <1>11
<1>12. CASE 1 \notin S /\ 2 \notin S /\ 3 \notin S /\ 4 \notin S /\ 5 \notin S /\ 6 \notin S /\ 7 \notin S /\ 8 \notin S /\ 9 \in S
  BY <1>2, <1>12
<1> QED
  BY <1>1, <1>3, <1>4, <1>5, <1>6, <1>7, <1>8, <1>9, <1>10, <1>11, <1>12

LEMMA PrimaryFirst ==
  ASSUME NEW F, NEW rank, F # {}, \A f \in F : rank[f] \in 1..9
  PROVE  /\ Primary(F, rank) \in F
         /\ \A g \in F : rank[Primary(F, rank)] <= rank[g]
<1> DEFINE S == {rank[f] : f \in F}
<1>1. PICK m \in S : \A n \in S : m <= n
  BY LeastRank
<1>2. PICK f \in F : m = rank[f]
  BY <1>1
<1>3. \E h \in F : \A g \in F : rank[h] <= rank[g]
  BY <1>1, <1>2
<1> QED
  BY <1>3 DEF Primary

LEMMA ProcessorCodes ==
  ASSUME NEW o \in ProcessorReading
  PROVE  ClassifyProcessor(o) \in
           {"INTEGRITY_FAILURE", "UNAVAILABLE", "IDENTITY_CONFLICT", "PREPARED_BACKLOG",
            "MISSING_BACKLOG", "DEFERRED_BUSY", "CONVERGED"}
<1> DEFINE F == ProcessorFindings(o)
<1>1. /\ F # {}
      /\ F \subseteq {"INTEGRITY_FAILURE", "UNAVAILABLE", "IDENTITY_CONFLICT", "PREPARED_BACKLOG",
                      "MISSING_BACKLOG", "DEFERRED_BUSY", "CONVERGED"}
  BY DEF ProcessorFindings, Found, Sign
<1>2. \A f \in F : ProcessorRank[f] \in 1..9
  BY <1>1 DEF ProcessorRank
<1> QED
  BY <1>1, <1>2, PrimaryFirst DEF ClassifyProcessor

LEMMA ReplicationCodes ==
  ASSUME NEW o \in ReplicationReading
  PROVE  ClassifyReplication(o) \in
           {"IDENTITY_MISMATCH", "NOT_CONFIGURED", "SOURCE_INTEGRITY_FAILURE",
            "TARGET_VERIFICATION_FAILURE", "TARGET_UNAVAILABLE", "FAILED_PENDING",
            "UNREGISTERED_BACKLOG", "PENDING_BACKLOG", "CONVERGED"}
<1> DEFINE F == ReplicationFindings(o)
<1>1. /\ F # {}
      /\ F \subseteq {"IDENTITY_MISMATCH", "NOT_CONFIGURED", "SOURCE_INTEGRITY_FAILURE",
                      "TARGET_VERIFICATION_FAILURE", "TARGET_UNAVAILABLE", "FAILED_PENDING",
                      "UNREGISTERED_BACKLOG", "PENDING_BACKLOG", "CONVERGED"}
  BY DEF ReplicationFindings, Found, Sign
<1>2. \A f \in F : ReplicationRank[f] \in 1..9
  BY <1>1 DEF ReplicationRank
<1> QED
  BY <1>1, <1>2, PrimaryFirst DEF ClassifyReplication

LEMMA ProcessorFaultFirst ==
  ASSUME NEW o \in ProcessorReading,
         ClassifyProcessor(o) \in {"MISSING_BACKLOG", "PREPARED_BACKLOG"}
  PROVE  o.integrity = "pass" /\ ~ o.conflicts
<1> DEFINE F == ProcessorFindings(o)
           code == Primary(F, ProcessorRank)
<1>1. /\ F # {}
      /\ F \subseteq {"INTEGRITY_FAILURE", "UNAVAILABLE", "IDENTITY_CONFLICT", "PREPARED_BACKLOG",
                      "MISSING_BACKLOG", "DEFERRED_BUSY", "CONVERGED"}
      /\ o.integrity = "fail" => "INTEGRITY_FAILURE" \in F
      /\ o.integrity = "unavailable" => "UNAVAILABLE" \in F
      /\ o.conflicts => "IDENTITY_CONFLICT" \in F
  BY DEF ProcessorFindings, Found, Sign
<1>2. \A f \in F : ProcessorRank[f] \in 1..9
  BY <1>1 DEF ProcessorRank
<1>3. code \in F /\ \A g \in F : ProcessorRank[code] <= ProcessorRank[g]
  BY <1>1, <1>2, PrimaryFirst
<1>4. ProcessorRank[code] >= 4
  BY DEF ProcessorRank, ClassifyProcessor
<1>5. {"INTEGRITY_FAILURE", "UNAVAILABLE", "IDENTITY_CONFLICT"} \cap F = {}
  BY <1>2, <1>3, <1>4 DEF ProcessorRank
<1> QED
  BY <1>1, <1>5 DEF ProcessorReading

LEMMA ReplicationFaultFirst ==
  ASSUME NEW o \in ReplicationReading
  PROVE  /\ ClassifyReplication(o) \in {"FAILED_PENDING", "UNREGISTERED_BACKLOG", "PENDING_BACKLOG"} =>
              o.identity = "match" /\ o.source = "pass" /\ o.provider = "pass"
         /\ ClassifyReplication(o) = "TARGET_UNAVAILABLE" =>
              /\ o.identity \in {"match", "unavailable"}
              /\ o.source # "fail" /\ o.provider # "fail"
<1> DEFINE F == ReplicationFindings(o)
           code == Primary(F, ReplicationRank)
<1>1. /\ F # {}
      /\ F \subseteq {"IDENTITY_MISMATCH", "NOT_CONFIGURED", "SOURCE_INTEGRITY_FAILURE",
                      "TARGET_VERIFICATION_FAILURE", "TARGET_UNAVAILABLE", "FAILED_PENDING",
                      "UNREGISTERED_BACKLOG", "PENDING_BACKLOG", "CONVERGED"}
      /\ o.identity = "mismatch" => "IDENTITY_MISMATCH" \in F
      /\ o.identity = "not-configured" => "NOT_CONFIGURED" \in F
      /\ o.source = "fail" => "SOURCE_INTEGRITY_FAILURE" \in F
      /\ o.provider = "fail" => "TARGET_VERIFICATION_FAILURE" \in F
      /\ "unavailable" \in {o.identity, o.source, o.provider} => "TARGET_UNAVAILABLE" \in F
  BY DEF ReplicationFindings, Found, Sign
<1>2. \A f \in F : ReplicationRank[f] \in 1..9
  BY <1>1 DEF ReplicationRank
<1>3. code \in F /\ \A g \in F : ReplicationRank[code] <= ReplicationRank[g]
  BY <1>1, <1>2, PrimaryFirst
<1>4. ASSUME code \in {"FAILED_PENDING", "UNREGISTERED_BACKLOG", "PENDING_BACKLOG"}
      PROVE  o.identity = "match" /\ o.source = "pass" /\ o.provider = "pass"
  <2>1. ReplicationRank[code] >= 6
    BY <1>4 DEF ReplicationRank
  <2>2. {"IDENTITY_MISMATCH", "NOT_CONFIGURED", "SOURCE_INTEGRITY_FAILURE",
         "TARGET_VERIFICATION_FAILURE", "TARGET_UNAVAILABLE"} \cap F = {}
    BY <1>2, <1>3, <2>1 DEF ReplicationRank
  <2> QED
    BY <1>1, <2>2 DEF ReplicationReading
<1>5. ASSUME code = "TARGET_UNAVAILABLE"
      PROVE  /\ o.identity \in {"match", "unavailable"}
             /\ o.source # "fail" /\ o.provider # "fail"
  <2>1. ReplicationRank[code] >= 5
    BY <1>5 DEF ReplicationRank
  <2>2. {"IDENTITY_MISMATCH", "NOT_CONFIGURED", "SOURCE_INTEGRITY_FAILURE",
         "TARGET_VERIFICATION_FAILURE"} \cap F = {}
    BY <1>2, <1>3, <2>1 DEF ReplicationRank
  <2> QED
    BY <1>1, <2>2 DEF ReplicationReading
<1> QED
  BY <1>4, <1>5 DEF ClassifyReplication

-----------------------------------------------------------------------------
(* Policy: what a proposal that the policy admits can do *)

LEMMA BoundedTerms ==
  ASSUME NEW op, Terms(op).class = "bounded-execution"
  PROVE  op \in Bounded
  BY DEF Terms, Class, ReadOnly, ProposeOnly, Bounded, Design, Operator

LEMMA BoundedLater ==
  ASSUME NEW op \in Bounded, NEW phase, Disposition(op, phase) # "forbid"
  PROVE  phase = "future-successor"
  BY DEF Disposition, ReadOnly, ProposeOnly, Bounded, Design, Operator

LEMMA BoundedApproval ==
  ASSUME NEW op \in Bounded, op # "INVOKE_VERIFY"
  PROVE  Terms(op).requirement # "none"
  BY DEF Terms, Requirement, ReadOnly, ProposeOnly, Bounded, Design, Operator

\* What may be done to a service that was observed in this state.
Safe(o, op) ==
  \/ /\ o.service = "processor"
     /\ o.integrity = "pass" /\ ~ o.conflicts
  \/ /\ o.service = "replication"
     /\ o.identity = "match" /\ o.source = "pass" /\ o.provider = "pass"
  \/ /\ o.service = "replication"
     /\ op = "INVOKE_VERIFY"
     /\ o.identity \in {"match", "unavailable"} /\ o.source = "pass" /\ o.provider # "fail"

LEMMA BoundedSafe ==
  ASSUME NEW o \in ProcessorReading \cup ReplicationReading,
         NEW op \in Bounded, op \in Allowed(o)
  PROVE  Safe(o, op)
<1>1. CASE o \in ProcessorReading
  <2>1. Classify(o) = ClassifyProcessor(o) /\ o.service = "processor"
    BY <1>1 DEF Classify, ProcessorReading
  <2>2. CASE Classify(o) \in {"MISSING_BACKLOG", "PREPARED_BACKLOG"}
    BY <1>1, <2>1, <2>2, ProcessorFaultFirst DEF Safe
  <2>3. CASE Classify(o) \notin {"MISSING_BACKLOG", "PREPARED_BACKLOG"}
    <3>1. Classify(o) \in {"INTEGRITY_FAILURE", "UNAVAILABLE", "IDENTITY_CONFLICT",
                           "DEFERRED_BUSY", "CONVERGED"}
      BY <1>1, <2>1, <2>3, ProcessorCodes
    <3> QED
      BY <2>1, <3>1 DEF Allowed, Bounded
  <2> QED
    BY <2>2, <2>3
<1>2. CASE o \in ReplicationReading
  <2>1. Classify(o) = ClassifyReplication(o) /\ o.service = "replication"
    BY <1>2 DEF Classify, ReplicationReading
  <2>2. CASE Classify(o) \in {"FAILED_PENDING", "UNREGISTERED_BACKLOG", "PENDING_BACKLOG"}
    BY <1>2, <2>1, <2>2, ReplicationFaultFirst DEF Safe
  <2>3. CASE Classify(o) = "TARGET_UNAVAILABLE"
    <3>1. o.source # "unavailable" /\ op = "INVOKE_VERIFY"
      BY <2>3 DEF Allowed, Bounded
    <3>2. /\ o.identity \in {"match", "unavailable"}
          /\ o.source # "fail" /\ o.provider # "fail"
      BY <1>2, <2>1, <2>3, ReplicationFaultFirst
    <3> QED
      BY <1>2, <2>1, <3>1, <3>2 DEF Safe, ReplicationReading
  <2>4. CASE Classify(o) \notin {"FAILED_PENDING", "UNREGISTERED_BACKLOG", "PENDING_BACKLOG",
                                 "TARGET_UNAVAILABLE"}
    <3>1. Classify(o) \in {"IDENTITY_MISMATCH", "NOT_CONFIGURED", "SOURCE_INTEGRITY_FAILURE",
                           "TARGET_VERIFICATION_FAILURE", "CONVERGED"}
      BY <1>2, <2>1, <2>4, ReplicationCodes
    <3> QED
      BY <3>1 DEF Allowed, Bounded
  <2> QED
    BY <2>2, <2>3, <2>4
<1> QED
  BY <1>1, <1>2

-----------------------------------------------------------------------------
(* The builder *)

Fields == {"observation", "proposal", "approval", "execution", "verification"}

\* What Bind has established about the observation and the proposal.
BoundRound(r) ==
  /\ DOMAIN r = Fields
  /\ r.observation.reading \in Readings
  /\ ValidProposal(r.observation, r.proposal)

\* What BindExecution has established about the execution.
BoundExecution(r) ==
  /\ r.proposal.terms.class = "bounded-execution"
  /\ r.execution.proposal = r.proposal
  /\ r.proposal.terms.requirement # "none" =>
       r.execution.approval = [proposal |-> r.proposal, outcome |-> "approve"]

\* What the receipt VERIFIED stands for.
ReadBack(r) ==
  /\ r.execution.status = "executed"
  /\ r.verification.execution = r.execution
  /\ r.verification.status = "pass" /\ r.verification.proven = "all"

ContractInv ==
  /\ stage \in {"idle", "bound", "executed", "issued", "approved"}
  /\ stage \in {"bound", "executed", "issued"} => BoundRound(request)
  /\ stage = "bound" => request.execution = NoExecution
  /\ stage = "executed" => BoundExecution(request)
  /\ stage = "issued" =>
       \/ request.execution = NoExecution /\ receipt = "read-only-complete"
       \/ /\ request.execution = NoExecution
          /\ request.proposal.terms.class = "bounded-execution"
       \/ BoundExecution(request) /\ (receipt = "verified" => ReadBack(request))
  /\ stage = "approved" =>
       /\ request.observation.reading \in Readings
       /\ ValidSuccessor(request.observation, request.proposal)
       /\ ApprovalInHand

\* Approvals name a proposal and an outcome, and nothing else.
LEMMA ApprovalShape ==
  ASSUME NEW p, NEW a \in ApprovalsFor(p), a.outcome = "approve", a.proposal = p
  PROVE  a = [proposal |-> p, outcome |-> "approve"]
<1>1. a # NoApproval
  BY DEF NoApproval
<1>2. PICK q \in Rivals(p), how \in {"approve", "deny", "expire"} :
        a = [proposal |-> q, outcome |-> how]
  BY <1>1 DEF ApprovalsFor
<1> QED
  BY <1>2

LEMMA ObservedReadings ==
  ASSUME NEW o \in Observed
  PROVE  o.reading \in Readings
  BY DEF Observed, Observation

LEMMA VerifiedStatus ==
  ASSUME NEW e, NEW v, ExecutedStatus(e, v) = "verified"
  PROVE  e.status = "executed" /\ v.status = "pass"
  BY DEF ExecutedStatus

LEMMA ContractInit == Init => ContractInv
  BY DEF Init, ContractInv

LEMMA ContractStep == ContractInv /\ [Next]_vars => ContractInv'
<1> SUFFICES ASSUME ContractInv, [Next]_vars
             PROVE  ContractInv'
  OBVIOUS
<1> USE DEF ContractInv
<1>1. CASE Bind
  <2>1. PICK o \in Observed : \E p \in ProposalsFor(o) :
          /\ ValidProposal(o, p)
          /\ request' = Request(o, p, NoApproval, NoExecution, NoVerification)
    BY <1>1 DEF Bind
  <2>2. PICK p : /\ ValidProposal(o, p)
                 /\ request' = Request(o, p, NoApproval, NoExecution, NoVerification)
    BY <2>1
  <2>3. /\ DOMAIN request' = Fields
        /\ request'.observation = o /\ request'.proposal = p
        /\ request'.execution = NoExecution
    BY <2>2 DEF Request, Fields
  <2>4. BoundRound(request')
    BY <2>2, <2>3, ObservedReadings DEF BoundRound
  <2> QED
    BY <1>1, <2>3, <2>4 DEF Bind, BoundRound
<1>2. CASE IssueReadOnly
  BY <1>2 DEF IssueReadOnly, Issue, BoundRound
<1>3. CASE IssueRefusal
  <2>1. PICK a : request' = [request EXCEPT !.approval = a]
    BY <1>3 DEF IssueRefusal
  <2>2. BoundRound(request') /\ request'.execution = NoExecution /\ request'.proposal = request.proposal
    BY <1>3, <2>1 DEF IssueRefusal, BoundRound, Fields
  <2> QED
    BY <1>3, <2>2 DEF IssueRefusal, Issue, BoundRound
<1>4. CASE BindExecution
  <2>1. PICK a \in ApprovalsFor(request.proposal) :
          /\ IF request.proposal.terms.requirement = "none"
             THEN a = NoApproval
             ELSE a.outcome = "approve" /\ ApprovalMatches(a, request.proposal, request.observation)
          /\ \E e \in ExecutionsFor(request.proposal, a) :
               /\ e.proposal = request.proposal
               /\ e.approval = a
               /\ request' = [request EXCEPT !.approval = a, !.execution = e]
    BY <1>4 DEF BindExecution
  <2>2. PICK e : /\ e.proposal = request.proposal
                 /\ e.approval = a
                 /\ request' = [request EXCEPT !.approval = a, !.execution = e]
    BY <2>1
  <2>3. /\ DOMAIN request' = Fields
        /\ request'.observation = request.observation
        /\ request'.proposal = request.proposal
        /\ request'.execution = e
    BY <1>4, <2>2 DEF BindExecution, BoundRound, Fields
  <2>4. request.proposal.terms.requirement # "none" =>
          a = [proposal |-> request.proposal, outcome |-> "approve"]
    BY <2>1, ApprovalShape DEF ApprovalMatches
  <2>5. BoundRound(request') /\ BoundExecution(request')
    BY <1>4, <2>2, <2>3, <2>4 DEF BindExecution, BoundRound, BoundExecution
  <2> QED
    BY <1>4, <2>5 DEF BindExecution, BoundRound, BoundExecution
<1>5. CASE IssueExecuted
  <2>1. PICK v :
          /\ v # NoVerification => v.execution = request.execution
          /\ v.status = "pass" => v.proven = "all"
          /\ request' = [request EXCEPT !.verification = v]
          /\ Issue(ExecutedStatus(request.execution, v))
    BY <1>5 DEF IssueExecuted
  <2>2. /\ DOMAIN request' = Fields
        /\ request'.observation = request.observation
        /\ request'.proposal = request.proposal
        /\ request'.execution = request.execution
        /\ request'.verification = v
    BY <1>5, <2>1 DEF IssueExecuted, BoundRound, Fields
  <2>3. ASSUME receipt' = "verified" PROVE ReadBack(request')
    <3>1. ExecutedStatus(request.execution, v) = "verified"
      BY <2>1, <2>3 DEF Issue
    <3>2. request.execution.status = "executed" /\ v.status = "pass"
      BY <3>1, VerifiedStatus
    <3>3. v # NoVerification
      BY <3>2 DEF NoVerification
    <3> QED
      BY <2>1, <2>2, <3>2, <3>3 DEF ReadBack
  <2>4. BoundRound(request') /\ BoundExecution(request')
    BY <1>5, <2>2 DEF IssueExecuted, BoundRound, BoundExecution
  <2> QED
    BY <2>1, <2>3, <2>4 DEF Issue, BoundRound, BoundExecution
<1>6. CASE ApproveSuccessor
  <2>1. PICK o \in Observed : \E p \in ProposalsFor(o) :
          /\ ValidSuccessor(o, p)
          /\ \E a \in ApprovalsFor(p), current \in {o} \cup Elsewhere :
               /\ a.outcome = "approve"
               /\ ApprovalMatches(a, p, current)
               /\ request' = Request(current, p, a, NoExecution, NoVerification)
    BY <1>6 DEF ApproveSuccessor
  <2>2. PICK p : /\ ValidSuccessor(o, p)
                 /\ \E a \in ApprovalsFor(p), current \in {o} \cup Elsewhere :
                      /\ a.outcome = "approve"
                      /\ ApprovalMatches(a, p, current)
                      /\ request' = Request(current, p, a, NoExecution, NoVerification)
    BY <2>1
  <2>3. PICK a \in ApprovalsFor(p), current \in {o} \cup Elsewhere :
          /\ a.outcome = "approve"
          /\ ApprovalMatches(a, p, current)
          /\ request' = Request(current, p, a, NoExecution, NoVerification)
    BY <2>2
  <2>4. current = o
    BY <2>2, <2>3 DEF ApprovalMatches, ValidSuccessor, ValidFields
  <2>5. a = [proposal |-> p, outcome |-> "approve"]
    BY <2>3, ApprovalShape DEF ApprovalMatches
  <2>6. request'.observation = o /\ request'.proposal = p /\ request'.approval = a
    BY <2>3, <2>4 DEF Request
  <2>7. ApprovalInHand'
    BY <2>2, <2>5, <2>6 DEF ApprovalInHand, ValidSuccessor, ValidFields
  <2> QED
    BY <1>6, <2>2, <2>6, <2>7, ObservedReadings DEF ApproveSuccessor
<1>7. CASE Again
  BY <1>7 DEF Again
<1>8. CASE PilotInspects
  BY <1>8 DEF PilotInspects, ApprovalInHand
<1>9. CASE PilotFails
  BY <1>9 DEF PilotFails, ApprovalInHand
<1>10. CASE UNCHANGED vars
  BY <1>10 DEF vars, ApprovalInHand
<1> QED
  BY <1>1, <1>2, <1>3, <1>4, <1>5, <1>6, <1>7, <1>8, <1>9, <1>10 DEF Next
-----------------------------------------------------------------------------
(* The theorems *)

LEMMA RoundLineage ==
  ASSUME ContractInv
  PROVE  OneLineage
<1> USE DEF ContractInv
<1>1. ASSUME stage = "approved" PROVE ApprovalInHand
  BY <1>1
<1>2. ASSUME BindsExecution
      PROVE  /\ request.execution.proposal = request.proposal
             /\ request.proposal.observation = request.observation
             /\ request.proposal.operation # "INVOKE_VERIFY" =>
                  request.execution.approval = [proposal |-> request.proposal, outcome |-> "approve"]
             /\ receipt = "verified" => ReadBack(request)
  <2>1. BoundRound(request) /\ BoundExecution(request) /\ (receipt = "verified" => ReadBack(request))
    BY <1>2 DEF BindsExecution
  <2>2. ValidFields(request.observation, request.proposal)
    BY <2>1 DEF BoundRound, ValidProposal
  <2>3. request.proposal.terms = Terms(request.proposal.operation)
    BY <2>2 DEF ValidFields
  <2>4. request.proposal.operation \in Bounded
    BY <2>1, <2>3, BoundedTerms DEF BoundExecution
  <2>5. request.proposal.operation # "INVOKE_VERIFY" => request.proposal.terms.requirement # "none"
    BY <2>3, <2>4, BoundedApproval
  <2> QED
    BY <2>1, <2>2, <2>5 DEF BoundExecution, ValidFields
<1> QED
  BY <1>1, <1>2 DEF OneLineage, ReadBack

LEMMA RoundFailsClosed ==
  ASSUME ContractInv
  PROVE  FailsClosed
<1> USE DEF ContractInv
<1>1. ASSUME BindsExecution \/ stage = "approved"
      PROVE  Safe(request.observation.reading, request.proposal.operation)
  <2>1. /\ request.observation.reading \in Readings
        /\ ValidFields(request.observation, request.proposal)
        /\ request.proposal.operation \in Bounded
    <3>1. CASE stage = "approved"
      BY <3>1 DEF ValidSuccessor, Bounded
    <3>2. CASE BindsExecution
      <4>1. BoundRound(request) /\ BoundExecution(request)
        BY <3>2 DEF BindsExecution
      <4>2. ValidFields(request.observation, request.proposal)
        BY <4>1 DEF BoundRound, ValidProposal
      <4>3. request.proposal.terms = Terms(request.proposal.operation)
        BY <4>2 DEF ValidFields
      <4>4. request.proposal.operation \in Bounded
        BY <4>1, <4>3, BoundedTerms DEF BoundExecution
      <4> QED
        BY <4>1, <4>2, <4>4 DEF BoundRound
    <3> QED
      BY <1>1, <3>1, <3>2
  <2>2. request.observation.reading \in ProcessorReading \cup ReplicationReading
    BY <2>1, ContractAssumption
  <2>3. request.proposal.operation \in Allowed(request.observation.reading)
    BY <2>1 DEF ValidFields
  <2> QED
    BY <2>1, <2>2, <2>3, BoundedSafe
<1> QED
  BY <1>1 DEF FailsClosed, Safe

LEMMA RoundReadOnly ==
  ASSUME ContractInv
  PROVE  WaveCReadOnly
<1> USE DEF ContractInv
<1>1. ASSUME stage = "issued", request.proposal.phase = "wave-c", receipt # "read-only-complete"
      PROVE  FALSE
  <2>1. BoundRound(request) /\ request.proposal.terms.class = "bounded-execution"
    BY <1>1 DEF BoundExecution
  <2>2. ValidFields(request.observation, request.proposal)
    BY <2>1 DEF BoundRound, ValidProposal
  <2>3. request.proposal.operation \in Bounded
    BY <2>1, <2>2, BoundedTerms DEF ValidFields
  <2> QED
    BY <1>1, <2>2, <2>3, BoundedLater DEF ValidFields
<1> QED
  BY <1>1 DEF WaveCReadOnly

\* Whatever records the callers hand in, the builder holds only what it has checked:
\* what build_structured_receipt has established at each of its steps.
THEOREM ContractInvariant == Spec => []ContractInv
<1>1. Init => ContractInv
  BY ContractInit
<1>2. ContractInv /\ [Next]_vars => ContractInv'
  BY ContractStep
<1> QED
  BY <1>1, <1>2, PTL DEF Spec

\* A receipt never joins records of two rounds, nor says VERIFIED of an execution that
\* was not read back in full.
THEOREM ReceiptsOneLineage == Spec => []OneLineage
<1>1. ContractInv => OneLineage
  BY RoundLineage
<1> QED
  BY <1>1, ContractInvariant, PTL

\* No execution is receipted for a service observed at fault, however its other
\* findings, its backlog and the claims of the proposal may look.
THEOREM ExecutionsFailClosed == Spec => []FailsClosed
<1>1. ContractInv => FailsClosed
  BY RoundFailsClosed
<1> QED
  BY <1>1, ContractInvariant, PTL

\* The first phase receipts nothing but reading and proposing.
THEOREM FirstPhaseReadOnly == Spec => []WaveCReadOnly
<1>1. ContractInv => WaveCReadOnly
  BY RoundReadOnly
<1> QED
  BY <1>1, ContractInvariant, PTL

-----------------------------------------------------------------------------
(* The tables agree *)

\* What the proposers choose from.
Proposable == {"NO_ACTION", "RETRY_OBSERVATION", "PROPOSE_CATCH_UP", "PROPOSE_VERIFY",
               "PROPOSE_RECONCILE", "PROPOSE_RUN", "ESCALATE_STATE"}

\* The policy lets all of it pass in the first phase, and executes none of it.
LEMMA ProposableTerms ==
  ASSUME NEW op \in Proposable
  PROVE  /\ Disposition(op, "wave-c") # "forbid"
         /\ Class(op) \in {"read-only", "proposal-only", "escalation-only"}
<1> USE DEF Disposition, Class, ReadOnly, ProposeOnly, Bounded, Design
<1>1. CASE op \in ReadOnly \cup ProposeOnly
  BY <1>1
<1>2. CASE op = "ESCALATE_STATE"
  BY <1>2
<1> QED
  BY <1>1, <1>2 DEF Proposable

LEMMA ProcessorChoiceAllowed ==
  ASSUME NEW o \in ProcessorReading
  PROVE  ProcessorChoice(o) \in Allowed(o) \cap Proposable
<1>1. Classify(o) = ClassifyProcessor(o)
  BY DEF Classify, ProcessorReading
<1> QED
  BY <1>1, ProcessorCodes DEF ProcessorChoice, Allowed, Proposable

LEMMA ReplicationChoiceAllowed ==
  ASSUME NEW o \in ReplicationReading
  PROVE  ReplicationChoice(o) \in Allowed(o) \cap Proposable
<1>1. Classify(o) = ClassifyReplication(o)
  BY DEF Classify, ReplicationReading
<1>2. CASE ClassifyReplication(o) \in {"IDENTITY_MISMATCH", "NOT_CONFIGURED",
             "SOURCE_INTEGRITY_FAILURE", "TARGET_VERIFICATION_FAILURE"}
  BY <1>1, <1>2 DEF ReplicationChoice, Allowed, Proposable
<1>3. CASE ClassifyReplication(o) = "TARGET_UNAVAILABLE"
  BY <1>1, <1>3 DEF ReplicationChoice, Allowed, Proposable
<1>4. CASE ClassifyReplication(o) \in {"FAILED_PENDING", "UNREGISTERED_BACKLOG",
             "PENDING_BACKLOG", "CONVERGED"}
  BY <1>1, <1>4 DEF ReplicationChoice, Allowed, Proposable
<1> QED
  BY <1>2, <1>3, <1>4, ReplicationCodes

\* The proposal for what was observed is the policy's own, and read-only.
LEMMA ProposalReceipted ==
  ASSUME NEW r \in ProcessorReading \cup ReplicationReading
  PROVE  ReadOnlyReceipt(Observation(r, TrueFindings(r)),
                         Propose(Observation(r, TrueFindings(r))))
<1> DEFINE o == Observation(r, TrueFindings(r))
           op == IF r.service = "processor" THEN ProcessorChoice(r) ELSE ReplicationChoice(r)
<1>1. op \in Allowed(r) \cap Proposable
  BY ProcessorChoiceAllowed, ReplicationChoiceAllowed DEF ProcessorReading, ReplicationReading
<1>2. o.reading = r /\ Consistent(o)
  BY DEF Observation, Consistent
<1> DEFINE p == MakeProposal(o, op, "wave-c")
<1>3. Propose(o) = p
  BY <1>2 DEF Propose
<1>4. /\ p.observation = o /\ p.classified = o /\ p.operation = op /\ p.phase = "wave-c"
      /\ p.terms = Terms(op) /\ p.input = Parameters(r) /\ p.version = "mutation"
  BY <1>2 DEF MakeProposal
<1>5. ValidProposal(o, p)
  BY <1>1, <1>2, <1>4, ProposableTerms DEF ValidProposal, ValidFields
<1>6. p.terms.class \in {"read-only", "proposal-only", "escalation-only"}
  BY <1>1, <1>4, ProposableTerms DEF Terms
<1> QED
  BY <1>3, <1>5, <1>6 DEF ReadOnlyReceipt

\* The pilot's own table of findings is the classifier's.
LEMMA PilotNotRefused ==
  ASSUME pilot # "refused", [Next]_vars
  PROVE  pilot' # "refused"
<1>1. \A r \in Inspections :
        ReadOnlyReceipt(Observation(r, PilotFindings(r)), Propose(Observation(r, PilotFindings(r))))
  <2> SUFFICES ASSUME NEW r \in Inspections
               PROVE  ReadOnlyReceipt(Observation(r, PilotFindings(r)),
                                      Propose(Observation(r, PilotFindings(r))))
    OBVIOUS
  <2>1. r \in ProcessorReading
    BY DEF Inspections
  <2>2. PilotFindings(r) = TrueFindings(r)
    BY <2>1 DEF PilotFindings, TrueFindings, ProcessorFindings, ProcessorReading
  <2> QED
    BY <2>1, <2>2, ProposalReceipted
<1>2. CASE PilotInspects
  BY <1>1, <1>2 DEF PilotInspects
<1>3. CASE PilotFails
  BY <1>3 DEF PilotFails
<1>4. CASE UNCHANGED pilot
  BY <1>4
<1> QED
  BY <1>2, <1>3, <1>4 DEF Next, vars, Bind, IssueReadOnly, IssueRefusal, BindExecution,
     IssueExecuted, Issue, ApproveSuccessor, Again

\* Whatever can be observed of either service, the proposer's answer is valid in the
\* first phase and receipted read-only, and the contracts never refuse the pilot.
THEOREM ProposalsAccepted == Spec => []ReadOnlyAccepted
<1>1. EveryReadingAccepted
  BY ProposalReceipted, ContractAssumption DEF EveryReadingAccepted
<1>2. Init => pilot # "refused"
  BY DEF Init
<1>3. pilot # "refused" /\ [Next]_vars => (pilot # "refused")'
  BY PilotNotRefused
<1>4. pilot # "refused" => ReadOnlyAccepted
  BY <1>1 DEF ReadOnlyAccepted
<1> QED
  BY <1>2, <1>3, <1>4, PTL DEF Spec
=============================================================================
