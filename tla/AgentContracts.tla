---------------------------- MODULE AgentContracts ----------------------------
(***************************************************************************)
(* The contracts of the bounded agents (packages/agent_contracts): an      *)
(* observation of a service is classified, a proposal is made for it, an   *)
(* owner decides, a tool executes, a verifier reads back, and              *)
(* build_structured_receipt binds one record of each kind into a receipt   *)
(* or refuses.  The callers may hand in any records the constructors       *)
(* accept, those of another round included; the builder is followed check  *)
(* by check, and a refusal leaves no step.  A digest stands for the record *)
(* it is computed from.  The one caller in the repository is the read-only *)
(* pilot (optional/processor-pilot); other agents, owners, tools and       *)
(* verifiers are external.                                                 *)
(***************************************************************************)
EXTENDS Naturals

CONSTANTS
  Snapshots,    \* digests of the state an observation was made from
  Readings,     \* what can be observed
  Others,       \* readings of some other round, whose records may be mixed in
  Claims        \* operations that a caller's proposal may name

VARIABLES
  stage,        \* how far the builder is with the records it was handed
  request,      \* those it has checked
  receipt,      \* the receipt issued for them
  pilot         \* the pilot's core: new, spent, or refused by the contracts

vars == <<stage, request, receipt, pilot>>

-----------------------------------------------------------------------------
(* Observations and their classification *)

ProcessorReading ==
  [service : {"processor"}, snapshot : Snapshots,
   integrity : {"pass", "fail", "unavailable"},
   conflicts : BOOLEAN, prepared : BOOLEAN, missing : BOOLEAN, deferred : BOOLEAN]

ReplicationReading ==
  [service : {"replication"}, snapshot : Snapshots,
   identity : {"match", "mismatch", "not-configured", "unavailable"},
   source : {"pass", "fail", "unavailable"},
   provider : {"pass", "fail", "unavailable"},
   failed : BOOLEAN, unregistered : BOOLEAN, pending : BOOLEAN]

ASSUME ContractAssumption ==
  Readings \cup Others \subseteq ProcessorReading \cup ReplicationReading

\* A finding, if there is a sign of it; convergence, if there is none at all.
Sign(finding, holds) == IF holds THEN {finding} ELSE {}

Found(findings) == IF findings = {} THEN {"CONVERGED"} ELSE findings

ProcessorFindings(o) ==
  Found(Sign("INTEGRITY_FAILURE", o.integrity = "fail")
        \cup Sign("UNAVAILABLE", o.integrity = "unavailable")
        \cup Sign("IDENTITY_CONFLICT", o.conflicts)
        \cup Sign("PREPARED_BACKLOG", o.prepared)
        \cup Sign("MISSING_BACKLOG", o.missing)
        \cup Sign("DEFERRED_BUSY", o.deferred))

ReplicationFindings(o) ==
  Found(Sign("IDENTITY_MISMATCH", o.identity = "mismatch")
        \cup Sign("NOT_CONFIGURED", o.identity = "not-configured")
        \cup Sign("SOURCE_INTEGRITY_FAILURE", o.source = "fail")
        \cup Sign("TARGET_VERIFICATION_FAILURE", o.provider = "fail")
        \cup Sign("TARGET_UNAVAILABLE", "unavailable" \in {o.identity, o.source, o.provider})
        \cup Sign("FAILED_PENDING", o.failed)
        \cup Sign("UNREGISTERED_BACKLOG", o.unregistered)
        \cup Sign("PENDING_BACKLOG", o.pending))

\* The classifier's chain of conditions: what is ranked first is the primary code.
ProcessorRank ==
  [INTEGRITY_FAILURE |-> 1, IDENTITY_CONFLICT |-> 2, UNAVAILABLE |-> 3, PREPARED_BACKLOG |-> 4,
   MISSING_BACKLOG |-> 5, DEFERRED_BUSY |-> 6, CONVERGED |-> 7]

ReplicationRank ==
  [IDENTITY_MISMATCH |-> 1, SOURCE_INTEGRITY_FAILURE |-> 2, TARGET_VERIFICATION_FAILURE |-> 3,
   NOT_CONFIGURED |-> 4, TARGET_UNAVAILABLE |-> 5, FAILED_PENDING |-> 6,
   UNREGISTERED_BACKLOG |-> 7, PENDING_BACKLOG |-> 8, CONVERGED |-> 9]

\* Mutation: work that is waiting is looked at before the state of the authority.
BacklogFirst(findings, rank) ==
  CHOOSE f \in findings : \A g \in findings : rank[f] >= rank[g]

Primary(findings, rank) ==
  CHOOSE f \in findings : \A g \in findings : rank[f] <= rank[g]

ClassifyProcessor(o) == Primary(ProcessorFindings(o), ProcessorRank)
ClassifyReplication(o) == Primary(ReplicationFindings(o), ReplicationRank)

Classify(o) ==
  IF o.service = "processor" THEN ClassifyProcessor(o) ELSE ClassifyReplication(o)

-----------------------------------------------------------------------------
(* The mutation policy *)

ReadOnly    == {"READ_OBSERVATION", "CLASSIFY", "EXPLAIN", "NO_ACTION", "RETRY_OBSERVATION"}
ProposeOnly == {"PROPOSE_CATCH_UP", "PROPOSE_VERIFY", "PROPOSE_RECONCILE", "PROPOSE_RUN"}
Bounded     == {"INVOKE_WORKER_RUN", "INVOKE_VERIFY", "INVOKE_RECONCILE", "INVOKE_RUN"}
Design      == {"ESCALATE_STATE", "CHANGE_PROCESSOR_IDENTITY", "INITIALIZE_TARGET",
                "CHANGE_TARGET_IDENTITY", "CHANGE_TARGET_ROOT", "CHANGE_TARGET_MARKER_CONTENT",
                "CHANGE_TARGET_MARKER_METADATA", "CHANGE_TARGET_NAMESPACE",
                "CHANGE_DATABASE_BINDING"}
Operator    == {"RUN_MIGRATIONS", "PROVISION_PROVIDER", "CHANGE_IAM_OR_CREDENTIALS"}

\* Whatever has no row of its own is denied.
Class(op) ==
  CASE op \in ReadOnly             -> "read-only"
    [] op \in ProposeOnly          -> "proposal-only"
    [] op \in Bounded              -> "bounded-execution"
    [] op \in Design \cup Operator -> "escalation-only"
    [] OTHER                       -> "forbidden"

Requirement(op) ==
  CASE op \in ReadOnly \cup ProposeOnly \cup {"INVOKE_VERIFY"} -> "none"
    [] op \in Bounded \ {"INVOKE_VERIFY"}                      -> "explicit-owner"
    [] op \in Design                                           -> "separate-design-authority"
    [] op \in Operator                                         -> "operator-owned"
    [] OTHER                                                   -> "not-approvable"

\* Mutation: the row of the future successor applies in every phase.
DispositionAnyPhase(op, phase) ==
  CASE op \in ReadOnly \cup ProposeOnly \cup Bounded        -> "allow"
    [] op \in Design \cup (Operator \ {"RUN_MIGRATIONS"})   -> "escalate"
    [] OTHER                                                -> "forbid"

Disposition(op, phase) ==
  CASE op \in ReadOnly \cup ProposeOnly                     -> "allow"
    [] op \in Bounded /\ phase = "future-successor"         -> "allow"
    [] op \in Design                                        -> "escalate"
    [] /\ op \in Operator \ {"RUN_MIGRATIONS"}
       /\ phase = "future-successor"                        -> "escalate"
    [] OTHER                                                -> "forbid"

\* What a proposal copies from the row of its operation; every row has verification
\* requirements of its own.  The codes of its preconditions and evidence are data
\* that nothing else depends on.
Terms(op) == [class |-> Class(op), requirement |-> Requirement(op), checks |-> op]

Allowed(o) ==
  LET code == Classify(o)
  IN CASE code = "CONVERGED" -> {"NO_ACTION"}
       [] code \in {"DEFERRED_BUSY", "UNAVAILABLE"} -> {"RETRY_OBSERVATION"}
       [] code \in {"MISSING_BACKLOG", "PREPARED_BACKLOG"} ->
            {"PROPOSE_CATCH_UP", "INVOKE_WORKER_RUN"}
       [] code = "TARGET_UNAVAILABLE" /\ o.source = "unavailable" -> {"RETRY_OBSERVATION"}
       [] code = "TARGET_UNAVAILABLE" /\ o.source # "unavailable" ->
            {"PROPOSE_VERIFY", "INVOKE_VERIFY"}
       [] code = "FAILED_PENDING" -> {"PROPOSE_RECONCILE", "INVOKE_RECONCILE"}
       [] code \in {"UNREGISTERED_BACKLOG", "PENDING_BACKLOG"} -> {"PROPOSE_RUN", "INVOKE_RUN"}
       [] OTHER -> {"ESCALATE_STATE"}

TrueFindings(o) ==
  IF o.service = "processor" THEN ProcessorFindings(o) ELSE ReplicationFindings(o)

\* What the caller states it found may differ from what its reading shows.
Observation(o, findings) == [reading |-> o, findings |-> findings]

\* classify_* refuse an observation whose findings contradict its state.
Consistent(observation) == observation.findings = TrueFindings(observation.reading)

\* propose_processor: one operation for each primary code, never an execution.
ProcessorChoice(o) ==
  LET code == ClassifyProcessor(o)
  IN CASE code = "CONVERGED" -> "NO_ACTION"
       [] code \in {"DEFERRED_BUSY", "UNAVAILABLE"} -> "RETRY_OBSERVATION"
       [] code \in {"MISSING_BACKLOG", "PREPARED_BACKLOG"} -> "PROPOSE_CATCH_UP"
       [] OTHER -> "ESCALATE_STATE"

\* propose_replication
ReplicationChoice(o) ==
  LET code == ClassifyReplication(o)
  IN CASE code = "CONVERGED" -> "NO_ACTION"
       [] code = "TARGET_UNAVAILABLE" /\ o.source = "unavailable" -> "RETRY_OBSERVATION"
       [] code = "TARGET_UNAVAILABLE" /\ o.source # "unavailable" -> "PROPOSE_VERIFY"
       [] code = "FAILED_PENDING" -> "PROPOSE_RECONCILE"
       [] code \in {"UNREGISTERED_BACKLOG", "PENDING_BACKLOG"} -> "PROPOSE_RUN"
       [] OTHER -> "ESCALATE_STATE"

\* _parameters: what a proposal says of its input is the observed snapshot.
Parameters(o) == o.snapshot

\* _make_proposal; an operation or a phase it refuses is refused by the builder too.
MakeProposal(observation, op, phase) ==
  [observation |-> observation, classified |-> observation, operation |-> op,
   phase |-> phase, terms |-> Terms(op), input |-> Parameters(observation.reading),
   version |-> "mutation"]

Propose(observation) ==
  LET o == observation.reading
  IN MakeProposal(observation,
                  IF o.service = "processor" THEN ProcessorChoice(o) ELSE ReplicationChoice(o),
                  "wave-c")

\* The proposal of one exact manifest: its parameters are those of the manifest,
\* not of the observation.  Only the replication contract receipts it.
ValidExact(o, p) ==
  /\ p.version = "exact"
  /\ o.service = "replication"
  /\ p.operation = "INVOKE_RUN"
  /\ p.phase = "future-successor"

\* _validate_proposal_fields: observation, classification and proposal are bound to
\* one another, and the proposal is what the policy makes of the observation.
ValidFields(observation, p) ==
  /\ p.observation = observation
  /\ p.classified = observation
  /\ Consistent(observation)
  /\ p.operation \in Allowed(observation.reading)
  /\ Disposition(p.operation, p.phase) # "forbid"
  /\ p.terms = Terms(p.operation)

\* validate_processor_proposal and validate_replication_proposal
ValidProposal(observation, p) ==
  /\ ValidFields(observation, p)
  /\ \/ ValidExact(observation.reading, p)
     \/ p.version = "mutation" /\ p.input = Parameters(observation.reading)

\* validate_processor_successor_proposal: the parameters are those of a manifest,
\* which must be what was observed.
ValidSuccessor(observation, p) ==
  /\ ValidFields(observation, p)
  /\ p.version = "successor"
  /\ observation.reading.service = "processor"
  /\ p.operation = "INVOKE_WORKER_RUN"
  /\ p.phase = "future-successor"
  /\ p.input = observation.reading.snapshot

-----------------------------------------------------------------------------
(* What callers hand in *)

Observed == {Observation(o, TrueFindings(o)) : o \in Readings}
              \cup {Observation(o, {"CONVERGED"}) : o \in Readings}

Elsewhere == {Observation(o, TrueFindings(o)) : o \in Others}

\* Proposal.__post_init__ refuses a forbidden class; the rest is what it claims,
\* the row of the policy included.
ProposalsFor(o) ==
  [observation : {o} \cup Elsewhere, classified : {o} \cup Elsewhere, operation : Claims,
   phase : {"wave-c", "future-successor"},
   terms : {Terms(op) : op \in {x \in Claims : Class(x) # "forbidden"}},
   input : Snapshots, version : {"mutation", "exact", "successor"}]

\* Proposals of another round that a decision or an execution may be about.
Rivals(p) ==
  {p} \cup {[p EXCEPT !.observation = o] : o \in Elsewhere}
      \cup {[p EXCEPT !.input = i] : i \in Snapshots}
      \cup {[p EXCEPT !.operation = op] : op \in Claims}

NoProposal == [operation |-> "none"]
NoApproval == [proposal |-> NoProposal, outcome |-> "none"]
ApprovalsFor(p) ==
  {NoApproval} \cup [proposal : Rivals(p), outcome : {"approve", "deny", "expire"}]

\* ExecutionResult.__post_init__ admits the bounded operations only; the tool names
\* whatever approval it was shown.
ExecutionsFor(p, a) ==
  {e \in [proposal : Rivals(p), approval : {NoApproval, a, [proposal |-> p, outcome |-> "approve"]},
          status : {"not-run", "denied", "executed", "failed"}] : e.proposal.operation \in Bounded}

\* A verification that passes has proven something, not always what is required.
NoExecution == [proposal |-> NoProposal, approval |-> NoApproval, status |-> "none"]
NoVerification == [execution |-> NoExecution, status |-> "none", proven |-> "some"]
VerificationsFor(p, e) ==
  {NoVerification} \cup
    [execution : {e} \cup {[e EXCEPT !.proposal = q] : q \in Rivals(p)}
                     \cup {[e EXCEPT !.approval.outcome = "deny"], [e EXCEPT !.status = "executed"]},
     status : {"not-run", "pass", "fail", "escalate", "unavailable"}, proven : {"some", "all"}]

-----------------------------------------------------------------------------
(* build_structured_receipt *)

Request(o, p, a, e, v) ==
  [observation |-> o, proposal |-> p, approval |-> a, execution |-> e, verification |-> v]

Nothing == Request("none", NoProposal, NoApproval, NoExecution, NoVerification)

Init ==
  /\ stage = "idle"
  /\ request = Nothing
  /\ receipt = "none"
  /\ pilot = "new"

\* The builder takes over an observation and its proposal.
Bind ==
  /\ stage = "idle"
  /\ \E o \in Observed :
       \E p \in ProposalsFor(o) :
         /\ ValidProposal(o, p)
         /\ request' = Request(o, p, NoApproval, NoExecution, NoVerification)
  /\ stage' = "bound"
  /\ UNCHANGED <<receipt, pilot>>

Issue(status) ==
  /\ stage' = "issued"
  /\ receipt' = status
  /\ UNCHANGED pilot

\* No execution and no approval.
IssueReadOnly ==
  /\ stage = "bound"
  /\ request.proposal.terms.class \in {"read-only", "proposal-only", "escalation-only"}
  /\ Issue("read-only-complete")
  /\ UNCHANGED request

\* Mutation: whose proposal it is, is not looked at.
AnyApproval(a, p, current) == TRUE

\* _approval_matches_proposal
ApprovalMatches(a, p, current) == a.proposal = p /\ p.observation = current

\* No execution, because the owner denied the proposal or let it expire.
IssueRefusal ==
  /\ stage = "bound"
  /\ \E a \in ApprovalsFor(request.proposal) :
       /\ request.proposal.terms.requirement # "none"
       /\ request.proposal.terms.class = "bounded-execution"
       /\ a.outcome \in {"deny", "expire"}
       /\ ApprovalMatches(a, request.proposal, request.observation)
       /\ request' = [request EXCEPT !.approval = a]
       /\ Issue(IF a.outcome = "deny" THEN "denied" ELSE "expired")

\* An execution of this proposal, with its approval where the row asks for one.
BindExecution ==
  /\ stage = "bound"
  /\ request.proposal.terms.class = "bounded-execution"
  /\ \E a \in ApprovalsFor(request.proposal) :
       /\ IF request.proposal.terms.requirement = "none"
          THEN a = NoApproval
          ELSE a.outcome = "approve" /\ ApprovalMatches(a, request.proposal, request.observation)
       /\ \E e \in ExecutionsFor(request.proposal, a) :
            /\ e.proposal = request.proposal
            /\ e.approval = a
            /\ request' = [request EXCEPT !.approval = a, !.execution = e]
  /\ stage' = "executed"
  /\ UNCHANGED <<receipt, pilot>>

\* derive_receipt_status; "denied" contradicts the execution the receipt binds.
ExecutedStatus(e, v) ==
  CASE e.status = "denied"                                 -> "denied"
    [] e.status = "failed"                                 -> "execution-failed"
    [] e.status = "not-run"                                -> "not-run"
    [] e.status = "executed" /\ v.status = "escalate"      -> "escalated"
    [] e.status = "executed" /\ v.status = "fail"          -> "verification-failed"
    [] e.status = "executed" /\ v.status = "pass"          -> "verified"
    [] OTHER                                               -> "executed-unverified"

\* A verification, where there is one, is of this execution.
IssueExecuted ==
  /\ stage = "executed"
  /\ \E v \in VerificationsFor(request.proposal, request.execution) :
       /\ v # NoVerification => v.execution = request.execution
       /\ v.status = "pass" => v.proven = "all"
       /\ ExecutedStatus(request.execution, v) # "denied"
       /\ request' = [request EXCEPT !.verification = v]
       /\ Issue(ExecutedStatus(request.execution, v))

\* validate_processor_successor_proposal, then validate_processor_owner_approval of
\* what the owner approved for what is observed now.  The second looks at the binding
\* only: that a caller runs the first as well is assumed, the repository has none.
\* The builder receipts no such proposal.
ApproveSuccessor ==
  /\ stage = "idle"
  /\ \E o \in Observed :
       \E p \in ProposalsFor(o) :
         /\ ValidSuccessor(o, p)
         /\ \E a \in ApprovalsFor(p), current \in {o} \cup Elsewhere :
              /\ a.outcome = "approve"
              /\ ApprovalMatches(a, p, current)
              /\ request' = Request(current, p, a, NoExecution, NoVerification)
  /\ stage' = "approved"
  /\ UNCHANGED <<receipt, pilot>>

\* A ContractViolation, or a receipt: the caller starts over with other records.
Again ==
  /\ stage # "idle"
  /\ stage' = "idle"
  /\ request' = Nothing
  /\ receipt' = "none"
  /\ UNCHANGED pilot

-----------------------------------------------------------------------------
(* The read-only pilot *)

\* What SQLiteProcessorReadTool.inspect makes of the authority: the states of the
\* eligible artifacts, a conflict or a failure without counts.
Inspections ==
  {r \in ProcessorReading :
     /\ r.integrity # "unavailable"
     /\ ~ r.deferred
     /\ r.integrity = "fail" => ~ (r.conflicts \/ r.prepared \/ r.missing)
     /\ r.conflicts => ~ (r.prepared \/ r.missing)}

\* Mutation: the pilot does not report missing jobs beside prepared ones.
PilotFirstFinding(o) ==
  Found(Sign("INTEGRITY_FAILURE", o.integrity = "fail")
        \cup Sign("UNAVAILABLE", o.integrity = "unavailable")
        \cup Sign("IDENTITY_CONFLICT", o.conflicts)
        \cup Sign("PREPARED_BACKLOG", o.prepared)
        \cup Sign("MISSING_BACKLOG", o.missing /\ ~ o.prepared)
        \cup Sign("DEFERRED_BUSY", o.deferred))

\* _finding_codes, the pilot's own copy of the classifier's table.
PilotFindings(o) ==
  Found(Sign("INTEGRITY_FAILURE", o.integrity = "fail")
        \cup Sign("UNAVAILABLE", o.integrity = "unavailable")
        \cup Sign("IDENTITY_CONFLICT", o.conflicts)
        \cup Sign("PREPARED_BACKLOG", o.prepared)
        \cup Sign("MISSING_BACKLOG", o.missing)
        \cup Sign("DEFERRED_BUSY", o.deferred))

\* The builder's verdict on a proposal that comes with nothing else.
ReadOnlyReceipt(o, p) ==
  /\ ValidProposal(o, p)
  /\ p.terms.class \in {"read-only", "proposal-only", "escalation-only"}

\* ProcessorAgentCore.inspect: once, proposal-only, and receipted read-only; any
\* contract violation on the way is raised.
PilotInspects ==
  /\ pilot = "new"
  /\ \E o \in {Observation(r, PilotFindings(r)) : r \in Inspections} :
       \/ ReadOnlyReceipt(o, Propose(o))   /\ pilot' = "spent"
       \/ ~ ReadOnlyReceipt(o, Propose(o)) /\ pilot' = "refused"
  /\ UNCHANGED <<stage, request, receipt>>

\* The database cannot be read, or its schema is not version 10: nothing is made.
PilotFails ==
  /\ pilot = "new"
  /\ pilot' = "spent"
  /\ UNCHANGED <<stage, request, receipt>>

-----------------------------------------------------------------------------

Next ==
  \/ Bind \/ IssueReadOnly \/ IssueRefusal \/ BindExecution \/ IssueExecuted
  \/ ApproveSuccessor \/ Again
  \/ PilotInspects \/ PilotFails

Spec == Init /\ [][Next]_vars

-----------------------------------------------------------------------------
(* Properties *)

BindsExecution == stage = "issued" /\ request.execution # NoExecution

\* The approval in hand is of the proposal in hand, for what is observed now.
ApprovalInHand ==
  /\ request.approval = [proposal |-> request.proposal, outcome |-> "approve"]
  /\ request.proposal.observation = request.observation

\* A receipt tells the story of one round, whichever records of other rounds were
\* handed in with it: what was executed is what was proposed for this observation,
\* the owner approved exactly that where one is needed, and VERIFIED means that
\* this very execution was read back with every required invariant proven.
OneLineage ==
  /\ stage = "approved" => ApprovalInHand
  /\ BindsExecution =>
       LET e == request.execution
           p == request.proposal
           v == request.verification
       IN
       /\ e.proposal = p
       /\ p.observation = request.observation
       /\ p.operation # "INVOKE_VERIFY" =>
            e.approval = [proposal |-> p, outcome |-> "approve"]
       /\ receipt = "verified" =>
            /\ e.status = "executed"
            /\ v.execution = e /\ v.status = "pass" /\ v.proven = "all"

\* The contracts fail closed: however much work is waiting, nothing is receipted as
\* executed for an authority, a source or a target that was observed to be wrong,
\* and a target that is out of reach is at most verified.
FailsClosed ==
  BindsExecution \/ stage = "approved" =>
    LET o == request.observation.reading
    IN \/ /\ o.service = "processor"
          /\ o.integrity = "pass" /\ ~ o.conflicts
       \/ /\ o.service = "replication"
          /\ o.identity = "match" /\ o.source = "pass" /\ o.provider = "pass"
       \/ /\ o.service = "replication"
          /\ request.proposal.operation = "INVOKE_VERIFY"
          /\ o.identity \in {"match", "unavailable"} /\ o.source = "pass" /\ o.provider # "fail"

\* The first phase is read-only as a whole: no receipt of it binds an approval or
\* an execution, whatever phase and policy row a proposal claims for itself.
WaveCReadOnly ==
  (stage = "issued" /\ request.proposal.phase = "wave-c") => receipt = "read-only-complete"

\* Whatever can be observed, the proposer's answer is one the builder receipts.
EveryReadingAccepted ==
  \A r \in Readings :
    LET o == Observation(r, TrueFindings(r)) IN ReadOnlyReceipt(o, Propose(o))

\* Observer, classifier, proposer, policy and builder are separate tables in
\* separate files; they agree, so that the pilot is never refused by the contracts,
\* and whatever can be observed has a read-only proposal that they accept.
ReadOnlyAccepted == pilot # "refused" /\ EveryReadingAccepted
=============================================================================
