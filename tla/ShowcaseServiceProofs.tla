------------------------ MODULE ShowcaseServiceProofs ------------------------
(***************************************************************************)
(* Proofs about GET /api/demo, for any number of handler threads and any   *)
(* bound on the workloads: its types, the semaphore, and the one summary   *)
(* that everybody is answered with.                                        *)
(***************************************************************************)
EXTENDS ShowcaseService, TLAPS

-----------------------------------------------------------------------------
(* The inductive invariant *)

\* Whoever was answered "pass" has the cached summary, and there is one.
PassedCached == \A r \in Requests : status[r] = "pass" => cache # 0 /\ summary[r] = cache

\* The second look at the cache stays true up to the store: nobody fills the
\* cache without the slot, which the handler at work holds.
WorkUncached ==
  \A r \in Requests :
    /\ pc[r] \in {"run", "store"} => cache = 0 /\ summary[r] # 0
    /\ pc[r] \in {"lookup", "acquire", "recheck", "run", "store"} => status[r] = "none"

ServiceInv == ServiceTypeOK /\ GateConserved /\ PassedCached /\ WorkUncached

\* Init's only slot is free, and nobody has been answered.
LEMMA InitService == Init => ServiceInv
  BY ServiceAssumption
  DEF Init, ServiceInv, ServiceTypeOK, Labels, GateConserved, Holding, PassedCached, WorkUncached

LEMMA StepType ==
  ASSUME ServiceInv, NEW r \in Requests, Arrive(r) \/ HandlerStep(r) \/ WorkloadFails(r)
  PROVE  ServiceTypeOK'
<1> USE ServiceAssumption DEF ServiceInv, ServiceTypeOK, Labels, Goto, Respond
<1>1. gate' \in 0..1
  BY DEF GateConserved, Holding, HandlerStep, Arrive, Lookup, Acquire, Recheck, WorkloadPasses,
     WorkloadFails, StoreSummary, Release, Answer
<1>2. cache' \in 0..MaxStarts /\ started' \in 0..MaxStarts
  BY DEF HandlerStep, Arrive, Lookup, Acquire, Recheck, Start, WorkloadPasses,
     WorkloadFails, StoreSummary, Release, Answer
<1>3. /\ pc' \in [Requests -> Labels]
      /\ status' \in [Requests -> {"none", "pass", "busy", "error", "dropped"}]
  BY DEF HandlerStep, Arrive, Lookup, Acquire, Recheck, Start, WorkloadPasses,
     WorkloadFails, StoreSummary, Release, Answer
<1>4. summary' \in [Requests -> 0..MaxStarts]
  BY <1>2 DEF HandlerStep, Arrive, Lookup, Acquire, Recheck, Start, WorkloadPasses,
     WorkloadFails, StoreSummary, Release, Answer
<1> QED BY <1>1, <1>2, <1>3, <1>4

\* The slot goes with the handler: taken at acquire, given back at release.
LEMMA StepGate ==
  ASSUME ServiceInv, NEW r \in Requests, Arrive(r) \/ HandlerStep(r) \/ WorkloadFails(r)
  PROVE  GateConserved'
<1> USE DEF ServiceInv, ServiceTypeOK, GateConserved, Holding, Goto, Respond
<1>1. CASE Acquire(r)
  BY <1>1 DEF Acquire
<1>2. CASE Release(r)
  <2>1. gate = 0
    BY <1>2 DEF Release
  <2>2. \A s \in Holding : s = r
    BY <1>2 DEF Release
  <2> QED BY <1>2, <2>1, <2>2 DEF Release
<1>3. CASE Arrive(r) \/ Lookup(r) \/ Recheck(r) \/ WorkloadPasses(r) \/ WorkloadFails(r)
           \/ StoreSummary(r) \/ Answer(r)
  <2>1. /\ gate' = gate
        /\ \A s \in Requests : s \in Holding' <=> s \in Holding
    BY <1>3 DEF Arrive, Lookup, Recheck, Start, WorkloadPasses, WorkloadFails, StoreSummary, Answer
  <2> QED BY <2>1
<1> QED BY <1>1, <1>2, <1>3 DEF HandlerStep

LEMMA StepCache ==
  ASSUME ServiceInv, NEW r \in Requests, Arrive(r) \/ HandlerStep(r) \/ WorkloadFails(r)
  PROVE  PassedCached' /\ WorkUncached'
<1> USE ServiceAssumption
    DEF ServiceInv, ServiceTypeOK, Labels, PassedCached, WorkUncached, Goto, Respond
<1>1. CASE Arrive(r)          BY <1>1 DEF Arrive
<1>2. CASE Lookup(r)          BY <1>2 DEF Lookup
<1>3. CASE Acquire(r)         BY <1>3 DEF Acquire
<1>4. CASE Recheck(r)         BY <1>4 DEF Recheck, Start
<1>5. CASE WorkloadPasses(r)  BY <1>5 DEF WorkloadPasses
<1>6. CASE WorkloadFails(r)   BY <1>6 DEF WorkloadFails
<1>7. CASE StoreSummary(r)
  \* Nobody else is at work, and nobody has been answered "pass" yet.
  <2>1. \A s \in Requests : pc[s] \in {"run", "store"} => s = r
    BY <1>7 DEF StoreSummary, GateConserved, Holding
  <2>2. \A s \in Requests : status[s] # "pass"
    BY <1>7 DEF StoreSummary
  <2> QED BY <1>7, <2>1, <2>2 DEF StoreSummary
<1>8. CASE Release(r)         BY <1>8 DEF Release
<1>9. CASE Answer(r)          BY <1>9 DEF Answer
<1> QED
  BY <1>1, <1>2, <1>3, <1>4, <1>5, <1>6, <1>7, <1>8, <1>9 DEF HandlerStep

LEMMA StutterService ==
  ASSUME ServiceInv, UNCHANGED vars
  PROVE  ServiceInv'
  BY DEF vars, ServiceInv, ServiceTypeOK, GateConserved, Holding, PassedCached, WorkUncached

LEMMA ServiceStep == ServiceInv /\ [Next]_vars => ServiceInv'
  BY StepType, StepGate, StepCache, StutterService DEF Next, ServiceInv

LEMMA ServiceInvariance == Spec => []ServiceInv
  BY InitService, ServiceStep, PTL DEF Spec

-----------------------------------------------------------------------------
(* Theorems *)

\* Every state is well typed: in particular Release never gives back a slot
\* that is free, so the semaphore's count stays 0 or 1.
THEOREM ServiceTyped == Spec => []ServiceTypeOK
<1>1. ServiceInv => ServiceTypeOK
  BY DEF ServiceInv
<1> QED BY <1>1, ServiceInvariance, PTL

\* The slot is free exactly when no handler is between acquire and release, and
\* at most one is, on every path through get_demo_summary and its finally clause.
THEOREM GateKept == Spec => []GateConserved
<1>1. ServiceInv => GateConserved
  BY DEF ServiceInv
<1> QED BY <1>1, ServiceInvariance, PTL

\* No two handlers answer "pass" with the summaries of two different workloads.
THEOREM OneSummary == Spec => []SameSummary
<1>1. ServiceInv => SameSummary
  BY DEF ServiceInv, PassedCached, SameSummary
<1> QED BY <1>1, ServiceInvariance, PTL
=============================================================================
