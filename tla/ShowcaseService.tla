--------------------------- MODULE ShowcaseService ---------------------------
(***************************************************************************)
(* GET /api/demo of the live HTTP adapter (scripts/serve_showcase.py): one *)
(* thread per request, a cached summary behind a lock, and a semaphore     *)
(* that lets one of them run the synthetic workload while the others are   *)
(* told it is busy.  One action is one section under _DEMO_CACHE_LOCK, one *)
(* operation on the semaphore, or the end of the workload.                 *)
(***************************************************************************)
EXTENDS Naturals

CONSTANTS
  Requests,     \* handler threads of the ThreadingHTTPServer
  MaxStarts     \* workloads are numbered up to here

ASSUME ServiceAssumption == MaxStarts \in Nat \ {0}

VARIABLES
  cache,        \* _DEMO_CACHE: the workload whose summary it is, 0 for None
  gate,         \* the free slots of _DEMO_GATE
  started,      \* workloads started so far
  pc,           \* where each handler is
  summary,      \* the summary its frame holds, 0 for none
  status        \* the response: "pass", "busy", "error", or none yet

vars == <<cache, gate, started, pc, summary, status>>

Labels == {"idle", "lookup", "acquire", "recheck", "run", "store", "release", "answer"}

ServiceTypeOK ==
  /\ cache \in 0..MaxStarts
  /\ gate \in 0..1
  /\ started \in 0..MaxStarts
  /\ pc \in [Requests -> Labels]
  /\ summary \in [Requests -> 0..MaxStarts]
  /\ status \in [Requests -> {"none", "pass", "busy", "error", "dropped"}]

Init ==
  /\ cache = 0
  /\ gate = 1
  /\ started = 0
  /\ pc = [r \in Requests |-> "idle"]
  /\ summary = [r \in Requests |-> 0]
  /\ status = [r \in Requests |-> "none"]

Goto(r, l) == pc' = [pc EXCEPT ![r] = l]

\* The handler ends up with this response, and goes on to l.
Respond(r, s, l) ==
  /\ status' = [status EXCEPT ![r] = s]
  /\ Goto(r, l)

-----------------------------------------------------------------------------

Arrive(r) ==
  /\ pc[r] = "idle"
  /\ Respond(r, "none", "lookup")
  /\ summary' = [summary EXCEPT ![r] = 0]
  /\ UNCHANGED <<cache, gate, started>>

Lookup(r) ==
  /\ pc[r] = "lookup"
  /\ \/ /\ cache # 0
        /\ summary' = [summary EXCEPT ![r] = cache]
        /\ Respond(r, "pass", "answer")
     \/ /\ cache = 0
        /\ Goto(r, "acquire")
        /\ UNCHANGED <<summary, status>>
  /\ UNCHANGED <<cache, gate, started>>

\* Mutation: no semaphore.
AcquireNothing(r) ==
  /\ pc[r] = "acquire"
  /\ Goto(r, "recheck")
  /\ UNCHANGED <<cache, gate, started, summary, status>>

\* acquire(blocking=False), or DemoBusy.
Acquire(r) ==
  /\ pc[r] = "acquire"
  /\ \/ gate = 1 /\ gate' = 0 /\ Goto(r, "recheck") /\ UNCHANGED status
     \/ gate = 0 /\ Respond(r, "busy", "answer") /\ UNCHANGED gate
  /\ UNCHANGED <<cache, started, summary>>

\* A workload starts, under the next number.
Start(r) ==
  /\ started' = IF started < MaxStarts THEN started + 1 ELSE started
  /\ summary' = [summary EXCEPT ![r] = started']
  /\ Goto(r, "run")

\* Mutation: the cache is not looked at again.
RecheckNothing(r) ==
  /\ pc[r] = "recheck"
  /\ Start(r)
  /\ UNCHANGED <<cache, gate, status>>

\* The cache may have been filled between Lookup and Acquire.  Its lock is released
\* before the workload starts: one step here, since whoever holds the slot is the
\* only one that can fill the cache in between.
Recheck(r) ==
  /\ pc[r] = "recheck"
  /\ \/ /\ cache # 0
        /\ summary' = [summary EXCEPT ![r] = cache]
        /\ Respond(r, "pass", "release")
        /\ UNCHANGED started
     \/ /\ cache = 0
        /\ Start(r)
        /\ UNCHANGED status
  /\ UNCHANGED <<cache, gate>>

WorkloadPasses(r) ==
  /\ pc[r] = "run"
  /\ Goto(r, "store")
  /\ UNCHANGED <<cache, gate, started, summary, status>>

\* Mutation: the semaphore is released on success only.
WorkloadFailsHolding(r) ==
  /\ pc[r] = "run"
  /\ summary' = [summary EXCEPT ![r] = 0]
  /\ \E s \in {"error", "dropped"} : Respond(r, s, "answer")
  /\ UNCHANGED <<cache, gate, started>>

\* DemoFailure: exit status, time-out, unreadable summary.  Any other exception
\* leaves the handler without a response.  The finally clause still runs.
WorkloadFails(r) ==
  /\ pc[r] = "run"
  /\ summary' = [summary EXCEPT ![r] = 0]
  /\ \E s \in {"error", "dropped"} : Respond(r, s, "release")
  /\ UNCHANGED <<cache, gate, started>>

StoreSummary(r) ==
  /\ pc[r] = "store"
  /\ cache' = summary[r]
  /\ Respond(r, "pass", "release")
  /\ UNCHANGED <<gate, started, summary>>

Release(r) ==
  /\ pc[r] = "release"
  /\ gate' = gate + 1
  /\ Goto(r, "answer")
  /\ UNCHANGED <<cache, started, summary, status>>

Answer(r) ==
  /\ pc[r] = "answer"
  /\ Goto(r, "idle")
  /\ UNCHANGED <<cache, gate, started, summary, status>>

-----------------------------------------------------------------------------

HandlerStep(r) ==
  \/ Lookup(r) \/ Acquire(r) \/ Recheck(r) \/ WorkloadPasses(r) \/ StoreSummary(r)
  \/ Release(r) \/ Answer(r)

Next == \E r \in Requests : Arrive(r) \/ HandlerStep(r) \/ WorkloadFails(r)

Spec == Init /\ [][Next]_vars

\* Threads run, the workload ends (at the latest by its time-out), and clients
\* keep asking: a busy or an error response is marked retryable.
Fairness ==
  \A r \in Requests : WF_vars(HandlerStep(r) \/ WorkloadFails(r)) /\ WF_vars(Arrive(r))

FairSpec == Spec /\ Fairness

-----------------------------------------------------------------------------
(* Properties *)

Holding == {r \in Requests : pc[r] \in {"recheck", "run", "store", "release"}}

\* The slot is never lost and never given back twice, on any path through the
\* finally clause: it is free exactly when no handler is between acquire and
\* release, and then no two workloads run at the same time.
GateConserved ==
  /\ \A r, s \in Holding : r = s
  /\ gate = 1 <=> Holding = {}

\* Whoever is told "pass" is told the same thing: two handlers never answer with
\* the summaries of two different workloads, however they raced for the cache.
SameSummary ==
  \A r, s \in Requests :
    (status[r] = "pass" /\ status[s] = "pass") => summary[r] = summary[s]

\* A failed, timed-out or abandoned workload does not close the service: if
\* workloads eventually stop failing, one is run and its summary is cached.
Recovers == <>[][~ \E r \in Requests : WorkloadFails(r)]_vars => <>[](cache # 0)

\* docs/ARCHITECTURE.md: "An instance executes the synthetic demonstration at
\* most once".
AtMostOneExecution == started <= 1
=============================================================================
