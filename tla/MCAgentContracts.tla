--------------------------- MODULE MCAgentContracts ---------------------------
(***************************************************************************)
(* Everything that can be observed from one snapshot, and two readings of  *)
(* another round.                                                          *)
(***************************************************************************)
EXTENDS AgentContracts

MCReadings ==
  {o \in ProcessorReading \cup ReplicationReading : o.snapshot = 1}

MCOthers ==
  {[service |-> "replication", snapshot |-> 2, identity |-> "match", source |-> "pass",
    provider |-> "pass", failed |-> FALSE, unregistered |-> TRUE, pending |-> FALSE],
   [service |-> "processor", snapshot |-> 2, integrity |-> "pass", conflicts |-> FALSE,
    prepared |-> FALSE, missing |-> TRUE, deferred |-> FALSE]}

MCClaims == {"INVOKE_WORKER_RUN", "INVOKE_RUN", "INVOKE_VERIFY", "INVOKE_RECONCILE",
             "ESCALATE_STATE", "GENERAL_SHELL"}
=============================================================================
