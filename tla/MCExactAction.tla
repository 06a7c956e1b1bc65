---------------------------- MODULE MCExactAction ----------------------------
(***************************************************************************)
(* One execution of run_exact beside one ordinary command, over the        *)
(* content of one artifact.                                                *)
(***************************************************************************)
EXTENDS ExactAction

MCObjectsOf == [e \in Evidence |-> Objects]
=============================================================================
