-------------------------- MODULE MCNfsReplication --------------------------
(***************************************************************************)
(* One artifact: its content is object 1, its manifest object 2.           *)
(***************************************************************************)
EXTENDS NfsReplication, TLC

MCObjectsOf == [e \in Evidence |-> {1, 2} \cap Objects]

Symmetry == Permutations(Workers)
=============================================================================
