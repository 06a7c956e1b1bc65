-------------------------- MODULE MCGcsReplication --------------------------
(***************************************************************************)
(* One artifact, whose content is object 1 and whose manifest is object 2, *)
(* and where there are three objects one occurrence assertion, object 3.   *)
(***************************************************************************)
EXTENDS GcsReplication, TLC

MCObjectsOf == [e \in Evidence |-> IF e = "artifact" THEN {1, 2} ELSE {3}]

Symmetry == Permutations(Workers)
=============================================================================
