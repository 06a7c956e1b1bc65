------------------------- MODULE MCEvidenceDatabase -------------------------
(* Two occurrences, the first streamed and replicated, the second imported. *)
EXTENDS EvidenceDatabase, TLC

CONSTANTS o1, o2, a1, a2

MCOccurrences == {o1, o2}
MCStreamed == {o1}
MCImported == {o2}
MCReplicated == {o1}
MCArtifacts == {a1, a2}
MCReleases == {2, 3, 6, 7, 9, 10}
MCSymmetry == Permutations(MCArtifacts)
=============================================================================
