----------------------- MODULE MCTargetInitialization -----------------------
(***************************************************************************)
(* Three invocations of init_target for two targets over one bucket, one   *)
(* mount and one database.  Nothing tells the invocations apart but their  *)
(* command lines, so only one order of each three command lines is taken.  *)
(***************************************************************************)
EXTENDS TargetInitialization, Naturals

CONSTANTS i1, i2, i3, t1, t2

Rank(i) == (IF id[i] = t1 THEN 0 ELSE 2) + (IF kind[i] = "nfs" THEN 0 ELSE 1)

MCInit == Init /\ Rank(i1) <= Rank(i2) /\ Rank(i2) <= Rank(i3)

MCSpec ==
  /\ MCInit
  /\ [][Next]_vars
  /\ \A i \in Invocations : WF_vars(Step(i))
=============================================================================
