---------------------------- MODULE TargetRegistry ----------------------------
(***************************************************************************)
(* What init-target promises: a location is claimed by at most one target  *)
(* and for good, and a target is registered at most once, with a location  *)
(* that it has claimed.                                                    *)
(***************************************************************************)
CONSTANTS Targets, Kinds

VARIABLES
  marker,   \* the target that a reader of the location finds, or "none"
  row       \* the kind a target is registered with, or "none"

Init ==
  /\ marker = [k \in Kinds |-> "none"]
  /\ row = [t \in Targets |-> "none"]

Claim(k, t) ==
  /\ marker[k] = "none"
  /\ marker' = [marker EXCEPT ![k] = t]
  /\ UNCHANGED row

RegisterTarget(t, k) ==
  /\ row[t] = "none"
  /\ marker[k] = t
  /\ row' = [row EXCEPT ![t] = k]
  /\ UNCHANGED marker

Next == \E t \in Targets, k \in Kinds : Claim(k, t) \/ RegisterTarget(t, k)

Spec == Init /\ [][Next]_<<marker, row>>
=============================================================================
