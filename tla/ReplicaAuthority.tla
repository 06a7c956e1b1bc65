-------------------------- MODULE ReplicaAuthority --------------------------
(***************************************************************************)
(* What the replication worker promises about one target, object by        *)
(* object, and nothing about how it gets there: a finalized object is      *)
(* registered, at most one creation gives it bytes at the destination, and *)
(* the row is turned VERIFIED only while the destination holds the exact   *)
(* bytes.  README.md of the worker draws it as                             *)
(*   finalized source -> discovered replica object -> PENDING              *)
(*     -> exact adoption or immutable create -> read-back -> VERIFIED.     *)
(* GcsReplication and NfsReplication are shown to implement it.            *)
(***************************************************************************)

CONSTANT Objects            \* the replica objects of one target

VARIABLES state,            \* the authority's row: "ABSENT", "PENDING", "VERIFIED"
          replica           \* the destination name: "absent", "exact", "wrong"

vars == <<state, replica>>

RowState == {"ABSENT", "PENDING", "VERIFIED"}
Bytes    == {"exact", "wrong"}

\* A destination may hold bytes before the worker knows the object.
Init ==
  /\ state = [o \in Objects |-> "ABSENT"]
  /\ replica \in [Objects -> Bytes \cup {"absent"}]

\* One transaction registers any set of objects the authority lacks.
Register(S) ==
  /\ \A o \in S : state[o] = "ABSENT"
  /\ state' = [o \in Objects |-> IF o \in S THEN "PENDING" ELSE state[o]]
  /\ UNCHANGED replica

\* Immutable create: only where nothing is, never over existing bytes.
Create(o, b) ==
  /\ state[o] # "ABSENT"
  /\ replica[o] = "absent"
  /\ replica' = [replica EXCEPT ![o] = b]
  /\ UNCHANGED state

\* Read-back and the state change, seen as one step.
MarkVerified(o) ==
  /\ state[o] = "PENDING"
  /\ replica[o] = "exact"
  /\ state' = [state EXCEPT ![o] = "VERIFIED"]
  /\ UNCHANGED replica

Next ==
  \/ \E S \in SUBSET Objects : Register(S)
  \/ \E o \in Objects : MarkVerified(o)
  \/ \E o \in Objects, b \in Bytes : Create(o, b)

Spec == Init /\ [][Next]_vars
=============================================================================
