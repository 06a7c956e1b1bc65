------------------------ MODULE TargetInitialization ------------------------
(***************************************************************************)
(* init_target of the replication worker (core/worker.py) with the markers *)
(* of both adapters: the marker is made first and the row afterwards, in   *)
(* no common transaction.  Each invocation runs once; a retry is another.  *)
(* There is one location of each kind, a bucket and a mount, that both     *)
(* operators may mean; what a marker holds depends on the target id alone. *)
(* A file of the mount is named after the invocation that writes it.       *)
(***************************************************************************)
CONSTANTS Invocations, Targets

ASSUME TargetAssumption == "none" \notin Targets /\ "none" \notin Invocations

VARIABLES
  row,        \* replica_targets: the adapter kind of each target
  object,     \* the target whose marker the bucket holds
  final,      \* the file with the name of the marker
  part,       \* the file with the name of its partial
  bytes,      \* what the file of each invocation contains
  pc, id, kind

storeVars == <<row, object, final, part, bytes>>
vars      == <<storeVars, pc, id, kind>>

Kinds  == {"gcs", "nfs"}
Ended  == {"done", "refused", "interrupted"}
Active == {"row", "upload", "look", "sweep", "unlink", "create", "fill", "link", "tidy",
           "check", "register", "bind"}

\* A file that can be found by name was created, and one that is about to be
\* linked by its writer is whole.
InitializationTypeOK ==
  /\ row \in [Targets -> Kinds \cup {"none"}]
  /\ object \in Targets \cup {"none"}
  /\ final \in Invocations \cup {"none"}
  /\ part \in Invocations \cup {"none"}
  /\ bytes \in [Invocations -> {"none", "some", "whole"}]
  /\ pc \in [Invocations -> Active \cup Ended]
  /\ id \in [Invocations -> Targets]
  /\ kind \in [Invocations -> Kinds]
  /\ \A i \in Invocations :
       /\ i \in {final, part} => bytes[i] # "none"
       /\ pc[i] = "link" => bytes[i] = "whole"
       /\ pc[i] \in {"row", "upload", "look", "sweep", "unlink", "create"}
            => bytes[i] = "none"

\* Which target and which adapter an invocation is for is its command line.
Init ==
  /\ row = [t \in Targets |-> "none"]
  /\ object = "none"
  /\ final = "none"
  /\ part = "none"
  /\ bytes = [i \in Invocations |-> "none"]
  /\ pc = [i \in Invocations |-> "row"]
  /\ id \in [Invocations -> Targets]
  /\ kind \in [Invocations -> Kinds]

\* The target that whoever reads the marker of a location takes it to be.
Visible(k) ==
  IF k = "gcs" THEN object
  ELSE IF final # "none" /\ bytes[final] = "whole" THEN id[final] ELSE "none"

Goto(i, l) ==
  /\ pc' = [pc EXCEPT ![i] = l]
  /\ UNCHANGED <<id, kind>>

\* The row found, or not, decides whether the marker is made or only read.
ReadRow(i) ==
  /\ pc[i] = "row"
  /\ \/ row[id[i]] = "none" /\ kind[i] = "gcs" /\ Goto(i, "upload")
     \/ row[id[i]] = "none" /\ kind[i] = "nfs" /\ Goto(i, "look")
     \/ row[id[i]] = kind[i] /\ Goto(i, "bind")
     \/ row[id[i]] \notin {"none", kind[i]} /\ Goto(i, "refused")
  /\ UNCHANGED storeVars

-----------------------------------------------------------------------------
(* The bucket *)

\* if_generation_match=0; the marker of anyone is left to the reading that follows.
\* The answer to a request that took effect may be lost.
UploadMarker(i) ==
  /\ pc[i] = "upload"
  /\ \/ /\ object = "none"
        /\ object' = id[i]
        /\ \E l \in {"check", "interrupted"} : Goto(i, l)
     \/ /\ object # "none"
        /\ Goto(i, "check")
        /\ UNCHANGED object
  /\ UNCHANGED <<row, final, part, bytes>>

-----------------------------------------------------------------------------
(* The mount *)

LookForMarker(i) ==
  /\ pc[i] = "look"
  /\ Goto(i, IF final = "none" THEN "sweep" ELSE "check")
  /\ UNCHANGED storeVars

\* Mutation: a leftover partial is not looked for.
LookForNothing(i) ==
  /\ pc[i] = "sweep"
  /\ Goto(i, "create")
  /\ UNCHANGED storeVars

LookForPartial(i) ==
  /\ pc[i] = "sweep"
  /\ Goto(i, IF part = "none" THEN "create" ELSE "unlink")
  /\ UNCHANGED storeVars

\* The partial seen may be gone by now, or be that of somebody else.
UnlinkLeftover(i) ==
  /\ pc[i] = "unlink"
  /\ Goto(i, IF part = "none" THEN "refused" ELSE "create")
  /\ part' = "none"
  /\ UNCHANGED <<row, object, final, bytes>>

CreateMarkerPartial(i) ==
  /\ pc[i] = "create"
  /\ \/ /\ part = "none"
        /\ part' = i
        /\ bytes' = [bytes EXCEPT ![i] = "some"]
        /\ Goto(i, "fill")
     \/ /\ part # "none"
        /\ Goto(i, "refused")
        /\ UNCHANGED <<part, bytes>>
  /\ UNCHANGED <<row, object, final>>

\* The write through the descriptor: it reaches the file whatever its names are.
FillMarker(i) ==
  /\ pc[i] = "fill"
  /\ bytes' = [bytes EXCEPT ![i] = "whole"]
  /\ Goto(i, "link")
  /\ UNCHANGED <<row, object, final, part>>

\* link goes by name: it binds the file that has the name of the partial now.
LinkMarker(i) ==
  /\ pc[i] = "link"
  /\ \/ part = "none" /\ Goto(i, "refused") /\ UNCHANGED final
     \/ part # "none" /\ final = "none" /\ final' = part /\ Goto(i, "tidy")
     \/ part # "none" /\ final # "none" /\ Goto(i, "tidy") /\ UNCHANGED final
  /\ UNCHANGED <<row, object, part, bytes>>

\* Mutation: the marker that was linked is not read.
UnlinkAndTrust(i) ==
  /\ pc[i] = "tidy"
  /\ part' = "none"
  /\ Goto(i, "register")
  /\ UNCHANGED <<row, object, final, bytes>>

\* unlink(missing_ok=True)
UnlinkMarkerPartial(i) ==
  /\ pc[i] = "tidy"
  /\ part' = "none"
  /\ Goto(i, "check")
  /\ UNCHANGED <<row, object, final, bytes>>

-----------------------------------------------------------------------------

\* The end of initialize: the marker that is there, whoever made it, is this one.
CheckMarker(i) ==
  /\ pc[i] = "check"
  /\ Goto(i, IF Visible(kind[i]) = id[i] THEN "register" ELSE "refused")
  /\ UNCHANGED storeVars

\* Mutation: any row that is there by now is taken for this one.
RegisterAny(i) ==
  /\ pc[i] = "register"
  /\ row' = [row EXCEPT ![id[i]] = IF @ = "none" THEN kind[i] ELSE @]
  /\ Goto(i, "bind")
  /\ UNCHANGED <<object, final, part, bytes>>

\* BEGIN IMMEDIATE: the row is read again and inserted in one transaction.
RegisterTarget(i) ==
  /\ pc[i] = "register"
  /\ \/ /\ row[id[i]] = "none"
        /\ row' = [row EXCEPT ![id[i]] = kind[i]]
        /\ Goto(i, "bind")
     \/ /\ row[id[i]] # "none"
        /\ Goto(i, IF row[id[i]] = kind[i] THEN "bind" ELSE "refused")
        /\ UNCHANGED row
  /\ UNCHANGED <<object, final, part, bytes>>

BindTarget(i) ==
  /\ pc[i] = "bind"
  /\ Goto(i, IF Visible(kind[i]) = id[i] THEN "done" ELSE "refused")
  /\ UNCHANGED storeVars

\* A call fails or the process dies: both leave everything as it is.
Interrupt(i) ==
  /\ pc[i] \in Active
  /\ Goto(i, "interrupted")
  /\ UNCHANGED storeVars

-----------------------------------------------------------------------------

Step(i) ==
  \/ ReadRow(i) \/ UploadMarker(i) \/ LookForMarker(i) \/ LookForPartial(i)
  \/ UnlinkLeftover(i) \/ CreateMarkerPartial(i) \/ FillMarker(i) \/ LinkMarker(i)
  \/ UnlinkMarkerPartial(i) \/ CheckMarker(i) \/ RegisterTarget(i) \/ BindTarget(i)

Next == \E i \in Invocations : Step(i) \/ Interrupt(i)

Spec == Init /\ [][Next]_vars

\* A command goes on: none of its calls waits for anyone.  One that is never
\* given is one that is interrupted at once.
FairSpec == Spec /\ \A i \in Invocations : WF_vars(Step(i))

-----------------------------------------------------------------------------
(* Properties *)

\* A registered target has its marker at its location.
RegisteredIsMarked == \A t \in Targets : row[t] # "none" => Visible(row[t]) = t

\* init_target succeeds only with both halves in place, whoever made them: the row
\* of its target, with its adapter, and at that location the whole marker of it.
DoneMeansBound ==
  \A i \in Invocations :
    pc[i] = "done" => row[id[i]] = kind[i] /\ Visible(kind[i]) = id[i]

\* Beside crashes and other initializers, of the same target or of others, the
\* abstract registry is implemented: a location that a reader can identify never
\* becomes another, and only a target that has claimed one is registered with it.
Registry == INSTANCE TargetRegistry WITH marker <- [k \in Kinds |-> Visible(k)]
ImplementsRegistry == Registry!Spec

\* Nobody else is under way, the target is not registered elsewhere, and its
\* location has no marker or one that is already its own.
Undisturbed(i) ==
  /\ \A j \in Invocations \ {i} : pc[j] \in Ended
  /\ row[id[i]] \in {"none", kind[i]}
  /\ (kind[i] = "nfs" /\ final # "none") => Visible("nfs") = id[i]
  /\ (kind[i] = "gcs" /\ object # "none") => object = id[i]

\* Wherever earlier initializers were interrupted, one that is undisturbed
\* succeeds unless it is interrupted itself.
Resumes ==
  \A i \in Invocations :
    (pc[i] = "row" /\ Undisturbed(i)) ~> pc[i] \in {"done", "interrupted"}
=============================================================================
