--------------------- MODULE TargetInitializationProofs ---------------------
(***************************************************************************)
(* For any number of initializers and targets: a registered target has its *)
(* marker, success means both halves are in place, and the registry is     *)
(* implemented.  That a marker which can be read stays what it is rests on *)
(* files being whole for good and names being bound once.                  *)
(***************************************************************************)
EXTENDS TargetInitialization, TLAPS

\* What the places between the marker and the row imply of both.
Places ==
  \A i \in Invocations :
    /\ pc[i] \in {"register", "bind", "done"} => Visible(kind[i]) = id[i]
    /\ pc[i] \in {"bind", "done"} => row[id[i]] = kind[i]

InitializationInv == InitializationTypeOK /\ RegisteredIsMarked /\ Places

\* The stores are well typed after every step.
LEMMA TypesStep ==
  InitializationTypeOK /\ [Next]_vars => InitializationTypeOK'
<1> SUFFICES ASSUME InitializationTypeOK, [Next]_vars PROVE InitializationTypeOK'
  OBVIOUS
<1> USE TargetAssumption DEF InitializationTypeOK, Kinds, Active, Ended, storeVars, Goto
<1>1. CASE UNCHANGED vars
  BY <1>1 DEF vars
<1>2. ASSUME NEW i \in Invocations, ReadRow(i) PROVE InitializationTypeOK'
  BY <1>2 DEF ReadRow
<1>3. ASSUME NEW i \in Invocations, UploadMarker(i) PROVE InitializationTypeOK'
  BY <1>3 DEF UploadMarker
<1>4. ASSUME NEW i \in Invocations, LookForMarker(i) PROVE InitializationTypeOK'
  BY <1>4 DEF LookForMarker
<1>5. ASSUME NEW i \in Invocations, LookForPartial(i) PROVE InitializationTypeOK'
  BY <1>5 DEF LookForPartial
<1>6. ASSUME NEW i \in Invocations, UnlinkLeftover(i) PROVE InitializationTypeOK'
  BY <1>6 DEF UnlinkLeftover
<1>7. ASSUME NEW i \in Invocations, CreateMarkerPartial(i) PROVE InitializationTypeOK'
  BY <1>7 DEF CreateMarkerPartial
<1>8. ASSUME NEW i \in Invocations, FillMarker(i) PROVE InitializationTypeOK'
  BY <1>8 DEF FillMarker
<1>9. ASSUME NEW i \in Invocations, LinkMarker(i) PROVE InitializationTypeOK'
  BY <1>9 DEF LinkMarker
<1>10. ASSUME NEW i \in Invocations, UnlinkMarkerPartial(i) PROVE InitializationTypeOK'
  BY <1>10 DEF UnlinkMarkerPartial
<1>11. ASSUME NEW i \in Invocations, CheckMarker(i) PROVE InitializationTypeOK'
  BY <1>11 DEF CheckMarker
<1>12. ASSUME NEW i \in Invocations, RegisterTarget(i) PROVE InitializationTypeOK'
  BY <1>12 DEF RegisterTarget
<1>13. ASSUME NEW i \in Invocations, BindTarget(i) PROVE InitializationTypeOK'
  BY <1>13 DEF BindTarget
<1>14. ASSUME NEW i \in Invocations, Interrupt(i) PROVE InitializationTypeOK'
  BY <1>14 DEF Interrupt
<1> QED
  BY <1>1, <1>2, <1>3, <1>4, <1>5, <1>6, <1>7, <1>8, <1>9, <1>10, <1>11, <1>12, <1>13, <1>14
  DEF Next, Step

\* Command lines do not change.
LEMMA CommandLines == [Next]_vars => UNCHANGED <<id, kind>>
BY DEF Next, Step, ReadRow, UploadMarker, LookForMarker, LookForPartial, UnlinkLeftover,
  CreateMarkerPartial, FillMarker, LinkMarker, UnlinkMarkerPartial, CheckMarker,
  RegisterTarget, BindTarget, Interrupt, Goto, vars

\* A name of the marker is bound once, and a whole file stays whole.
LEMMA FilesStable ==
  ASSUME InitializationTypeOK, [Next]_vars
  PROVE  /\ object # "none" => object' = object
         /\ final # "none" => final' = final
         /\ \A i \in Invocations : bytes[i] = "whole" => bytes'[i] = "whole"
<1> USE TargetAssumption DEF InitializationTypeOK, Goto
<1>1. ASSUME NEW i \in Invocations, CreateMarkerPartial(i)
      PROVE  \A j \in Invocations : bytes[j] = "whole" => bytes'[j] = "whole"
  BY <1>1 DEF CreateMarkerPartial
<1>2. ASSUME NEW i \in Invocations, FillMarker(i)
      PROVE  \A j \in Invocations : bytes[j] = "whole" => bytes'[j] = "whole"
  BY <1>2 DEF FillMarker
<1>3. \A j \in Invocations : bytes[j] = "whole" => bytes'[j] = "whole"
  BY <1>1, <1>2 DEF Next, Step, ReadRow, UploadMarker, LookForMarker, LookForPartial,
    UnlinkLeftover, LinkMarker, UnlinkMarkerPartial, CheckMarker,
    RegisterTarget, BindTarget, Interrupt, vars, storeVars
<1>4. /\ object # "none" => object' = object
      /\ final # "none" => final' = final
  BY DEF Next, Step, ReadRow, UploadMarker, LookForMarker, LookForPartial, UnlinkLeftover,
    CreateMarkerPartial, FillMarker, LinkMarker, UnlinkMarkerPartial, CheckMarker,
    RegisterTarget, BindTarget, Interrupt, vars, storeVars
<1> QED
  BY <1>3, <1>4

\* What a reader of a location finds there stays.
LEMMA VisibleStable ==
  ASSUME InitializationTypeOK, [Next]_vars, NEW k \in Kinds, NEW t \in Targets, Visible(k) = t
  PROVE  Visible(k)' = t
<1>1. /\ object # "none" => object' = object
      /\ final # "none" => final' = final
      /\ \A i \in Invocations : bytes[i] = "whole" => bytes'[i] = "whole"
  BY FilesStable
<1>2. UNCHANGED <<id, kind>>
  BY CommandLines
<1>3. final \in Invocations \cup {"none"}
  BY DEF InitializationTypeOK
<1>4. t # "none"
  BY TargetAssumption
<1> QED
  BY <1>1, <1>2, <1>3, <1>4 DEF Visible

\* Rows are never changed, and one that is made is that of a target whose
\* marker has been read.
LEMMA RowsStep ==
  ASSUME InitializationTypeOK, Places, [Next]_vars, NEW t \in Targets
  PROVE  row'[t] = row[t] \/ (row[t] = "none" /\ row'[t] \in Kinds /\ Visible(row'[t]) = t)
<1> USE DEF InitializationTypeOK
<1>1. ASSUME NEW i \in Invocations, RegisterTarget(i)
      PROVE  row'[t] = row[t] \/ (row[t] = "none" /\ row'[t] \in Kinds /\ Visible(row'[t]) = t)
  BY <1>1 DEF RegisterTarget, Goto, Places
<1> QED
  BY <1>1 DEF Next, Step, ReadRow, UploadMarker, LookForMarker, LookForPartial,
    UnlinkLeftover, CreateMarkerPartial, FillMarker, LinkMarker, UnlinkMarkerPartial,
    CheckMarker, BindTarget, Interrupt, vars, storeVars

\* The inductive invariant starts true ...
LEMMA InvInit == Init => InitializationInv
BY TargetAssumption DEF Init, InitializationInv, InitializationTypeOK, RegisteredIsMarked, Places, Kinds,
  Active, Ended

\* ... and is preserved.
LEMMA InvStep == InitializationInv /\ [Next]_vars => InitializationInv'
<1> SUFFICES ASSUME InitializationInv, [Next]_vars PROVE InitializationInv'
  OBVIOUS
<1>1. InitializationTypeOK /\ RegisteredIsMarked /\ Places
  BY DEF InitializationInv
<1>2. InitializationTypeOK'
  BY <1>1, TypesStep
<1>3. RegisteredIsMarked'
  <2>1. ASSUME NEW t \in Targets, NEW k \in Kinds, row'[t] = k
        PROVE  Visible(k)' = t
    <3>1. k # "none"
      BY DEF Kinds
    <3>2. Visible(k) = t
      BY <1>1, <2>1, <3>1, RowsStep DEF RegisteredIsMarked
    <3> QED
      BY <1>1, <3>2, VisibleStable
  <2>2. \A t \in Targets : row'[t] \in Kinds \cup {"none"}
    BY <1>2 DEF InitializationTypeOK
  <2> QED
    BY <2>1, <2>2 DEF RegisteredIsMarked, Visible
<1>4. Places'
  <2> SUFFICES ASSUME NEW i \in Invocations
               PROVE  /\ pc'[i] \in {"register", "bind", "done"} => Visible(kind[i])' = id[i]
                      /\ pc'[i] \in {"bind", "done"} => row'[id[i]] = kind[i]
    BY CommandLines DEF Places, Visible
  <2>1. id[i] \in Targets /\ kind[i] \in Kinds /\ kind[i] # "none"
    BY <1>1 DEF InitializationTypeOK, Kinds
  <2>2. row[id[i]] # "none" => row'[id[i]] = row[id[i]]
    BY <1>1, <2>1, RowsStep
  <2>3. pc'[i] \in {"register", "bind", "done"} => Visible(kind[i]) = id[i]
    BY <1>1, <2>1, TargetAssumption DEF RegisteredIsMarked, Places, Next, Step, ReadRow, UploadMarker,
      LookForMarker, LookForPartial, UnlinkLeftover, CreateMarkerPartial, FillMarker,
      LinkMarker, UnlinkMarkerPartial, CheckMarker, RegisterTarget, BindTarget, Interrupt,
      Goto, vars, InitializationTypeOK
  <2>4. pc'[i] \in {"bind", "done"} => row[id[i]] = kind[i] \/ row'[id[i]] = kind[i]
    BY <1>1, <2>1, TargetAssumption DEF Places, Next, Step, ReadRow, UploadMarker,
      LookForMarker, LookForPartial, UnlinkLeftover, CreateMarkerPartial, FillMarker,
      LinkMarker, UnlinkMarkerPartial, CheckMarker, RegisterTarget, BindTarget, Interrupt,
      Goto, vars, InitializationTypeOK
  <2>5. Visible(kind[i]) = id[i] => Visible(kind[i])' = id[i]
    BY <1>1, <2>1, CommandLines, VisibleStable
  <2> QED
    BY <2>1, <2>2, <2>3, <2>4, <2>5
<1> QED
  BY <1>2, <1>3, <1>4 DEF InitializationInv

\* The inductive invariant holds of every behaviour of init_target.
THEOREM InitializationInvariant == Spec => []InitializationInv
BY InvInit, InvStep, PTL DEF Spec

\* Type correctness; a marker is linked only when it is whole.
THEOREM InitializationTyped == Spec => []InitializationTypeOK
<1>1. InitializationInv => InitializationTypeOK
  BY DEF InitializationInv
<1> QED
  BY <1>1, InitializationInvariant, PTL

\* A successful init_target leaves the row and the marker of its target.
THEOREM SuccessIsBound == Spec => []DoneMeansBound
<1>1. InitializationInv => DoneMeansBound
  BY DEF InitializationInv, Places, DoneMeansBound
<1> QED
  BY <1>1, InitializationInvariant, PTL

-----------------------------------------------------------------------------
(* Refinement *)

AbstractMarker == [k \in Kinds |-> Visible(k)]

\* What becomes visible was nowhere to be read before, and belongs to a target.
LEMMA VisibleStep ==
  ASSUME InitializationTypeOK, [Next]_vars, NEW k \in Kinds, Visible(k)' # Visible(k)
  PROVE  Visible(k) = "none" /\ Visible(k)' \in Targets
<1>1. Visible(k) \in Targets \cup {"none"}
  BY DEF InitializationTypeOK, Visible
<1>2. Visible(k) \in Targets => Visible(k)' = Visible(k)
  BY VisibleStable
<1>3. InitializationTypeOK'
  BY TypesStep
<1>4. Visible(k)' \in Targets \cup {"none"}
  BY <1>3 DEF InitializationTypeOK, Visible
<1> QED
  BY <1>1, <1>2, <1>4

\* At most one location changes in a step, and never together with a row.
LEMMA OneAtATime ==
  ASSUME InitializationTypeOK, [Next]_vars
  PROVE  \/ row' = row /\ Visible("gcs")' = Visible("gcs")
         \/ row' = row /\ Visible("nfs")' = Visible("nfs")
         \/ /\ Visible("gcs")' = Visible("gcs") /\ Visible("nfs")' = Visible("nfs")
            /\ \E t \in Targets, k \in Kinds : row' = [row EXCEPT ![t] = k]
<1> USE DEF InitializationTypeOK
<1>1. UNCHANGED <<id, kind>>
  BY CommandLines
<1>2. ASSUME NEW i \in Invocations, RegisterTarget(i), row' # row
      PROVE  /\ Visible("gcs")' = Visible("gcs") /\ Visible("nfs")' = Visible("nfs")
             /\ \E t \in Targets, k \in Kinds : row' = [row EXCEPT ![t] = k]
  BY <1>1, <1>2 DEF RegisterTarget, Goto, Visible
<1>3. ASSUME NEW i \in Invocations, RegisterTarget(i), row' = row
      PROVE  Visible("gcs")' = Visible("gcs")
  BY <1>1, <1>3 DEF RegisterTarget, Goto, Visible
<1>4. ASSUME NEW i \in Invocations, UploadMarker(i)
      PROVE  row' = row /\ Visible("nfs")' = Visible("nfs")
  BY <1>1, <1>4 DEF UploadMarker, Goto, Visible
<1>5. ASSUME NEW i \in Invocations, Next, ~ RegisterTarget(i), ~ UploadMarker(i),
             Step(i) \/ Interrupt(i)
      PROVE  row' = row /\ object' = object
  BY <1>5 DEF Step, ReadRow, LookForMarker, LookForPartial,
    UnlinkLeftover, CreateMarkerPartial, FillMarker, LinkMarker, UnlinkMarkerPartial,
    CheckMarker, BindTarget, Interrupt, storeVars
<1>6. CASE UNCHANGED vars
  BY <1>6 DEF vars, storeVars, Visible
<1> QED
  BY <1>2, <1>3, <1>4, <1>5, <1>6 DEF Next, Visible

\* Every step of an initializer is one of the registry or changes nothing there.
LEMMA RegistryStep ==
  InitializationInv /\ [Next]_vars => [Registry!Next]_<<AbstractMarker, row>>
<1> SUFFICES ASSUME InitializationInv, [Next]_vars
             PROVE  [Registry!Next]_<<AbstractMarker, row>>
  OBVIOUS
<1> USE DEF InitializationInv
<1>1. CASE row' = row /\ Visible("gcs")' = Visible("gcs") /\ Visible("nfs")' = Visible("nfs")
  BY <1>1 DEF AbstractMarker, Kinds
<1>2. ASSUME NEW k \in Kinds, row' = row, Visible(k)' # Visible(k),
             \A l \in Kinds \ {k} : Visible(l)' = Visible(l)
      PROVE  Registry!Next
  <2> DEFINE t == Visible(k)'
  <2>1. Visible(k) = "none" /\ t \in Targets
    BY <1>2, VisibleStep
  <2>2. AbstractMarker' = [AbstractMarker EXCEPT ![k] = t]
    BY <1>2 DEF AbstractMarker, Visible
  <2>3. Registry!Claim(k, t)
    BY <1>2, <2>1, <2>2 DEF Registry!Claim, AbstractMarker
  <2> QED
    BY <2>1, <2>3 DEF Registry!Next
<1>3. ASSUME NEW t \in Targets, NEW k \in Kinds, row' = [row EXCEPT ![t] = k], row' # row,
             Visible("gcs")' = Visible("gcs"), Visible("nfs")' = Visible("nfs")
      PROVE  Registry!Next
  <2>1. row'[t] = k /\ row[t] # k
    BY <1>3 DEF InitializationTypeOK
  <2>2. row[t] = "none" /\ Visible(k) = t
    BY <2>1, RowsStep
  <2>3. AbstractMarker' = AbstractMarker
    BY <1>3 DEF AbstractMarker, Kinds
  <2>4. Registry!RegisterTarget(t, k)
    BY <1>3, <2>2, <2>3 DEF Registry!RegisterTarget, AbstractMarker
  <2> QED
    BY <2>4 DEF Registry!Next
<1> QED
  BY <1>1, <1>2, <1>3, OneAtATime DEF Kinds

\* init_target implements the registry.
THEOREM RegistryRefinement == Spec => ImplementsRegistry
<1>1. Init => Registry!Init
  BY TargetAssumption DEF Init, Registry!Init, Visible, Kinds
<1>2. InitializationInv /\ [Next]_vars => [Registry!Next]_<<AbstractMarker, row>>
  BY RegistryStep
<1> QED
  BY <1>1, <1>2, InitializationInvariant, PTL
  DEF Spec, ImplementsRegistry, Registry!Spec, AbstractMarker
=============================================================================
