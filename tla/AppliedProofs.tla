---------------------------- MODULE AppliedProofs ----------------------------
(***************************************************************************)
(* What the phase Succeed of YurtOperator claims, for any set of nodes,    *)
(* any specs but updates that clear yurt tunnel's switch, and any bounds.  *)
(***************************************************************************)
EXTENDS YurtOperatorProofs

----------------------------------------------------------------------------
(* The switch of yurt tunnel, once it is set *)

\* An approved object says whether it wants yurt tunnel, or every pass over it would panic.  That
\* survives patches computed from old snapshots, because a patch takes no switch back to nil.
SwitchInv ==
  /\ mcache.finalizer => mcache.spec.tunnel # "nil"
  /\ mread.finalizer => mread.spec.tunnel # "nil"
  /\ ~mold.finalizer /\ mnew.finalizer => mnew.spec.tunnel # "nil"
  /\ mold.spec.tunnel # mnew.spec.tunnel => mnew.spec.tunnel # "nil"
  /\ yc.exists =>
       /\ yc.finalizer => yc.spec.tunnel # "nil"
       /\ mcache.spec.tunnel # "nil" => yc.spec.tunnel # "nil"
       /\ mread.spec.tunnel # "nil" => yc.spec.tunnel # "nil"
       /\ mold.spec.tunnel # "nil" => yc.spec.tunnel # "nil"

\* No update of the user's clears the switch.
UpdatesKeepSwitch == \A s \in UpdateSpecs : s.tunnel # "nil"

LEMMA TunnelTypes ==
  ASSUME TypeOK
  PROVE  /\ yc \in Clusters /\ mcache \in Clusters /\ mread \in Clusters
         /\ mold \in FieldSets /\ mnew \in FieldSets
  BY DEF TypeOK

LEMMA NilFields ==
  /\ NoCluster.spec.tunnel = "nil" /\ ~NoCluster.finalizer /\ ~NoCluster.deleting
  /\ NoFields.spec.tunnel = "nil" /\ ~NoFields.finalizer
  BY DEF NoFields, Fields, NoCluster, NewCluster, EmptySpec

LEMMA MergedSwitch ==
  ASSUME TypeOK, MergedMeta # NoCluster
  PROVE  MergedMeta.spec.tunnel = Merged(mold.spec.tunnel, mnew.spec.tunnel, yc.spec.tunnel)
<1>1. yc \in Clusters /\ yc.spec \in Specs
  BY TunnelTypes DEF Clusters
<1>2. MergedMeta.spec = MergedSpec
  BY <1>1 DEF MergedMeta, Clusters
<1>3. MergedSpec.tunnel = Merged(mold.spec.tunnel, mnew.spec.tunnel, yc.spec.tunnel)
  BY <1>1 DEF MergedSpec, Specs
<1> QED
  BY <1>2, <1>3

\* One step takes no switch of the object back to nil, and approves no nil.
LEMMA SwitchSet ==
  ASSUME TypeOK, SwitchInv, ApprovedInv, UpdatesKeepSwitch, [Next]_vars, yc'.exists
  PROVE  /\ yc.spec.tunnel # "nil" => yc'.spec.tunnel # "nil"
         /\ yc'.finalizer => yc'.spec.tunnel # "nil"
<1>0. yc \in Clusters /\ yc.exists
  BY TunnelTypes, StepOnward DEF Onward
<1>1. yc.finalizer => yc.spec.tunnel # "nil"
  BY <1>0 DEF SwitchInv
<1>2. CASE UNCHANGED yc
  BY <1>1, <1>2
<1>3. CASE MgrPatch
  <2>1. CASE yc' = MergedMeta
    <3>1. MergedMeta # NoCluster
      BY <2>1, NoClusterFields
    <3>2. /\ yc'.spec.tunnel = Merged(mold.spec.tunnel, mnew.spec.tunnel, yc.spec.tunnel)
          /\ yc'.finalizer = Merged(mold.finalizer, mnew.finalizer, yc.finalizer)
      BY <2>1, <3>1, MergedSwitch, MergedMetaFields
    <3>3. mold.finalizer \in BOOLEAN /\ mnew.finalizer \in BOOLEAN
      BY TunnelTypes DEF FieldSets
    <3> QED
      BY <1>0, <1>1, <3>2, <3>3 DEF SwitchInv, Merged
  <2> QED
    BY <1>2, <1>3, <2>1 DEF MgrPatch
<1>4. CASE MgrPatchStatus
  <2>1. MergedStatus.spec = yc.spec /\ MergedStatus.finalizer = yc.finalizer
    BY <1>0 DEF MergedStatus, Clusters
  <2> QED
    BY <1>1, <1>2, <1>4, <2>1 DEF MgrPatchStatus
<1>5. ASSUME NEW n \in Nodes, EdgectlCond(n)
      PROVE  yc'.spec = yc.spec /\ yc'.finalizer = yc.finalizer
  <2>1. ConditionPatched(n).spec = yc.spec /\ ConditionPatched(n).finalizer = yc.finalizer
    BY <1>0 DEF ConditionPatched, Clusters
  <2> QED
    BY <1>2, <1>5, <2>1 DEF EdgectlCond
<1>6. ASSUME NEW s \in UpdateSpecs, UserUpdates(s) PROVE yc'.spec.tunnel # "nil"
  BY <1>0, <1>6 DEF UserUpdates, UpdatesKeepSwitch, Clusters
<1>7. CASE UserDeletes
  <2>1. yc' # NoCluster
    BY NoClusterFields
  <2> QED
    BY <1>0, <1>1, <1>7, <2>1 DEF UserDeletes, Clusters
<1>8. CASE Manager
  <2>1. ASSUME NEW n \in Nodes, MgrNodeEvent(n) PROVE UNCHANGED yc
    BY <2>1 DEF MgrNodeEvent
  <2> QED
    BY <1>2, <1>3, <1>4, <1>8, <2>1 DEF Manager, MgrPass, MgrSyncYC, MgrStart, MgrApply,
       MgrDelete, MgrStatus, MgrCrash, storeVars
<1> QED
  BY <1>1, <1>2, <1>5, <1>6, <1>7, <1>8, AgentFrame, EnvironmentFrame DEF Next, vars, storeVars

\* What a pass makes of the fields it read.
LEMMA SummedSwitch ==
  ASSUME TypeOK, SwitchInv, MgrStatus
  PROVE  /\ mold'.spec.tunnel = mread.spec.tunnel
         /\ mold'.finalizer = mread.finalizer
         /\ mnew'.spec.tunnel \in {mread.spec.tunnel, Default(mread.spec.tunnel)}
         /\ ~mold'.finalizer => mnew'.spec.tunnel # "nil"
<1>1. PICK listed \in BOOLEAN :
        mold' = Fields(mread) /\ mnew' = Fields(Summed(Approve(mread), listed))
  BY StatusSums
<1>2. mread \in Clusters /\ mread.spec \in Specs /\ Approve(mread) \in Clusters
  BY TunnelTypes, ApproveType DEF Clusters
<1>3. Summed(Approve(mread), listed).spec = Approve(mread).spec
  BY <1>2 DEF Summed, Clusters
<1>4. Approve(mread).spec = IF mread.finalizer THEN mread.spec ELSE Complete(mread.spec)
  BY <1>2 DEF Approve, Clusters
<1>5. Complete(mread.spec).tunnel = Default(mread.spec.tunnel)
  BY <1>2 DEF Complete, Specs
<1>6. mnew'.spec = Approve(mread).spec /\ mold'.spec = mread.spec /\ mold'.finalizer = mread.finalizer
  BY <1>1, <1>3 DEF Fields
<1> QED
  BY <1>4, <1>5, <1>6 DEF Default

LEMMA SwitchStep ==
  ASSUME TypeOK, SwitchInv, ApprovedInv, TunnelInv, UpdatesKeepSwitch, [Next]_vars
  PROVE  SwitchInv'
<1>0. /\ yc'.exists => /\ yc.exists
                       /\ yc.spec.tunnel # "nil" => yc'.spec.tunnel # "nil"
                       /\ yc'.finalizer => yc'.spec.tunnel # "nil"
      /\ yc.finalizer => yc.exists
  BY StepOnward, SwitchSet DEF Onward, TunnelInv
<1>1. /\ mcache'.finalizer => mcache'.spec.tunnel # "nil"
      /\ yc'.exists /\ mcache'.spec.tunnel # "nil" => yc'.spec.tunnel # "nil"
  <2>1. CASE mcache' = mcache
    BY <1>0, <2>1 DEF SwitchInv
  <2>2. CASE mcache' = yc /\ yc' = yc
    BY <1>0, <2>2 DEF SwitchInv
  <2> QED
    BY <2>1, <2>2, Reads
<1>2. /\ mread'.finalizer => mread'.spec.tunnel # "nil"
      /\ yc'.exists /\ mread'.spec.tunnel # "nil" => yc'.spec.tunnel # "nil"
  <2>1. CASE mread' = mread
    BY <1>0, <2>1 DEF SwitchInv
  <2>2. CASE mread' = NoCluster
    BY <2>2, NilFields
  <2>3. CASE mread' = mcache /\ yc' = yc
    BY <2>3 DEF SwitchInv
  <2> QED
    BY <2>1, <2>2, <2>3, Reads
<1>3. /\ ~mold'.finalizer /\ mnew'.finalizer => mnew'.spec.tunnel # "nil"
      /\ mold'.spec.tunnel # mnew'.spec.tunnel => mnew'.spec.tunnel # "nil"
      /\ yc'.exists /\ mold'.spec.tunnel # "nil" => yc'.spec.tunnel # "nil"
  <2>1. CASE MgrStatus
    BY <1>0, <2>1, SummedSwitch DEF SwitchInv, Default
  <2>2. CASE UNCHANGED <<mold, mnew>>
    BY <1>0, <2>2 DEF SwitchInv
  <2>3. CASE mold' = NoFields /\ mnew' = NoFields
    BY <2>3, NilFields
  <2> QED
    BY <2>1, <2>2, <2>3, PassSteps DEF MgrStart, MgrApply, MgrDelete
<1> QED
  BY <1>0, <1>1, <1>2, <1>3 DEF SwitchInv

LEMMA InitSwitch == Init => SwitchInv
<1> SUFFICES ASSUME Init PROVE SwitchInv
  OBVIOUS
<1>1. ~yc.finalizer
  BY DEF Init, NewCluster
<1> QED
  BY <1>1, NilFields DEF Init, SwitchInv

----------------------------------------------------------------------------
(* What was applied *)

\* SucceedMeansApplied, and the same of what the status patch under way is about to claim.  The
\* last conjunct is what a pass knows when it sums up.
AppliedInv ==
  /\ yc.exists /\ ~yc.deleting /\ yc.gen > approved
     /\ (yc.obsGen = yc.gen \/ (mold.obsGen # mnew.obsGen /\ mnew.obsGen = yc.gen))
       => applied = yc.gen \/ skipped
  /\ mpc = "status" /\ mresult # "error" /\ ~mread.deleting
       => approved = mread.gen \/ applied = mread.gen \/ skipped

\* The history changes only where a pass reads the object, applies or deletes.
LEMMA HistoryStep ==
  ASSUME [Next]_vars
  PROVE  \/ MgrStart /\ UNCHANGED <<applied, skipped>>
         \/ MgrApply /\ UNCHANGED approved
         \/ MgrDelete /\ UNCHANGED <<approved, applied>>
         \/ UNCHANGED <<approved, applied, skipped>>
<1> USE DEF historyVars
<1>1. ASSUME NEW n \in Nodes, MgrNodeEvent(n) PROVE UNCHANGED <<approved, applied, skipped>>
  BY <1>1 DEF MgrNodeEvent
<1>2. MgrCrash => UNCHANGED <<approved, applied, skipped>>
  BY DEF MgrCrash, Runs!Partly, Runs!PartlyCleaned
<1> QED
  BY <1>1, <1>2, AgentFrame, EnvironmentFrame DEF Next, vars, Manager, MgrPass, MgrSyncYC, MgrStart,
     MgrApply, MgrDelete, MgrStatus, MgrPatch, MgrPatchStatus

\* A pass that applies and does not fail has applied what it read, or was misled about a clean-up.
LEMMA ApplyCounts ==
  ASSUME TypeOK, SwitchInv, ApprovedInv, MgrApply
  PROVE  /\ mresult' # "error" => applied' = mread.gen \/ skipped'
         /\ applied' = mread.gen \/ (applied' = applied /\ (skipped => skipped'))
<1>1. mread.spec.tunnel # "nil"
  BY DEF SwitchInv, ApprovedInv, MgrApply
<1> QED
  BY <1>1 DEF MgrApply, Runs!Applied, Runs!AppliedButMissed, Runs!Panicked, Runs!ApplyFailed,
     Runs!PartlyPanicked, Runs!Partly

\* What observedGeneration and the patch under way name is not newer than the object.
LEMMA ClaimsBehind ==
  ASSUME TypeOK, ApprovedInv, ObservedInv, [Next]_vars, yc'.exists
  PROVE  /\ yc.exists /\ yc.gen <= yc'.gen
         /\ yc'.gen = yc.gen => yc'.deleting = yc.deleting
         /\ yc.obsGen <= mcache.gen /\ mcache.gen <= yc.gen
         /\ mold.obsGen # mnew.obsGen => mnew.obsGen <= yc.gen
         /\ InPass => yc.obsGen <= mread.gen /\ mread.gen <= yc.gen
         /\ mread.deleting => yc.deleting
         /\ mread.gen = yc.gen => mread.deleting = yc.deleting
<1>1. /\ yc \in Clusters /\ mcache \in Clusters /\ mread \in Clusters
      /\ mold.obsGen \in Nat /\ mnew.obsGen \in Nat
  BY TunnelTypes DEF FieldSets
<1>2. /\ yc.exists /\ yc.gen <= yc'.gen
      /\ yc'.gen = yc.gen => yc'.deleting = yc.deleting
  BY StepOnward DEF Onward
<1>3. Behind(mcache) /\ Behind(mread)
  BY DEF ApprovedInv
<1> QED
  BY <1>1, <1>2, <1>3, FieldTypes DEF ObservedInv, Behind

\* The object claims that its last generation was reconciled, or is about to.
Claims ==
  /\ yc.exists /\ ~yc.deleting /\ yc.gen > approved
  /\ yc.obsGen = yc.gen \/ (mold.obsGen # mnew.obsGen /\ mnew.obsGen = yc.gen)

LEMMA ClaimsStep ==
  ASSUME TypeOK, SwitchInv, ApprovedInv, ObservedInv, TunnelInv, AppliedInv, [Next]_vars, Claims'
  PROVE  applied' = yc'.gen \/ skipped'
<1>0. /\ yc \in Clusters /\ yc' \in Clusters /\ mcache \in Clusters /\ mread \in Clusters
      /\ mold.obsGen \in Nat /\ mnew.obsGen \in Nat /\ approved \in Nat
  BY TypePreserved DEF TypeOK, FieldSets
<1>1. yc'.exists /\ ~yc'.deleting /\ yc'.gen > approved'
  BY DEF Claims
<1>2. Claims => applied = yc.gen \/ skipped
  BY DEF AppliedInv, Claims
<1>3. mpc \in {"idle", "apply", "delete"} => mold = mnew
  BY DEF TunnelInv
<1>4. CASE MgrStart /\ UNCHANGED <<applied, skipped>>
  <2>1. /\ UNCHANGED <<yc, mold, mnew>> /\ mold = mnew
        /\ approved' \in {approved, mcache.gen}
    BY <1>3, <1>4 DEF MgrStart, storeVars
  <2>2. yc.obsGen = yc.gen
    BY <2>1 DEF Claims
  <2>3. mcache.gen = yc.gen
    BY <1>0, <1>1, <2>2, FieldTypes, ClaimsBehind
  <2>4. approved' = approved
    BY <1>0, <1>1, <2>1, <2>3, FieldTypes
  <2> QED
    BY <1>1, <1>2, <1>4, <2>1, <2>2, <2>4 DEF Claims
<1>5. CASE MgrApply /\ UNCHANGED approved
  <2>1. UNCHANGED <<yc, mold, mnew>> /\ mold = mnew /\ InPass
    BY <1>3, <1>5 DEF MgrApply, InPass
  <2>2. yc.obsGen = yc.gen
    BY <2>1 DEF Claims
  <2>3. mread.gen = yc.gen
    BY <1>0, <1>1, <2>1, <2>2, FieldTypes, ClaimsBehind
  <2>4. applied = yc.gen \/ skipped
    BY <1>1, <1>2, <1>5, <2>1, <2>2 DEF Claims
  <2> QED
    BY <1>5, <2>1, <2>3, <2>4, ApplyCounts
<1>6. CASE MgrDelete
  <2>1. UNCHANGED yc /\ mread.deleting
    BY <1>6 DEF MgrDelete, TunnelInv
  <2> QED
    BY <1>1, <2>1, ClaimsBehind
<1>7. CASE MgrStatus /\ UNCHANGED <<approved, applied, skipped>>
  <2>1. PICK listed \in BOOLEAN :
          mold' = Fields(mread) /\ mnew' = Fields(Summed(Approve(mread), listed))
    BY <1>7, StatusSums
  <2>2. UNCHANGED yc /\ mpc = "status"
    BY <1>7 DEF MgrStatus, storeVars
  <2>3. CASE yc.obsGen = yc.gen
    BY <1>1, <1>2, <1>7, <2>2, <2>3 DEF Claims
  <2>4. CASE mold'.obsGen # mnew'.obsGen /\ mnew'.obsGen = yc.gen
    <3>1. Approve(mread) \in Clusters
      BY <1>0, ApproveType
    <3>2. Approve(mread).obsGen = mread.obsGen /\ Approve(mread).gen = mread.gen
      BY <1>0 DEF Approve, Clusters
    <3>3. mresult # "error" /\ mread.gen = yc.gen
      BY <2>1, <2>4, <3>1, <3>2 DEF Fields, Summed, Clusters
    <3>4. ~mread.deleting
      BY <1>1, <2>2, <3>3, ClaimsBehind
    <3>5. approved = mread.gen \/ applied = mread.gen \/ skipped
      BY <2>2, <3>3, <3>4 DEF AppliedInv
    <3>6. approved # mread.gen
      BY <1>0, <1>1, <1>7, <2>2, <3>3, FieldTypes
    <3> QED
      BY <1>7, <2>2, <3>3, <3>5, <3>6
  <2> QED
    BY <2>2, <2>3, <2>4 DEF Claims
<1>8. CASE /\ UNCHANGED <<mold, mnew>> \/ mold' = mnew'
           /\ UNCHANGED <<approved, applied, skipped>>
  <2>1. yc'.obsGen \in {yc.obsGen} \cup
          (IF mold.obsGen # mnew.obsGen THEN {mnew.obsGen} ELSE {})
    BY <1>1, ObsGenStep DEF Merged
  <2>2. yc'.obsGen = yc'.gen \/ (mold.obsGen # mnew.obsGen /\ mnew.obsGen = yc'.gen)
    BY <1>8 DEF Claims
  <2>3. yc.obsGen = yc'.gen \/ (mold.obsGen # mnew.obsGen /\ mnew.obsGen = yc'.gen)
    BY <2>1, <2>2
  <2>4. yc'.gen = yc.gen /\ ~yc.deleting
    BY <1>0, <1>1, <2>3, FieldTypes, ClaimsBehind
  <2> QED
    BY <1>1, <1>2, <1>8, <2>3, <2>4, ClaimsBehind DEF Claims
<1> QED
  BY <1>4, <1>5, <1>6, <1>7, <1>8, HistoryStep, PassSteps
     DEF MgrStart, MgrApply, MgrDelete, MgrStatus

\* What a pass knows when it sums up.
LEMMA SumsUpStep ==
  ASSUME TypeOK, SwitchInv, ApprovedInv, TunnelInv, AppliedInv, [Next]_vars,
         mpc' = "status", mresult' # "error", ~mread'.deleting
  PROVE  approved' = mread'.gen \/ applied' = mread'.gen \/ skipped'
<1>1. CASE MgrStart
  BY <1>1 DEF MgrStart
<1>2. CASE MgrApply
  BY <1>2, ApplyCounts DEF MgrApply
<1>3. CASE MgrDelete
  BY <1>3 DEF MgrDelete, TunnelInv
<1>4. CASE UNCHANGED <<mpc, mread, mresult, approved, applied, skipped>>
  BY <1>4 DEF AppliedInv
<1> QED
  BY <1>1, <1>2, <1>3, <1>4, HistoryStep, PassSteps DEF MgrStatus

LEMMA AppliedStep ==
  ASSUME TypeOK, SwitchInv, ApprovedInv, ObservedInv, TunnelInv, AppliedInv, [Next]_vars
  PROVE  AppliedInv'
  BY ClaimsStep, SumsUpStep DEF AppliedInv, Claims

LEMMA InitApplied == Init => AppliedInv
<1> SUFFICES ASSUME Init PROVE AppliedInv
  OBVIOUS
<1>1. yc.gen = 1 /\ yc.obsGen = 0
  BY DEF Init, NewCluster
<1> QED
  BY <1>1 DEF Init, AppliedInv

\* As long as no update clears yurt tunnel's switch, which makes a pass panic and record what it
\* did not do, the phase Succeed of a generation newer than the approval means that it was applied.
THEOREM SuccessIsApplied ==
  ASSUME UpdatesKeepSwitch
  PROVE  Spec => []SucceedMeansApplied
<1>1. ASSUME TypeOK, ApprovedInv, ObservedInv, TunnelInv, SwitchInv, AppliedInv, [Next]_vars
      PROVE  ApprovedInv' /\ ObservedInv' /\ TunnelInv' /\ SwitchInv' /\ AppliedInv'
  BY <1>1, ApprovedStep, ObservedStep, TunnelStep, SwitchStep, AppliedStep
<1>2. TypeOK /\ ApprovedInv /\ ObservedInv /\ TunnelInv /\ SwitchInv /\ AppliedInv /\ [Next]_vars
        => ApprovedInv' /\ ObservedInv' /\ TunnelInv' /\ SwitchInv' /\ AppliedInv'
  BY <1>1
<1>3. AppliedInv => SucceedMeansApplied
  BY DEF AppliedInv, SucceedMeansApplied
<1> QED
  BY InitApproved, InitObserved, InitTunnel, InitSwitch, InitApplied, TypeCorrect, <1>2, <1>3,
     PTL DEF Spec
=============================================================================
