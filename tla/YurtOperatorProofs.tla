------------------------- MODULE YurtOperatorProofs -------------------------
(***************************************************************************)
(* Proofs about YurtOperator for any set of nodes and labels, any specs    *)
(* and any bounds.                                                         *)
(***************************************************************************)
EXTENDS YurtOperator, TLAPS

----------------------------------------------------------------------------
(* The types of the operators that the actions are built from *)

LEMMA NodeSetTypes ==
  ASSUME NEW n, NEW label, NEW spec
  PROVE  GetNodeType(n, label, spec) \in NodeTypes
  BY DEF GetNodeType, NodeTypes

LEMMA CompleteType ==
  ASSUME NEW spec \in Specs
  PROVE  Complete(spec) \in Specs
  BY DEF Complete, Specs, Default, Switches

LEMMA NewClusterType ==
  ASSUME NEW spec \in Specs
  PROVE  NewCluster(spec) \in Clusters
  BY DEF NewCluster, Clusters, NoCondition, Conditions, Phases

LEMMA NoClusterType == NoCluster \in Clusters
<1>1. EmptySpec \in Specs
  BY DEF EmptySpec, Specs, NodeSets, Switches
<1>2. NewCluster(EmptySpec) \in Clusters
  BY <1>1, NewClusterType
<1> QED
  BY <1>2 DEF NoCluster, Clusters

LEMMA NoFieldsType == NoFields \in FieldSets
  BY NoClusterType DEF NoFields, Fields, FieldSets, Clusters

LEMMA FieldsType ==
  ASSUME NEW c \in Clusters
  PROVE  Fields(c) \in FieldSets
  BY DEF Fields, FieldSets, Clusters

LEMMA ViewType ==
  ASSUME NEW c \in Clusters, NEW n \in Nodes
  PROVE  View(c, n) \in Views
  BY DEF View, Views, Clusters

LEMMA CleanHostType ==
  ASSUME NEW n \in Nodes
  PROVE  InitialHost(n) \in Hosts
  BY DEF InitialHost, CleanHost, Hosts, HubFiles, FlagFiles

LEMMA DoneType ==
  ASSUME NEW h \in Hosts, NEW op \in NodeTypes
  PROVE  Done(h, op) \in Hosts
<1>1. CASE op = "NormalNode"
  BY <1>1 DEF Done, Reverted, KubeletReverted, Hosts, HubFiles, FlagFiles
<1>2. CASE op # "NormalNode"
  BY <1>2 DEF Done, Converted, KubeletConverted, FlagsBackedUp, HubInstalled,
              Hosts, HubFiles, FlagFiles, NodeTypes
<1> QED
  BY <1>1, <1>2

LEMMA HubStepTypes ==
  ASSUME NEW h \in Hosts, NEW type \in HubFiles
  PROVE  HubInstalled(h, type) \in Hosts /\ HubCuts(h, type) \subseteq Hosts
<1>1. HubInstalled(h, type) \in Hosts
  BY DEF HubInstalled, Hosts, HubFiles
<1>2. HubRolledBack(h, type) \in Hosts
  BY <1>1 DEF HubRolledBack, Hosts
<1>3. ASSUME NEW g \in Hosts, NEW x \in HubFiles
      PROVE  [g EXCEPT !.hub = x] \in Hosts /\ [g EXCEPT !.hubBackup = x] \in Hosts
  BY <1>3 DEF Hosts
<1>4. HubInstalled(h, type).hubBackup \in HubFiles /\ {"torn", "none", type} \subseteq HubFiles
  BY <1>1 DEF Hosts, HubFiles
<1>5. /\ [h EXCEPT !.hubBackup = HubInstalled(h, type).hubBackup] \in Hosts
      /\ [h EXCEPT !.hubBackup = "torn"] \in Hosts
  BY <1>3, <1>4
<1>6. \A x \in {"torn", "none", type} : [HubInstalled(h, type) EXCEPT !.hub = x] \in Hosts
  BY <1>1, <1>3, <1>4
<1> QED
  BY <1>1, <1>2, <1>5, <1>6, Zenon DEF HubCuts

LEMMA KubeletStepTypes ==
  ASSUME NEW h \in Hosts
  PROVE  KubeletCuts(h) \subseteq Hosts /\ RevertCuts(h) \subseteq Hosts
<1>1. FlagsBackedUp(h) \in Hosts
  BY DEF FlagsBackedUp, Hosts
<1>2. ASSUME NEW g \in Hosts, NEW x \in FlagFiles
      PROVE  [g EXCEPT !.flags = x] \in Hosts /\ [g EXCEPT !.flagsBackup = x] \in Hosts
  BY <1>2 DEF Hosts
<1>3. KubeletConverted(h) \in Hosts /\ KubeletRolledBack(h) \in Hosts
  BY <1>1, <1>2 DEF KubeletConverted, KubeletRolledBack, Hosts, FlagFiles
<1>4. KubeletReverted(h) \in Hosts
  BY <1>2 DEF KubeletReverted, Hosts
<1>5. Reverted(h) \in Hosts
  BY <1>4 DEF Reverted, Hosts, HubFiles
<1>6. "torn" \in FlagFiles
  BY DEF FlagFiles
<1>7. /\ [FlagsBackedUp(h) EXCEPT !.flags = "torn"] \in Hosts
      /\ [h EXCEPT !.flags = "torn"] \in Hosts /\ [h EXCEPT !.flagsBackup = "torn"] \in Hosts
  BY <1>1, <1>2, <1>6
<1> QED
  BY <1>1, <1>3, <1>4, <1>5, <1>7, Zenon DEF KubeletCuts, RevertCuts

LEMMA InterruptedType ==
  ASSUME NEW h \in Hosts, NEW op \in NodeTypes
  PROVE  Interrupted(h, op) \subseteq Hosts
<1>1. CASE op = "NormalNode"
  BY <1>1, KubeletStepTypes DEF Interrupted
<1>2. CASE op # "NormalNode"
  <2>1. op \in HubFiles
    BY <1>2 DEF NodeTypes, HubFiles
  <2> QED
    BY <1>2, <2>1, HubStepTypes, KubeletStepTypes DEF Interrupted
<1> QED
  BY <1>1, <1>2

LEMMA ApproveType ==
  ASSUME NEW c \in Clusters
  PROVE  Approve(c) \in Clusters
  BY CompleteType DEF Approve, Clusters

LEMMA SummedType ==
  ASSUME NEW c \in Clusters, NEW listed \in BOOLEAN
  PROVE  Summed(c, listed) \in Clusters
<1>1. AllCompleted(c) \in BOOLEAN
  BY DEF AllCompleted
<1> QED
  BY <1>1 DEF Summed, Clusters, Phases

LEMMA StatusSums ==
  ASSUME MgrStatus
  PROVE  /\ mold' = Fields(mread)
         /\ \E listed \in BOOLEAN : mnew' = Fields(Summed(Approve(mread), listed))
         /\ faults' \in {faults, faults + 1}
  BY DEF MgrStatus, Fault

LEMMA MergedSpecType ==
  ASSUME yc \in Clusters, mold \in FieldSets, mnew \in FieldSets
  PROVE  MergedSpec \in Specs
  BY DEF MergedSpec, Merged, Specs, Clusters, FieldSets

LEMMA MergedMetaType ==
  ASSUME yc \in Clusters, mold \in FieldSets, mnew \in FieldSets
  PROVE  MergedMeta \in Clusters
<1>1. MergedSpec \in Specs /\ NoCluster \in Clusters
  BY MergedSpecType, NoClusterType
<1>2. Merged(mold.finalizer, mnew.finalizer, yc.finalizer) \in BOOLEAN
  BY DEF Merged, Clusters, FieldSets
<1>3. (IF MergedSpec = yc.spec THEN yc.gen ELSE yc.gen + 1) \in Nat
  BY DEF Clusters
<1> QED
  BY <1>1, <1>2, <1>3 DEF MergedMeta, Clusters

LEMMA MergedStatusType ==
  ASSUME yc \in Clusters, mold \in FieldSets, mnew \in FieldSets
  PROVE  MergedStatus \in Clusters
  BY DEF MergedStatus, Merged, Clusters, FieldSets

----------------------------------------------------------------------------
(* Type correctness *)

LEMMA NodeType ==
  ASSUME TypeOK, NEW n \in Nodes
  PROVE  nodes[n] \in NodeObjects
  BY DEF TypeOK

LEMMA InitialManifestType ==
  ASSUME NEW n \in Nodes
  PROVE  InitialManifests(n) \subseteq Manifests
<1>1. <<>> \in Seq(Entries)
  OBVIOUS
<1>2. \A c \in Seq(Entries) : Pod(c) \in Manifests
  BY DEF Pod, Manifests
<1>3. \A c \in Controllers : Pod(c) \in Manifests
  BY <1>2, ControllersAssumption
<1>4. Absent \in Manifests
  BY <1>1 DEF Absent, Manifests
<1> QED
  BY <1>3, <1>4, Zenon DEF InitialManifests

LEMMA DisabledType ==
  ASSUME NEW m \in Manifests
  PROVE  Disabled(m) \in Manifests
<1>1. <<"*", "others", "-nodelifecycle">> \in Seq(Entries)
  BY DEF Entries
<1>2. Append(m.controllers, "-nodelifecycle") \in Seq(Entries)
  BY DEF Entries, Manifests
<1> QED
  BY <1>1, <1>2 DEF Disabled, Pod, Manifests

LEMMA EnabledType ==
  ASSUME NEW m \in Manifests
  PROVE  Enabled(m) \in Manifests
<1> DEFINE c == m.controllers
           i == CHOOSE i \in Removable(c) : TRUE
<1>1. c \in Seq(Entries)
  BY DEF Manifests
<1>2. ASSUME Removable(c) # {} PROVE Pod(SubSeq(c, 1, i - 1) \o SubSeq(c, i + 1, Len(c))) \in Manifests
  <2>1. i \in 1..Len(c)
    BY <1>1, <1>2 DEF Removable
  <2>4. ASSUME NEW s \in Seq(Entries), NEW j \in 1..Len(s)
        PROVE  SubSeq(s, 1, j - 1) \in Seq(Entries) /\ SubSeq(s, j + 1, Len(s)) \in Seq(Entries)
    <3>1. \A k \in 1..(j - 1) : s[k] \in Entries
      BY <2>4
    <3>2. \A k \in (j + 1)..Len(s) : s[k] \in Entries
      BY <2>4
    <3> QED
      BY <3>1, <3>2
  <2>2. SubSeq(c, 1, i - 1) \in Seq(Entries) /\ SubSeq(c, i + 1, Len(c)) \in Seq(Entries)
    BY <1>1, <2>1, <2>4
  <2>3. SubSeq(c, 1, i - 1) \o SubSeq(c, i + 1, Len(c)) \in Seq(Entries)
    BY <2>2
  <2> QED
    BY <2>3 DEF Pod, Manifests
<1> QED
  BY <1>2 DEF Enabled

LEMMA EditedType ==
  ASSUME TypeOK, NEW n \in Nodes
  PROVE  Edited(n) \in Manifests
<1>1. kcm[n] \in Manifests
  BY DEF TypeOK
<1> QED
  BY <1>1, DisabledType, EnabledType DEF Edited

LEMMA InitTypeOK == Init => TypeOK
<1> SUFFICES ASSUME Init PROVE TypeOK
  OBVIOUS
<1>1. yc \in Clusters
  BY SpecsAssumption, NewClusterType DEF Init
<1>2. /\ nodes \in [Nodes -> NodeObjects] /\ anode \in [Nodes -> NodeObjects]
      /\ mlabels \in [Nodes -> Labels]
  BY DEF Init, NodeObjects
<1>3. host \in [Nodes -> Hosts]
  BY CleanHostType DEF Init
<1>8. kcm \in [Nodes -> Manifests]
  BY InitialManifestType DEF Init
<1>4. mcache \in Clusters /\ mread \in Clusters /\ mold \in FieldSets /\ mnew \in FieldSets
  BY NoClusterType, NoFieldsType DEF Init
<1>5. acache \in [Nodes -> Views]
  BY NoClusterType, ViewType DEF Init
<1>6. /\ apc \in [Nodes -> {"idle", "read", "run", "cond", "patch"}]
      /\ aop \in [Nodes -> NodeTypes]
      /\ abefore \in [Nodes -> [edge : {"none", "true", "false"}, taint : BOOLEAN]]
      /\ run \in [Nodes -> [gen : Nat, hub : Switches, ok : BOOLEAN]]
      /\ unrecorded \in [Nodes -> BOOLEAN] /\ skipped \in BOOLEAN
  BY DEF Init, NodeTypes, Undressed, NoRun, Switches
<1>7. /\ tpls \subseteq Runs!Templates /\ tunnelUp \in BOOLEAN
      /\ mpc = "idle" /\ mresult = "ok"
      /\ faults \in Nat /\ fails \in Nat /\ relabels \in Nat /\ flips \in Nat
      /\ approved \in Nat /\ applied \in Nat /\ held \subseteq Nodes
  BY DEF Init
<1> QED
  BY <1>1, <1>2, <1>3, <1>4, <1>5, <1>6, <1>7, <1>8 DEF TypeOK

\* A pass, and the part of one that a crash lets through, leaves values of the right types.
RunTypes == /\ tpls \subseteq Runs!Templates /\ tunnelUp \in BOOLEAN
            /\ mresult \in {"ok", "error", "panic"} /\ skipped \in BOOLEAN

LEMMA PartlyTypes ==
  ASSUME RunTypes, NEW s, Runs!Partly(s) \/ Runs!PartlyCleaned
  PROVE  /\ tpls' \subseteq Runs!Templates /\ tunnelUp' \in BOOLEAN /\ skipped' \in BOOLEAN
  BY DEF RunTypes, Runs!Partly, Runs!PartlyCleaned

LEMMA ApplyTypes ==
  ASSUME RunTypes, MgrApply
  PROVE  RunTypes'
<1> DEFINE s == mread.spec.tunnel
<1>1. CASE Runs!Applied(s) \/ Runs!AppliedButMissed(s) \/ Runs!Panicked(s)
  BY <1>1 DEF RunTypes, Runs!Applied, Runs!AppliedButMissed, Runs!Panicked
<1>2. CASE Runs!ApplyFailed(s) \/ Runs!PartlyPanicked(s)
  BY <1>2, PartlyTypes DEF RunTypes, Runs!ApplyFailed, Runs!PartlyPanicked
<1> QED
  BY <1>1, <1>2 DEF MgrApply

LEMMA DeleteTypes ==
  ASSUME RunTypes, MgrDelete
  PROVE  RunTypes'
<1>1. CASE Runs!Cleaned \/ Runs!CleanedButMissed \/ Runs!Unnamed
  BY <1>1 DEF RunTypes, Runs!Cleaned, Runs!CleanedButMissed, Runs!Unnamed
<1>2. CASE Runs!CleanFailed
  BY <1>2, PartlyTypes DEF RunTypes, Runs!CleanFailed
<1> QED
  BY <1>1, <1>2 DEF MgrDelete

LEMMA CrashTypes ==
  ASSUME RunTypes, MgrCrash
  PROVE  RunTypes'
<1>1. CASE mpc \in {"apply", "delete"}
  BY <1>1, PartlyTypes DEF MgrCrash, RunTypes
<1>2. CASE mpc \notin {"apply", "delete"}
  BY <1>2 DEF MgrCrash, RunTypes
<1> QED
  BY <1>1, <1>2

LEMMA ManagerTypeOK ==
  ASSUME TypeOK, Manager
  PROVE  TypeOK'
<1> USE DEF storeVars, hostVars, mgrVars, agentVars, boundVars, historyVars
<1>0. RunTypes
  BY DEF TypeOK, RunTypes
<1>1. CASE MgrSyncYC
  BY <1>1 DEF MgrSyncYC, TypeOK
<1>2. ASSUME NEW n \in Nodes, MgrNodeEvent(n) PROVE TypeOK'
  <2>1. mlabels' \in [Nodes -> Labels]
    BY <1>2 DEF MgrNodeEvent, TypeOK, NodeObjects
  <2>2. nodes' \in [Nodes -> NodeObjects]
    <3>1. [nodes[n] EXCEPT !.edge = "false"] \in NodeObjects
      BY NodeType DEF NodeObjects
    <3>2. nodes' \in {nodes, [nodes EXCEPT ![n] = [nodes[n] EXCEPT !.edge = "false"]]}
      BY <1>2 DEF MgrNodeEvent
    <3> QED
      BY <3>1, <3>2 DEF TypeOK
  <2>3. faults' \in Nat
    BY <1>2 DEF MgrNodeEvent, Fault, TypeOK
  <2> QED
    BY <1>2, <2>1, <2>2, <2>3 DEF MgrNodeEvent, TypeOK
<1>3. CASE MgrStart
  <2>1. approved' \in Nat /\ mread' \in Clusters
    BY <1>3 DEF MgrStart, TypeOK, Clusters
  <2> QED
    BY <1>3, <2>1 DEF MgrStart, TypeOK
<1>4. CASE MgrApply
  <2>1. RunTypes'
    BY <1>0, <1>4, ApplyTypes
  <2>2. applied' \in Nat
    BY <1>4 DEF MgrApply, TypeOK, Clusters
  <2>3. faults' \in Nat
    BY <1>4 DEF MgrApply, Fault, TypeOK
  <2> QED
    BY <1>4, <2>1, <2>2, <2>3 DEF MgrApply, RunTypes, TypeOK
<1>5. CASE MgrDelete
  <2>1. RunTypes'
    BY <1>0, <1>5, DeleteTypes
  <2>2. faults' \in Nat
    BY <1>5 DEF MgrDelete, Fault, TypeOK
  <2>3. UNCHANGED tpls
    BY <1>5 DEF MgrDelete, Runs!Cleaned, Runs!CleanedButMissed, Runs!Unnamed, Runs!CleanFailed,
       Runs!PartlyCleaned
  <2> QED
    BY <1>5, <2>1, <2>2, <2>3 DEF MgrDelete, RunTypes, TypeOK
<1>6. CASE MgrStatus
  <2>1. mold' \in FieldSets /\ mnew' \in FieldSets
    BY <1>6, StatusSums, FieldsType, ApproveType, SummedType DEF TypeOK
  <2>2. mread' \in Clusters
    BY <1>6, NoClusterType DEF MgrStatus
  <2>3. faults' \in Nat
    BY <1>6, StatusSums DEF TypeOK
  <2> QED
    BY <1>6, <2>1, <2>2, <2>3 DEF MgrStatus, TypeOK
<1>7. CASE MgrPatch
  <2>1. yc' \in Clusters
    BY <1>7, MergedMetaType DEF MgrPatch, TypeOK
  <2>2. faults' \in Nat
    BY <1>7 DEF MgrPatch, Fault, TypeOK
  <2> QED
    BY <1>7, <2>1, <2>2 DEF MgrPatch, TypeOK
<1>8. CASE MgrPatchStatus
  <2>1. yc' \in Clusters
    BY <1>8, MergedStatusType DEF MgrPatchStatus, TypeOK
  <2>2. faults' \in Nat
    BY <1>8 DEF MgrPatchStatus, Fault, TypeOK
  <2>3. mold' \in FieldSets /\ mnew' \in FieldSets
    BY <1>8, NoFieldsType DEF MgrPatchStatus
  <2> QED
    BY <1>8, <2>1, <2>2, <2>3 DEF MgrPatchStatus, TypeOK
<1>9. CASE MgrCrash
  <2>1. mread' \in Clusters /\ mold' \in FieldSets /\ mnew' \in FieldSets
    BY <1>9, NoClusterType, NoFieldsType DEF MgrCrash
  <2>2. mlabels' \in [Nodes -> Labels]
    BY <1>9 DEF MgrCrash, TypeOK, NodeObjects
  <2>3. faults' \in Nat
    BY <1>9 DEF MgrCrash, Fault, TypeOK
  <2>4. RunTypes'
    BY <1>0, <1>9, CrashTypes
  <2> QED
    BY <1>9, <2>1, <2>2, <2>3, <2>4 DEF MgrCrash, RunTypes, TypeOK
<1> QED
  BY <1>1, <1>2, <1>3, <1>4, <1>5, <1>6, <1>7, <1>8, <1>9 DEF Manager, MgrPass

LEMMA AgentTypeOK ==
  ASSUME TypeOK, NEW n \in Nodes, Agent(n)
  PROVE  TypeOK'
<1> USE DEF storeVars, hostVars, mgrVars, agentVars, boundVars, historyVars
<1>0. ASSUME AgentReturns(n)
      PROVE  /\ apc' \in [Nodes -> {"idle", "read", "run", "cond", "patch"}]
             /\ aop' \in [Nodes -> NodeTypes]
             /\ run' \in [Nodes -> [gen : Nat, hub : Switches, ok : BOOLEAN]]
  BY <1>0 DEF AgentReturns, NoRun, NodeTypes, Switches, TypeOK
<1>1. ASSUME EditManifest(n) PROVE kcm' \in [Nodes -> Manifests]
  BY <1>1, EditedType DEF EditManifest, TypeOK
<1>2. TypeWanted(n) \in NodeTypes
  BY NodeSetTypes DEF TypeWanted, NodeTypes
<1>3. CASE AgentSyncYC(n)
  BY <1>3, ViewType DEF AgentSyncYC, TypeOK
<1>4. CASE AgentNodeEvent(n)
  BY <1>4 DEF AgentNodeEvent, TypeOK
<1>5. CASE AgentFail(n)
  BY <1>5, <1>1 DEF AgentFail, AgentTears, TypeOK
<1>6. CASE AgentDone(n)
  BY <1>6, <1>1 DEF AgentDone, TypeOK
<1>13. CASE AgentTears(n)
  <2>1. Torn \in Manifests
    BY DEF Torn, Manifests
  <2> QED
    BY <1>13, <2>1 DEF AgentTears, TypeOK
<1>7. CASE AgentStart(n)
  <2>1. abefore' \in [Nodes -> [edge : {"none", "true", "false"}, taint : BOOLEAN]]
    BY <1>7 DEF AgentStart, Dress, TypeOK, NodeObjects
  <2>2. aop' \in [Nodes -> NodeTypes]
    BY <1>7, <1>2 DEF AgentStart, TypeOK
  <2>3. apc' \in [Nodes -> {"idle", "read", "run", "cond", "patch"}]
    BY <1>7 DEF AgentStart, TypeOK
  <2> QED
    BY <1>7, <1>1, <2>1, <2>2, <2>3 DEF AgentStart, TypeOK
<1>8. CASE EdgectlRead(n)
  <2>1. (IF aop[n] = "NormalNode" THEN "on" ELSE HubSwitch(aop[n], yc.spec)) \in Switches
    BY DEF HubSwitch, Switches, TypeOK, Clusters, Specs
  <2>2. run' \in [Nodes -> [gen : Nat, hub : Switches, ok : BOOLEAN]]
    <3>1. yc.gen \in Nat
      BY DEF TypeOK, Clusters
    <3>2. [gen |-> yc.gen, ok |-> FALSE,
           hub |-> IF aop[n] = "NormalNode" THEN "on" ELSE HubSwitch(aop[n], yc.spec)]
             \in [gen : Nat, hub : Switches, ok : BOOLEAN]
      BY <2>1, <3>1
    <3>3. run \in [Nodes -> [gen : Nat, hub : Switches, ok : BOOLEAN]]
      BY DEF TypeOK
    <3>4. \/ run' = run
          \/ run' = [run EXCEPT ![n] =
                      [gen |-> yc.gen, ok |-> FALSE,
                       hub |-> IF aop[n] = "NormalNode" THEN "on" ELSE HubSwitch(aop[n], yc.spec)]]
      BY <1>8 DEF EdgectlRead
    <3> QED
      BY <3>2, <3>3, <3>4
  <2>3. apc' \in [Nodes -> {"idle", "read", "run", "cond", "patch"}]
    BY <1>8 DEF EdgectlRead, TypeOK
  <2>4. faults' \in Nat
    BY <1>8 DEF EdgectlRead, Fault, TypeOK
  <2> QED
    BY <1>8, <2>2, <2>3, <2>4 DEF EdgectlRead, TypeOK
<1>9. CASE EdgectlRun(n)
  <2>1. host[n] \in Hosts /\ aop[n] \in NodeTypes
    BY DEF TypeOK
  <2>2. PICK h \in {host[n], Done(host[n], aop[n])} \cup Interrupted(host[n], aop[n]), ok \in BOOLEAN :
           /\ host' = [host EXCEPT ![n] = h]
           /\ unrecorded' = [unrecorded EXCEPT ![n] = @ \/ h # host[n]]
           /\ run' = [run EXCEPT ![n].ok = ok]
           /\ UNCHANGED fails \/ fails' = fails + 1
    <3>1. (run[n].hub # "on") \in BOOLEAN
      OBVIOUS
    <3> QED
      BY <1>9, <3>1 DEF EdgectlRun, Leaves
  <2>3. h \in Hosts
    BY <2>1, <2>2, DoneType, InterruptedType
  <2>4. /\ host' \in [Nodes -> Hosts] /\ unrecorded' \in [Nodes -> BOOLEAN] /\ fails' \in Nat
    BY <2>2, <2>3 DEF TypeOK
  <2>6. run' \in [Nodes -> [gen : Nat, hub : Switches, ok : BOOLEAN]]
    <3>1. run[n] \in [gen : Nat, hub : Switches, ok : BOOLEAN]
      BY DEF TypeOK
    <3>2. run' = [run EXCEPT ![n] = [run[n] EXCEPT !.ok = ok]]
      BY <2>2
    <3>3. [run[n] EXCEPT !.ok = ok] \in [gen : Nat, hub : Switches, ok : BOOLEAN]
      BY <2>2, <3>1
    <3>4. run \in [Nodes -> [gen : Nat, hub : Switches, ok : BOOLEAN]]
      BY DEF TypeOK
    <3> QED
      BY <3>2, <3>3, <3>4
  <2>5. apc' \in [Nodes -> {"idle", "read", "run", "cond", "patch"}]
    BY <1>9 DEF EdgectlRun, TypeOK
  <2> QED
    BY <1>9, <2>4, <2>5, <2>6 DEF EdgectlRun, TypeOK
<1>10. CASE EdgectlCond(n)
  <2>1. RunCondition(n) \in Conditions
    BY DEF RunCondition, ReasonOf, Conditions, TypeOK
  <2>2. ConditionPatched(n) \in Clusters
    BY <2>1 DEF ConditionPatched, Clusters, TypeOK
  <2>3. yc' \in Clusters
    BY <1>10, <2>2 DEF EdgectlCond, TypeOK
  <2>4. faults' \in Nat
    BY <1>10 DEF EdgectlCond, Fault, TypeOK
  <2>5. /\ unrecorded' \in [Nodes -> BOOLEAN]
        /\ apc' \in [Nodes -> {"idle", "read", "run", "cond", "patch"}]
    BY <1>10 DEF EdgectlCond, TypeOK
  <2> QED
    BY <1>10, <2>3, <2>4, <2>5 DEF EdgectlCond, TypeOK
<1>11. CASE AgentNodePatch(n)
  <2>1. abefore' \in [Nodes -> [edge : {"none", "true", "false"}, taint : BOOLEAN]]
    BY <1>11 DEF AgentNodePatch, Undressed, TypeOK
  <2>2. NodePatched(n) \in NodeObjects
    <3> DEFINE new == Dressed(abefore[n], aop[n])
    <3>0. abefore[n] \in [edge : {"none", "true", "false"}, taint : BOOLEAN]
      BY DEF TypeOK
    <3>1. new \in [edge : {"none", "true", "false"}, taint : BOOLEAN]
      BY <3>0 DEF Dressed, Undressed
    <3>2. nodes[n] \in NodeObjects
      BY DEF TypeOK
    <3>3. /\ Merged(abefore[n].edge, new.edge, nodes[n].edge) \in {"none", "true", "false"}
          /\ Merged(abefore[n].taint, new.taint, nodes[n].taint) \in BOOLEAN
      BY <3>1, <3>2 DEF Merged, NodeObjects
    <3> QED
      BY <3>2, <3>3 DEF NodePatched, NodeObjects
  <2>3. nodes' \in [Nodes -> NodeObjects] /\ faults' \in Nat
    BY <1>11, <2>2 DEF AgentNodePatch, Fault, TypeOK
  <2> QED
    BY <1>11, <1>0, <2>1, <2>3 DEF AgentNodePatch, TypeOK
<1>12. CASE AgentCrash(n)
  <2>1. host[n] \in Hosts /\ aop[n] \in NodeTypes
    BY DEF TypeOK
  <2>2. PICK h \in {host[n]} \cup Interrupted(host[n], aop[n]) :
           /\ host' = [host EXCEPT ![n] = h]
           /\ unrecorded' = [unrecorded EXCEPT ![n] = @ \/ h # host[n]]
    BY <1>12 DEF AgentCrash
  <2>3. host' \in [Nodes -> Hosts] /\ unrecorded' \in [Nodes -> BOOLEAN]
    BY <2>1, <2>2, InterruptedType DEF TypeOK
  <2>4. abefore' \in [Nodes -> [edge : {"none", "true", "false"}, taint : BOOLEAN]]
    BY <1>12 DEF AgentCrash, Undressed, TypeOK
  <2>5. acache' \in [Nodes -> Views] /\ anode' \in [Nodes -> NodeObjects] /\ faults' \in Nat
    BY <1>12, ViewType DEF AgentCrash, Fault, TypeOK
  <2> QED
    BY <1>12, <1>0, <2>3, <2>4, <2>5 DEF AgentCrash, TypeOK
<1> QED
  BY <1>3, <1>4, <1>5, <1>6, <1>7, <1>8, <1>9, <1>10, <1>11, <1>12, <1>13 DEF Agent, AgentPass

LEMMA EnvironmentTypeOK ==
  ASSUME TypeOK, Environment
  PROVE  TypeOK'
<1> USE DEF storeVars, hostVars, mgrVars, agentVars, boundVars, historyVars
<1>1. ASSUME NEW n \in Nodes, NodeFlips(n) PROVE TypeOK'
  <2>1. nodes' \in [Nodes -> NodeObjects] /\ flips' \in Nat
    <3>1. [nodes[n] EXCEPT !.ready = ~@] \in NodeObjects
      BY NodeType DEF NodeObjects
    <3>2. nodes' = [nodes EXCEPT ![n] = [nodes[n] EXCEPT !.ready = ~@]]
      BY <1>1 DEF NodeFlips
    <3> QED
      BY <1>1, <3>1, <3>2 DEF NodeFlips, TypeOK
  <2> QED
    BY <1>1, <2>1 DEF NodeFlips, TypeOK
<1>2. ASSUME NEW n \in Nodes, NEW l \in Labels, UserLabels(n, l) PROVE TypeOK'
  <2>1. nodes' \in [Nodes -> NodeObjects] /\ relabels' \in Nat
    <3>1. [nodes[n] EXCEPT !.label = l] \in NodeObjects
      BY NodeType DEF NodeObjects
    <3>2. nodes' = [nodes EXCEPT ![n] = [nodes[n] EXCEPT !.label = l]]
      BY <1>2 DEF UserLabels
    <3> QED
      BY <1>2, <3>1, <3>2 DEF UserLabels, TypeOK
  <2> QED
    BY <1>2, <2>1 DEF UserLabels, TypeOK
<1>3. ASSUME NEW s \in UpdateSpecs, UserUpdates(s) PROVE TypeOK'
  <2>1. yc' \in Clusters
    <3>1. s \in Specs /\ yc \in Clusters
      BY SpecsAssumption DEF TypeOK
    <3>2. yc.gen + 1 \in Nat
      BY <3>1 DEF Clusters
    <3>3. [yc EXCEPT !.spec = s, !.gen = yc.gen + 1] \in Clusters
      BY <3>1, <3>2 DEF Clusters
    <3> QED
      BY <1>3, <3>3 DEF UserUpdates
  <2> QED
    BY <1>3, <2>1 DEF UserUpdates, TypeOK
<1>4. CASE UserDeletes
  <2>1. yc' \in Clusters
    <3>1. yc \in Clusters
      BY DEF TypeOK
    <3>2. yc.gen + 1 \in Nat
      BY <3>1 DEF Clusters
    <3>3. [yc EXCEPT !.deleting = TRUE, !.gen = yc.gen + 1] \in Clusters
      BY <3>1, <3>2 DEF Clusters
    <3> QED
      BY <1>4, <3>3, NoClusterType DEF UserDeletes
  <2>2. held' \subseteq Nodes
    BY <1>4 DEF UserDeletes
  <2> QED
    BY <1>4, <2>1, <2>2 DEF UserDeletes, TypeOK
<1> QED
  BY <1>1, <1>2, <1>3, <1>4 DEF Environment

LEMMA TypePreserved ==
  ASSUME TypeOK, [Next]_vars
  PROVE  TypeOK'
<1>1. CASE UNCHANGED vars
  BY <1>1 DEF vars, storeVars, hostVars, mgrVars, agentVars, boundVars, historyVars, TypeOK
<1> QED
  BY <1>1, ManagerTypeOK, AgentTypeOK, EnvironmentTypeOK DEF Next

\* Every variable keeps its type, whatever the manager, the agents and their environment do.
THEOREM TypeCorrect == Spec => []TypeOK
<1>1. TypeOK /\ [Next]_vars => TypeOK'
  BY TypePreserved
<1> QED
  BY InitTypeOK, <1>1, PTL DEF Spec

----------------------------------------------------------------------------
(* What the three kinds of step leave alone, and how the object evolves *)

LEMMA ManagerFrame ==
  ASSUME Manager
  PROVE  UNCHANGED <<hostVars, agentVars, held, unrecorded>>
<1> USE DEF hostVars, agentVars, boundVars, historyVars
<1>1. ASSUME NEW n \in Nodes, MgrNodeEvent(n)
      PROVE  UNCHANGED <<hostVars, agentVars, held, unrecorded>>
  BY <1>1 DEF MgrNodeEvent
<1> QED
  BY <1>1 DEF Manager, MgrPass, MgrSyncYC, MgrStart, MgrApply, MgrDelete, MgrStatus, MgrPatch,
              MgrPatchStatus, MgrCrash

LEMMA AgentFrame ==
  ASSUME NEW n \in Nodes, Agent(n)
  PROVE  /\ UNCHANGED <<mgrVars, tpls, tunnelUp, approved, applied, skipped, held>>
         /\ UNCHANGED yc \/ EdgectlCond(n)
  BY DEF Agent, AgentPass, AgentSyncYC, AgentNodeEvent, AgentFail, AgentTears, AgentDone, AgentStart,
         EdgectlRead, EdgectlRun, EdgectlCond, AgentNodePatch, AgentCrash,
         storeVars, mgrVars, boundVars, historyVars

LEMMA EnvironmentFrame ==
  ASSUME Environment
  PROVE  /\ UNCHANGED <<mgrVars, agentVars, hostVars, tpls, tunnelUp, approved, applied,
                        skipped, unrecorded>>
         /\ \/ UNCHANGED yc
            \/ \E s \in UpdateSpecs : UserUpdates(s)
            \/ UserDeletes
  BY DEF Environment, NodeFlips, UserLabels, UserUpdates, UserDeletes,
         mgrVars, agentVars, hostVars, historyVars

\* The fields of the object that the proofs are about, after each kind of write.
LEMMA MergedMetaFields ==
  ASSUME TypeOK
  PROVE  \/ MergedMeta = NoCluster /\ yc.deleting /\ mold.finalizer /\ ~mnew.finalizer
         \/ /\ ~(yc.deleting /\ mold.finalizer /\ ~mnew.finalizer)
            /\ MergedMeta.exists = yc.exists /\ MergedMeta.deleting = yc.deleting
            /\ MergedMeta.obsGen = yc.obsGen /\ MergedMeta.phase = yc.phase
            /\ MergedMeta.conds = yc.conds
            /\ MergedMeta.finalizer = Merged(mold.finalizer, mnew.finalizer, yc.finalizer)
            /\ MergedMeta.gen \in {yc.gen, yc.gen + 1}
<1>1. yc \in Clusters
  BY DEF TypeOK
<1> QED
  BY <1>1 DEF MergedMeta, Clusters

LEMMA MergedStatusFields ==
  ASSUME TypeOK
  PROVE  /\ MergedStatus.exists = yc.exists /\ MergedStatus.deleting = yc.deleting
         /\ MergedStatus.finalizer = yc.finalizer /\ MergedStatus.gen = yc.gen
         /\ MergedStatus.conds = yc.conds
         /\ MergedStatus.obsGen = Merged(mold.obsGen, mnew.obsGen, yc.obsGen)
<1>1. yc \in Clusters
  BY DEF TypeOK
<1> QED
  BY <1>1 DEF MergedStatus, Clusters

LEMMA ConditionPatchedFields ==
  ASSUME TypeOK, NEW n \in Nodes
  PROVE  /\ ConditionPatched(n).exists = yc.exists /\ ConditionPatched(n).deleting = yc.deleting
         /\ ConditionPatched(n).finalizer = yc.finalizer /\ ConditionPatched(n).gen = yc.gen
         /\ ConditionPatched(n).obsGen = yc.obsGen /\ ConditionPatched(n).phase = yc.phase
         /\ \A m \in Nodes \ {n} : ConditionPatched(n).conds[m] = yc.conds[m]
<1>1. yc \in Clusters
  BY DEF TypeOK
<1> QED
  BY <1>1 DEF ConditionPatched, Clusters

LEMMA NoClusterFields ==
  /\ ~NoCluster.exists /\ ~NoCluster.finalizer /\ ~NoCluster.deleting
  /\ NoCluster.gen = 0 /\ NoCluster.obsGen = 0
  BY DEF NoCluster, NewCluster

LEMMA FieldTypes ==
  ASSUME NEW c \in Clusters
  PROVE  /\ c.exists \in BOOLEAN /\ c.finalizer \in BOOLEAN /\ c.deleting \in BOOLEAN
         /\ c.gen \in Nat /\ c.obsGen \in Nat
  BY DEF Clusters

----------------------------------------------------------------------------
(* Approval: nothing is touched for an object without the finalizer *)

\* A snapshot is never ahead of the object, and its generation tells whether it knows of the
\* deletion.  `c' is the manager's copy or what an agent sees.
Behind(c) ==
  yc.exists =>
    /\ c.finalizer => yc.finalizer
    /\ c.deleting => yc.deleting
    /\ c.gen <= yc.gen
    /\ c.gen = yc.gen => c.deleting = yc.deleting

\* TouchedOnlyWhenApproved is not inductive: an apply, a run of edgectl or the release of the
\* object that is already under way could break it.  What is under way was decided on a snapshot,
\* and the snapshots are behind the object.
ApprovedInv ==
  /\ Behind(mcache) /\ Behind(mread) /\ \A n \in Nodes : Behind(acache[n])
  /\ mpc \in {"apply", "delete"} => mread.finalizer
  /\ yc.exists => /\ yc.gen > 0
                  /\ (\E n \in Nodes : apc[n] # "idle") => yc.finalizer
                  /\ mold.finalizer /\ ~mnew.finalizer => yc.deleting
  /\ TouchedOnlyWhenApproved

\* How one step may change the object.
Onward ==
  yc'.exists =>
    /\ yc.exists
    /\ yc.finalizer => yc'.finalizer
    /\ yc.deleting => yc'.deleting
    /\ yc.gen <= yc'.gen
    /\ yc'.gen = yc.gen => yc'.deleting = yc.deleting

LEMMA StepOnward ==
  ASSUME TypeOK, ApprovedInv, [Next]_vars
  PROVE  Onward
<1>0. yc \in Clusters
  BY DEF TypeOK
<1>1. CASE UNCHANGED yc
  BY <1>0, <1>1, FieldTypes DEF Onward
<1>2. CASE MgrPatch
  <2>1. CASE yc' = MergedMeta
    <3>1. CASE MergedMeta = NoCluster
      BY <2>1, <3>1, NoClusterFields DEF Onward
    <3>2. CASE MergedMeta # NoCluster
      <4>1. mold.finalizer \in BOOLEAN /\ mnew.finalizer \in BOOLEAN
        BY DEF TypeOK, FieldSets
      <4>2. yc.exists /\ yc.finalizer => MergedMeta.finalizer
        BY <1>0, <3>2, <4>1, FieldTypes, MergedMetaFields DEF ApprovedInv, Merged
      <4>3. /\ MergedMeta.exists = yc.exists /\ MergedMeta.deleting = yc.deleting
            /\ MergedMeta.gen \in {yc.gen, yc.gen + 1}
        BY <3>2, MergedMetaFields
      <4>4. yc.gen <= MergedMeta.gen
        BY <1>0, <4>3, FieldTypes
      <4> QED
        BY <2>1, <4>2, <4>3, <4>4 DEF Onward
    <3> QED
      BY <3>1, <3>2
  <2> QED
    BY <1>1, <1>2, <2>1 DEF MgrPatch
<1>3. CASE MgrPatchStatus
  BY <1>0, <1>1, <1>3, FieldTypes, MergedStatusFields DEF MgrPatchStatus, Onward
<1>4. ASSUME NEW n \in Nodes, EdgectlCond(n) PROVE Onward
  BY <1>0, <1>1, <1>4, FieldTypes, ConditionPatchedFields DEF EdgectlCond, Onward
<1>5. ASSUME NEW s \in UpdateSpecs, UserUpdates(s) PROVE Onward
  <2>1. yc.gen \in Nat /\ yc' = [yc EXCEPT !.spec = s, !.gen = yc.gen + 1] /\ yc.exists
    BY <1>0, <1>5, FieldTypes DEF UserUpdates
  <2> QED
    BY <1>0, <2>1 DEF Onward, Clusters
<1>6. CASE UserDeletes
  <2>1. yc.gen \in Nat /\ yc.exists
    BY <1>0, <1>6, FieldTypes DEF UserDeletes
  <2>2. CASE yc' = [yc EXCEPT !.deleting = TRUE, !.gen = yc.gen + 1]
    <3>1. /\ yc'.finalizer = yc.finalizer /\ yc'.deleting
          /\ yc'.gen = yc.gen + 1
      BY <1>0, <2>2 DEF Clusters
    <3>2. yc.gen <= yc'.gen /\ yc'.gen # yc.gen
      BY <2>1, <3>1
    <3> QED
      BY <2>1, <3>1, <3>2 DEF Onward
  <2>3. CASE yc' = NoCluster
    BY <2>3, NoClusterFields DEF Onward
  <2> QED
    BY <1>6, <2>2, <2>3 DEF UserDeletes
<1>7. CASE Manager
  <2>1. ASSUME NEW n \in Nodes, MgrNodeEvent(n) PROVE UNCHANGED yc
    BY <2>1 DEF MgrNodeEvent
  <2> QED
    BY <1>1, <1>2, <1>3, <1>7, <2>1 DEF Manager, MgrPass, MgrSyncYC, MgrStart, MgrApply,
       MgrDelete, MgrStatus, MgrCrash, storeVars
<1> QED
  BY <1>1, <1>4, <1>5, <1>6, <1>7, AgentFrame, EnvironmentFrame DEF Next, vars, storeVars

\* What the snapshots become in one step.
LEMMA Reads ==
  ASSUME [Next]_vars
  PROVE  /\ mcache' = mcache \/ (mcache' = yc /\ yc' = yc)
         /\ \/ mread' = mread
            \/ mread' = NoCluster
            \/ mread' = mcache /\ yc' = yc
         /\ \/ acache' = acache
            \/ /\ yc' = yc
               /\ \E n \in Nodes : acache' = [acache EXCEPT ![n] = View(yc, n)]
<1> USE DEF storeVars, hostVars, mgrVars, agentVars, boundVars, historyVars
<1>1. CASE Manager
  <2>1. ASSUME NEW n \in Nodes, MgrNodeEvent(n) PROVE UNCHANGED <<mcache, mread>>
    BY <2>1 DEF MgrNodeEvent
  <2> QED
    BY <1>1, <2>1, ManagerFrame DEF Manager, MgrPass, MgrSyncYC, MgrStart, MgrApply, MgrDelete,
       MgrStatus, MgrPatch, MgrPatchStatus, MgrCrash
<1>2. ASSUME NEW n \in Nodes, Agent(n)
      PROVE  \/ acache' = acache
             \/ yc' = yc /\ acache' = [acache EXCEPT ![n] = View(yc, n)]
  BY <1>2 DEF Agent, AgentPass, AgentSyncYC, AgentNodeEvent, AgentFail, AgentTears, AgentDone, AgentStart,
         EdgectlRead, EdgectlRun, EdgectlCond, AgentNodePatch, AgentCrash
<1>3. ASSUME NEW n \in Nodes, Agent(n) PROVE UNCHANGED <<mcache, mread>>
  BY <1>3, AgentFrame
<1>4. CASE Environment
  BY <1>4, EnvironmentFrame
<1>5. CASE UNCHANGED vars
  BY <1>5 DEF vars
<1> QED
  BY <1>1, <1>2, <1>3, <1>4, <1>5 DEF Next

LEMMA SnapshotsBehind ==
  ASSUME TypeOK, ApprovedInv, [Next]_vars
  PROVE  Behind(mcache)' /\ Behind(mread)' /\ \A n \in Nodes : Behind(acache[n])'
<1>0. /\ yc \in Clusters /\ yc' \in Clusters /\ mcache \in Clusters /\ mread \in Clusters
      /\ acache \in [Nodes -> Views]
  BY TypePreserved DEF TypeOK
<1>1. Onward
  BY StepOnward
<1>2. ASSUME NEW c, c.gen \in Nat, c.deleting \in BOOLEAN, Behind(c)
      PROVE  yc'.exists =>
               /\ c.finalizer => yc'.finalizer
               /\ c.deleting => yc'.deleting
               /\ c.gen <= yc'.gen
               /\ c.gen = yc'.gen => c.deleting = yc'.deleting
  BY <1>0, <1>1, <1>2, FieldTypes DEF Behind, Onward
<1>3. Behind(mcache)'
  <2>1. CASE mcache' = mcache
    BY <1>0, <1>2, <2>1, FieldTypes DEF ApprovedInv, Behind
  <2>2. CASE mcache' = yc /\ yc' = yc
    BY <1>0, <2>2, FieldTypes DEF Behind
  <2> QED
    BY <2>1, <2>2, Reads
<1>4. Behind(mread)'
  <2>1. CASE mread' = mread
    BY <1>0, <1>2, <2>1, FieldTypes DEF ApprovedInv, Behind
  <2>2. CASE mread' = NoCluster
    <3>1. yc'.exists => yc'.gen > 0
      BY <1>0, <1>1, FieldTypes DEF Onward, ApprovedInv
    <3> QED
      BY <1>0, <2>2, <3>1, FieldTypes, NoClusterFields DEF Behind
  <2>3. CASE mread' = mcache /\ yc' = yc
    BY <1>0, <2>3 DEF ApprovedInv, Behind
  <2> QED
    BY <2>1, <2>2, <2>3, Reads
<1>5. ASSUME NEW m \in Nodes PROVE Behind(acache[m])'
  <2>1. acache[m].gen \in Nat /\ acache[m].deleting \in BOOLEAN
    BY <1>0 DEF Views
  <2>2. CASE acache'[m] = acache[m]
    BY <1>2, <2>1, <2>2 DEF ApprovedInv, Behind
  <2>3. CASE acache'[m] = View(yc, m) /\ yc' = yc
    BY <1>0, <2>3, FieldTypes DEF Behind, View
  <2> QED
    BY <1>0, <2>2, <2>3, Reads
<1> QED
  BY <1>3, <1>4, <1>5

LEMMA UntouchedStays ==
  ASSUME TypeOK, ApprovedInv, [Next]_vars
  PROVE  TouchedOnlyWhenApproved'
<1> USE DEF storeVars, hostVars, mgrVars, agentVars, boundVars, historyVars
<1> DEFINE Untouched == /\ tpls = {} /\ ~tunnelUp
                        /\ \A n \in Nodes : /\ host[n] = InitialHost(n)
                                            /\ kcm[n] \in InitialManifests(n)
                                            /\ ~nodes[n].taint
<1> SUFFICES ASSUME yc'.exists, ~yc'.finalizer PROVE Untouched'
  BY DEF TouchedOnlyWhenApproved
<1>1. yc.exists /\ ~yc.finalizer
  BY StepOnward DEF Onward
<1>2. Untouched
  BY <1>1 DEF ApprovedInv, TouchedOnlyWhenApproved
<1>3. /\ mpc \notin {"apply", "delete"}
      /\ \A n \in Nodes : apc[n] = "idle" /\ ~acache[n].finalizer
  BY <1>1 DEF ApprovedInv, Behind
<1>4. nodes \in [Nodes -> NodeObjects]
  BY DEF TypeOK
<1>5. ASSUME NEW n \in Nodes, NEW node, ~node.taint, nodes' = [nodes EXCEPT ![n] = node]
      PROVE  \A m \in Nodes : nodes[m].taint <=> nodes'[m].taint
  BY <1>2, <1>4, <1>5
<1>6. CASE Manager
  <2>1. ASSUME NEW n \in Nodes, MgrNodeEvent(n) PROVE Untouched'
    <3>1. CASE nodes' = nodes
      BY <1>2, <2>1, <3>1 DEF MgrNodeEvent
    <3>2. CASE nodes' = [nodes EXCEPT ![n] = [nodes[n] EXCEPT !.edge = "false"]]
      <4>1. ~[nodes[n] EXCEPT !.edge = "false"].taint
        BY <1>2, <1>4 DEF NodeObjects
      <4>2. \A m \in Nodes : nodes[m].taint <=> nodes'[m].taint
        BY <1>5, <3>2, <4>1
      <4> QED
        BY <1>2, <2>1, <4>2 DEF MgrNodeEvent
    <3> QED
      BY <2>1, <3>1, <3>2 DEF MgrNodeEvent
  <2>2. CASE MgrStatus
    <3>1. UNCHANGED <<storeVars, hostVars>>
      BY <2>2 DEF MgrStatus
    <3> QED
      BY <1>2, <3>1 DEF InitialHost, InitialManifests
  <2> QED
    BY <1>2, <1>3, <1>6, <2>1, <2>2 DEF Manager, MgrPass, MgrSyncYC, MgrStart, MgrApply, MgrDelete,
       MgrPatch, MgrPatchStatus, MgrCrash
<1>7. ASSUME NEW n \in Nodes, Agent(n) PROVE Untouched'
  <2>1. AgentSyncYC(n) \/ AgentNodeEvent(n)
    BY <1>3, <1>7 DEF Agent, AgentPass, AgentFail, AgentTears, AgentDone, AgentStart, AgentApproved,
       EdgectlRead, EdgectlRun, EdgectlCond, AgentNodePatch, AgentCrash
  <2> QED
    BY <1>2, <2>1 DEF AgentSyncYC, AgentNodeEvent
<1>8. CASE Environment
  <2>1. ASSUME NEW n \in Nodes, NodeFlips(n) PROVE Untouched'
    <3>1. /\ ~[nodes[n] EXCEPT !.ready = ~@].taint
          /\ nodes' = [nodes EXCEPT ![n] = [nodes[n] EXCEPT !.ready = ~@]]
      BY <1>2, <1>4, <2>1 DEF NodeFlips, NodeObjects
    <3>2. \A m \in Nodes : nodes[m].taint <=> nodes'[m].taint
      BY <1>5, <3>1
    <3> QED
      BY <1>2, <2>1, <3>2 DEF NodeFlips
  <2>2. ASSUME NEW n \in Nodes, NEW l \in Labels, UserLabels(n, l) PROVE Untouched'
    <3>1. /\ ~[nodes[n] EXCEPT !.label = l].taint
          /\ nodes' = [nodes EXCEPT ![n] = [nodes[n] EXCEPT !.label = l]]
      BY <1>2, <1>4, <2>2 DEF UserLabels, NodeObjects
    <3>2. \A m \in Nodes : nodes[m].taint <=> nodes'[m].taint
      BY <1>5, <3>1
    <3> QED
      BY <1>2, <2>2, <3>2 DEF UserLabels
  <2>3. ASSUME NEW s \in UpdateSpecs, UserUpdates(s) PROVE Untouched'
    BY <1>2, <2>3 DEF UserUpdates
  <2>4. CASE UserDeletes
    BY <1>2, <2>4 DEF UserDeletes
  <2> QED
    BY <1>8, <2>1, <2>2, <2>3, <2>4 DEF Environment
<1>9. CASE UNCHANGED vars
  BY <1>2, <1>9 DEF vars
<1> QED
  BY <1>6, <1>7, <1>8, <1>9 DEF Next

LEMMA ApprovedStep ==
  ASSUME TypeOK, ApprovedInv, [Next]_vars
  PROVE  ApprovedInv'
<1> USE DEF mgrVars, agentVars
<1>0. /\ yc \in Clusters /\ yc' \in Clusters /\ mread \in Clusters
      /\ mold \in FieldSets /\ mnew \in FieldSets /\ apc \in [Nodes -> {"idle", "read", "run", "cond", "patch"}]
  BY TypePreserved DEF TypeOK
<1>1. Onward
  BY StepOnward
<1>2. (mpc \in {"apply", "delete"} => mread.finalizer)'
  <2>1. CASE Manager
    <3>1. ASSUME NEW n \in Nodes, MgrNodeEvent(n) PROVE UNCHANGED <<mpc, mread>>
      BY <3>1 DEF MgrNodeEvent
    <3> QED
      BY <2>1, <3>1 DEF ApprovedInv, Manager, MgrPass, MgrSyncYC, MgrStart, MgrApply, MgrDelete,
         MgrStatus, MgrPatch, MgrPatchStatus, MgrCrash
  <2>2. CASE ~Manager
    BY <2>2, AgentFrame, EnvironmentFrame DEF ApprovedInv, Next, vars
  <2> QED
    BY <2>1, <2>2
<1>3. ASSUME yc'.exists PROVE yc'.gen > 0
  BY <1>0, <1>1, <1>3, FieldTypes DEF ApprovedInv, Onward
<1>4. ASSUME yc'.exists, NEW n \in Nodes, apc'[n] # "idle" PROVE yc'.finalizer
  <2>1. yc.exists /\ (yc.finalizer => yc'.finalizer)
    BY <1>1, <1>4 DEF Onward
  <2>2. CASE apc[n] # "idle"
    BY <2>1, <2>2 DEF ApprovedInv
  <2>3. CASE apc[n] = "idle"
    <3>1. ASSUME NEW m \in Nodes, Agent(m) PROVE AgentStart(n)
      <4>1. AgentStart(m) /\ m = n
        BY <1>0, <1>4, <2>3, <3>1 DEF Agent, AgentPass, AgentSyncYC, AgentNodeEvent, AgentFail, AgentTears,
           AgentDone, AgentStart, EdgectlRead, EdgectlRun, EdgectlCond, AgentNodePatch,
           AgentCrash, AgentReturns
      <4> QED
        BY <4>1
    <3>2. AgentStart(n)
      BY <1>4, <2>3, <3>1, ManagerFrame, EnvironmentFrame DEF Next, vars
    <3>3. acache[n].finalizer
      BY <3>2 DEF AgentStart, AgentApproved
    <3> QED
      BY <2>1, <3>3 DEF ApprovedInv, Behind
  <2> QED
    BY <2>2, <2>3
<1>5. ASSUME yc'.exists, mold'.finalizer, ~mnew'.finalizer PROVE yc'.deleting
  <2>1. yc.exists /\ (yc.deleting => yc'.deleting)
    BY <1>1, <1>5 DEF Onward
  <2>2. CASE UNCHANGED <<mold, mnew>>
    BY <1>5, <2>1, <2>2 DEF ApprovedInv
  <2>3. CASE mold' = NoFields
    BY <1>5, <2>3, NoClusterFields DEF NoFields, Fields
  <2>4. CASE MgrStatus
    <3>1. mread.finalizer
      BY <1>5, <2>4 DEF MgrStatus, Fields
    <3>2. PICK listed \in BOOLEAN : ~Summed(mread, listed).finalizer
      <4>1. PICK listed \in BOOLEAN : mnew' = Fields(Summed(Approve(mread), listed))
        BY <2>4, StatusSums
      <4> QED
        BY <1>5, <3>1, <4>1 DEF Fields, Approve
    <3>3. mread.deleting
      BY <1>0, <3>1, <3>2 DEF Summed, Clusters
    <3> QED
      BY <2>1, <3>3 DEF ApprovedInv, Behind
  <2>5. CASE Manager
    <3>1. ASSUME NEW n \in Nodes, MgrNodeEvent(n) PROVE UNCHANGED <<mold, mnew>>
      BY <3>1 DEF MgrNodeEvent
    <3> QED
      BY <2>2, <2>3, <2>4, <2>5, <3>1 DEF Manager, MgrPass, MgrSyncYC, MgrStart, MgrApply,
         MgrDelete, MgrPatch, MgrPatchStatus, MgrCrash
  <2> QED
    BY <2>2, <2>5, AgentFrame, EnvironmentFrame DEF Next, vars
<1> QED
  BY <1>2, <1>3, <1>4, <1>5, SnapshotsBehind, UntouchedStays DEF ApprovedInv

LEMMA InitApproved == Init => ApprovedInv
<1> SUFFICES ASSUME Init PROVE ApprovedInv
  OBVIOUS
<1>1. PICK s \in InitialSpecs : yc = NewCluster(s)
  BY DEF Init
<1>2. /\ yc.gen = 1 /\ ~yc.finalizer /\ ~yc.deleting
  BY <1>1 DEF NewCluster
<1>3. Behind(mcache) /\ Behind(mread)
  BY <1>2, NoClusterFields DEF Init, Behind
<1>4. ASSUME NEW n \in Nodes PROVE Behind(acache[n])
  BY <1>2, NoClusterFields DEF Init, Behind, View
<1>5. ~mold.finalizer
  BY NoClusterFields DEF Init, NoFields, Fields
<1> QED
  BY <1>2, <1>3, <1>4, <1>5 DEF Init, ApprovedInv, TouchedOnlyWhenApproved

\* Hosts, manifests, templates, yurt tunnel and taints are as they were as long as the object has
\* no finalizer, which the manager is the first to set.
THEOREM UntouchedUnlessApproved == Spec => []TouchedOnlyWhenApproved
<1>1. TypeOK /\ ApprovedInv /\ [Next]_vars => ApprovedInv'
  BY ApprovedStep
<1>2. ApprovedInv => TouchedOnlyWhenApproved
  BY DEF ApprovedInv
<1> QED
  BY InitApproved, TypeCorrect, <1>1, <1>2, PTL DEF Spec

----------------------------------------------------------------------------
(* status.observedGeneration *)

\* The pass has its snapshot and has not summed it up yet.
InPass == mpc \in {"apply", "delete", "status"}

\* observedGeneration is behind the snapshot of the pass, which is behind the cache: what a pass
\* is about to write is between what is there and what the cache has.
ObservedInv ==
  yc.exists =>
    /\ yc.obsGen <= mcache.gen
    /\ InPass => yc.obsGen <= mread.gen /\ mread.gen <= mcache.gen
    /\ mold.obsGen # mnew.obsGen => yc.obsGen <= mnew.obsGen /\ mnew.obsGen <= mcache.gen

\* Only the manager's last patch writes observedGeneration.
LEMMA ObsGenStep ==
  ASSUME TypeOK, [Next]_vars, yc'.exists
  PROVE  \/ yc'.obsGen = yc.obsGen
         \/ MgrPatchStatus /\ yc'.obsGen = Merged(mold.obsGen, mnew.obsGen, yc.obsGen)
<1>0. yc \in Clusters
  BY DEF TypeOK
<1>1. CASE MgrPatch
  BY <1>1, MergedMetaFields, NoClusterFields DEF MgrPatch
<1>2. CASE MgrPatchStatus
  BY <1>2, MergedStatusFields DEF MgrPatchStatus
<1>3. ASSUME NEW n \in Nodes, EdgectlCond(n) PROVE yc'.obsGen = yc.obsGen
  BY <1>3, ConditionPatchedFields DEF EdgectlCond
<1>4. ASSUME NEW s \in UpdateSpecs, UserUpdates(s) PROVE yc'.obsGen = yc.obsGen
  BY <1>0, <1>4 DEF UserUpdates, Clusters
<1>5. CASE UserDeletes
  <2>1. CASE yc' = [yc EXCEPT !.deleting = TRUE, !.gen = @ + 1]
    BY <1>0, <2>1 DEF Clusters
  <2>2. CASE yc' = NoCluster
    BY <2>2, NoClusterFields
  <2> QED
    BY <1>5, <2>1, <2>2 DEF UserDeletes
<1>6. CASE Manager
  <2>1. ASSUME NEW n \in Nodes, MgrNodeEvent(n) PROVE UNCHANGED yc
    BY <2>1 DEF MgrNodeEvent
  <2> QED
    BY <1>1, <1>2, <1>6, <2>1 DEF Manager, MgrPass, MgrSyncYC, MgrStart, MgrApply,
       MgrDelete, MgrStatus, MgrCrash, storeVars
<1> QED
  BY <1>3, <1>4, <1>5, <1>6, AgentFrame, EnvironmentFrame DEF Next, vars, storeVars

\* Where the manager's pass goes in one step.
LEMMA PassSteps ==
  ASSUME [Next]_vars
  PROVE  \/ MgrStart
         \/ MgrStatus
         \/ MgrApply \/ MgrDelete
         \/ MgrPatch /\ mpc' = "patchStatus" /\ UNCHANGED <<mcache, mread, mold, mnew>>
         \/ mpc' = "idle" /\ mold' = NoFields /\ mnew' = NoFields
         \/ UNCHANGED <<mpc, mread, mresult, mold, mnew>>
<1> USE DEF mgrVars
<1>1. ASSUME NEW n \in Nodes, MgrNodeEvent(n) PROVE UNCHANGED <<mpc, mread, mresult, mold, mnew>>
  BY <1>1 DEF MgrNodeEvent
<1>2. CASE Manager
  BY <1>1, <1>2 DEF Manager, MgrPass, MgrSyncYC, MgrPatch, MgrPatchStatus, MgrCrash
<1> QED
  BY <1>2, AgentFrame, EnvironmentFrame DEF Next, vars

LEMMA ObservedStep ==
  ASSUME TypeOK, ApprovedInv, ObservedInv, [Next]_vars
  PROVE  ObservedInv'
<1> SUFFICES ASSUME yc'.exists
             PROVE  /\ yc'.obsGen <= mcache'.gen
                    /\ InPass' => yc'.obsGen <= mread'.gen /\ mread'.gen <= mcache'.gen
                    /\ mold'.obsGen # mnew'.obsGen =>
                         yc'.obsGen <= mnew'.obsGen /\ mnew'.obsGen <= mcache'.gen
  BY DEF ObservedInv
<1>0. /\ yc \in Clusters /\ mcache \in Clusters /\ mread \in Clusters
      /\ yc' \in Clusters /\ mcache' \in Clusters /\ mread' \in Clusters
      /\ mold.obsGen \in Nat /\ mnew.obsGen \in Nat
  BY TypePreserved DEF TypeOK, FieldSets
<1>1. yc.exists
  BY StepOnward DEF Onward
<1>2. mcache.gen <= mcache'.gen
  BY <1>0, <1>1, FieldTypes, Reads DEF ApprovedInv, Behind
<1>3. /\ yc.obsGen <= mcache.gen
      /\ InPass => yc.obsGen <= mread.gen /\ mread.gen <= mcache.gen
      /\ mold.obsGen # mnew.obsGen => yc.obsGen <= mnew.obsGen /\ mnew.obsGen <= mcache.gen
  BY <1>1 DEF ObservedInv
<1>4. CASE MgrPatchStatus
  <2>1. mpc' = "idle" /\ mold' = NoFields /\ mnew' = NoFields
    BY <1>4 DEF MgrPatchStatus
  <2>2. yc'.obsGen <= mcache.gen
    BY <1>0, <1>3, FieldTypes, ObsGenStep DEF Merged
  <2> QED
    BY <1>0, <1>2, <2>1, <2>2, FieldTypes DEF InPass
<1>5. CASE ~MgrPatchStatus
  <2>1. yc'.obsGen = yc.obsGen
    BY <1>5, ObsGenStep
  <2>2. yc'.obsGen <= mcache'.gen
    BY <1>0, <1>2, <1>3, <2>1, FieldTypes
  <2>3. CASE MgrStart
    BY <1>0, <1>3, <2>1, <2>2, <2>3, FieldTypes DEF MgrStart
  <2>4. CASE MgrStatus
    <3>1. mpc' \notin {"apply", "delete", "status"}
      BY <2>4 DEF MgrStatus
    <3>2. mnew'.obsGen \in {mold'.obsGen, mread.gen}
      <4>1. Approve(mread) \in Clusters
        BY <1>0, ApproveType
      <4>2. Approve(mread).obsGen = mread.obsGen /\ Approve(mread).gen = mread.gen
        BY <1>0 DEF Approve, Clusters
      <4>3. \A listed \in BOOLEAN : Summed(Approve(mread), listed).obsGen \in {mread.obsGen, mread.gen}
        BY <4>1, <4>2 DEF Summed, Clusters
      <4> QED
        BY <2>4, <4>3, StatusSums DEF Fields
    <3>3. InPass
      BY <2>4 DEF MgrStatus, InPass
    <3> QED
      BY <1>0, <1>2, <1>3, <2>1, <2>2, <3>1, <3>2, <3>3, FieldTypes DEF InPass
  <2>5. CASE MgrApply \/ MgrDelete
    BY <1>0, <1>2, <1>3, <2>1, <2>2, <2>5, FieldTypes DEF MgrApply, MgrDelete, InPass
  <2>6. CASE mpc' = "patchStatus" /\ UNCHANGED <<mread, mold, mnew>>
    BY <1>0, <1>2, <1>3, <2>1, <2>2, <2>6, FieldTypes DEF InPass
  <2>7. CASE mpc' = "idle" /\ mold' = NoFields /\ mnew' = NoFields
    BY <2>2, <2>7 DEF InPass
  <2>8. CASE UNCHANGED <<mpc, mread, mold, mnew>>
    BY <1>0, <1>2, <1>3, <2>1, <2>2, <2>8, FieldTypes DEF InPass
  <2> QED
    BY <2>3, <2>4, <2>5, <2>6, <2>7, <2>8, PassSteps
<1> QED
  BY <1>4, <1>5

LEMMA InitObserved == Init => ObservedInv
<1> SUFFICES ASSUME Init PROVE ObservedInv
  OBVIOUS
<1>1. yc.obsGen = 0
  BY DEF Init, NewCluster
<1> QED
  BY <1>1, NoClusterFields DEF Init, ObservedInv, InPass

\* observedGeneration only grows and never passes the generation, although caches lag and passes
\* write what they computed from an older object.
THEOREM ObservedMonotonic == Spec => ObservedGenerationMonotonic
<1>1. TypeOK /\ ApprovedInv /\ ObservedInv /\ [Next]_vars => ApprovedInv' /\ ObservedInv'
  BY ApprovedStep, ObservedStep
<1>2. ASSUME TypeOK, ApprovedInv, ObservedInv, [Next]_vars, yc.exists, yc'.exists
      PROVE  yc.obsGen <= yc'.obsGen /\ yc'.obsGen <= yc'.gen
  <2>1. /\ yc \in Clusters /\ yc' \in Clusters /\ mcache' \in Clusters
        /\ mold.obsGen \in Nat /\ mnew.obsGen \in Nat
    BY <1>2, TypePreserved DEF TypeOK, FieldSets
  <2>2. yc.obsGen <= yc'.obsGen
    BY <1>2, <2>1, FieldTypes, ObsGenStep DEF ObservedInv, Merged
  <2>3. yc'.obsGen <= mcache'.gen /\ mcache'.gen <= yc'.gen
    BY <1>2, ObservedStep, ApprovedStep DEF ObservedInv, ApprovedInv, Behind
  <2> QED
    BY <2>1, <2>2, <2>3, FieldTypes
<1>3. TypeOK /\ ApprovedInv /\ ObservedInv /\ [Next]_vars =>
        [yc.exists /\ yc'.exists => yc.obsGen <= yc'.obsGen /\ yc'.obsGen <= yc'.gen]_vars
  BY <1>2
<1> QED
  BY InitApproved, InitObserved, TypeCorrect, <1>1, <1>3, PTL DEF Spec, ObservedGenerationMonotonic

----------------------------------------------------------------------------
(* The object goes only after yurt tunnel *)

\* An object that is held by its finalizer only because nobody has deleted it.
Deleted(c) == c.finalizer => c.deleting

\* Workloads of yurt tunnel that nobody skipped over.
Left == tunnelUp /\ ~skipped

\* A deleted object whose deletion was reconciled has no yurt tunnel.
Cleaned(c) == c.deleting /\ c.obsGen = c.gen => ~Left

\* TunnelGone for a pass under way: no apply follows a snapshot that knows of the deletion, and
\* whoever is about to release the object, or to observe its deletion, finds yurt tunnel gone.
TunnelInv ==
  /\ \A c \in {yc, mcache, mread} : Cleaned(c) /\ (c.deleting => c.finalizer)
  /\ ~yc.exists => ~yc.finalizer /\ mpc # "apply" /\ Deleted(mcache) /\ ~Left
  /\ yc.exists => mcache.obsGen <= mcache.gen
  /\ yc.exists /\ InPass => /\ mcache.obsGen <= mread.gen
                            /\ mcache.deleting /\ ~mread.deleting => mread.gen < mcache.gen
  /\ InPass /\ mread.deleting => Deleted(mcache)
  /\ mpc = "apply" => ~mread.deleting
  /\ mpc = "delete" => mread.deleting
  /\ mpc = "status" /\ mread.deleting /\ mresult # "error" => ~Left
  /\ mpc \notin {"patch", "patchStatus"} => mold = mnew
  /\ mold.finalizer /\ ~mnew.finalizer => ~Left /\ Deleted(mcache)
  /\ yc.exists /\ yc.deleting /\ mold.obsGen # mnew.obsGen /\ mnew.obsGen = yc.gen => ~Left

\* What applies yurt tunnel's objects: a pass, or the part of it that a crash lets through.
Starts == MgrApply \/ (MgrCrash /\ mpc = "apply")

LEMMA CleanUpStartsNothing ==
  ASSUME Left', MgrDelete \/ (MgrCrash /\ mpc # "apply")
  PROVE  Left
<1>1. CASE Runs!PartlyCleaned \/ UNCHANGED <<tunnelUp, skipped>>
  <2>1. skipped' = skipped
    BY <1>1 DEF Runs!PartlyCleaned
  <2>2. tunnelUp' = tunnelUp \/ tunnelUp' = FALSE
    BY <1>1 DEF Runs!PartlyCleaned
  <2> QED
    BY <2>1, <2>2 DEF Left
<1>2. CASE Runs!Cleaned \/ Runs!CleanedButMissed
  BY <1>2 DEF Left, Runs!Cleaned, Runs!CleanedButMissed
<1>3. CASE Runs!Unnamed \/ Runs!CleanFailed
  BY <1>1, <1>3 DEF Runs!Unnamed, Runs!CleanFailed
<1> QED
  BY <1>1, <1>2, <1>3 DEF MgrDelete, MgrCrash

LEMMA TunnelStarts ==
  ASSUME [Next]_vars, Left'
  PROVE  Left \/ Starts
<1>1. ASSUME NEW n \in Nodes, MgrNodeEvent(n) PROVE UNCHANGED <<tunnelUp, skipped>>
  BY <1>1 DEF MgrNodeEvent, historyVars
<1>2. CASE Manager
  BY <1>1, <1>2, CleanUpStartsNothing DEF Manager, MgrPass, MgrSyncYC, MgrStart, MgrStatus,
     MgrPatch, MgrPatchStatus, Starts, storeVars, historyVars, Left
<1> QED
  BY <1>2, AgentFrame, EnvironmentFrame DEF Next, vars, storeVars, historyVars, Left

LEMMA ObjectGoes ==
  ASSUME TypeOK, [Next]_vars, ~yc'.exists
  PROVE  \/ yc' = yc
         \/ yc' = NoCluster /\ MgrPatch /\ mold.finalizer /\ ~mnew.finalizer
         \/ yc' = NoCluster /\ UserDeletes /\ yc.exists /\ ~yc.finalizer
<1>0. yc \in Clusters
  BY DEF TypeOK
<1>1. CASE MgrPatch
  BY <1>1, MergedMetaFields DEF MgrPatch
<1>2. CASE MgrPatchStatus
  BY <1>2, MergedStatusFields DEF MgrPatchStatus
<1>3. ASSUME NEW n \in Nodes, EdgectlCond(n) PROVE yc' = yc
  BY <1>3, ConditionPatchedFields DEF EdgectlCond
<1>4. ASSUME NEW s \in UpdateSpecs, UserUpdates(s) PROVE FALSE
  BY <1>0, <1>4 DEF UserUpdates, Clusters
<1>5. CASE UserDeletes
  BY <1>0, <1>5 DEF UserDeletes, Clusters
<1>6. CASE Manager
  <2>1. ASSUME NEW n \in Nodes, MgrNodeEvent(n) PROVE UNCHANGED yc
    BY <2>1 DEF MgrNodeEvent
  <2> QED
    BY <1>1, <1>2, <1>6, <2>1 DEF Manager, MgrPass, MgrSyncYC, MgrStart, MgrApply,
       MgrDelete, MgrStatus, MgrCrash, storeVars
<1> QED
  BY <1>3, <1>4, <1>5, <1>6, AgentFrame, EnvironmentFrame DEF Next, vars, storeVars

\* Only an object with the finalizer is marked as deleted.
LEMMA DeletionStep ==
  ASSUME TypeOK, [Next]_vars, yc'.exists, yc'.deleting
  PROVE  yc.deleting \/ yc'.finalizer
<1>0. yc \in Clusters
  BY DEF TypeOK
<1>1. CASE MgrPatch
  BY <1>1, MergedMetaFields, NoClusterFields DEF MgrPatch
<1>2. CASE MgrPatchStatus
  BY <1>2, MergedStatusFields DEF MgrPatchStatus
<1>3. ASSUME NEW n \in Nodes, EdgectlCond(n) PROVE yc.deleting
  BY <1>3, ConditionPatchedFields DEF EdgectlCond
<1>4. ASSUME NEW s \in UpdateSpecs, UserUpdates(s) PROVE yc.deleting
  BY <1>0, <1>4 DEF UserUpdates, Clusters
<1>5. CASE UserDeletes
  BY <1>0, <1>5, NoClusterFields DEF UserDeletes, Clusters
<1>6. CASE Manager
  <2>1. ASSUME NEW n \in Nodes, MgrNodeEvent(n) PROVE UNCHANGED yc
    BY <2>1 DEF MgrNodeEvent
  <2> QED
    BY <1>1, <1>2, <1>6, <2>1 DEF Manager, MgrPass, MgrSyncYC, MgrStart, MgrApply,
       MgrDelete, MgrStatus, MgrCrash, storeVars
<1> QED
  BY <1>3, <1>4, <1>5, <1>6, AgentFrame, EnvironmentFrame DEF Next, vars, storeVars

\* A pass that applies has not seen the deletion, and nothing has observed it either.
LEMMA ApplyBeforeDeletion ==
  ASSUME TypeOK, ApprovedInv, ObservedInv, TunnelInv, mpc = "apply"
  PROVE  /\ yc.exists /\ ~mread.deleting /\ mold = mnew
         /\ \A c \in {yc, mcache, mread} : ~(c.deleting /\ c.obsGen = c.gen)
<1>0. yc \in Clusters /\ mcache \in Clusters /\ mread \in Clusters
  BY DEF TypeOK
<1>1. yc.exists /\ ~mread.deleting /\ mold = mnew /\ InPass
  BY DEF TunnelInv, InPass
<1>2. ~(yc.deleting /\ yc.obsGen = yc.gen)
  BY <1>0, <1>1, FieldTypes DEF ApprovedInv, Behind, ObservedInv
<1>3. ~(mcache.deleting /\ mcache.obsGen = mcache.gen)
  BY <1>0, <1>1, FieldTypes DEF TunnelInv
<1> QED
  BY <1>1, <1>2, <1>3

LEMMA CleanedStep ==
  ASSUME TypeOK, ApprovedInv, ObservedInv, TunnelInv, [Next]_vars
  PROVE  (\A c \in {yc, mcache, mread} : Cleaned(c) /\ (c.deleting => c.finalizer))'
<1>0. /\ yc \in Clusters /\ mcache \in Clusters /\ mread \in Clusters /\ yc' \in Clusters
      /\ mold.obsGen \in Nat /\ mnew.obsGen \in Nat
  BY TypePreserved DEF TypeOK, FieldSets
<1>1. \A c \in {yc, mcache, mread} : Cleaned(c) /\ (c.deleting => c.finalizer)
  BY DEF TunnelInv
<1>2. yc'.deleting => yc'.finalizer
  <2>1. CASE yc'.exists
    BY <1>0, <1>1, <2>1, DeletionStep, StepOnward DEF Onward
  <2>2. CASE ~yc'.exists
    BY <1>1, <2>2, ObjectGoes, NoClusterFields
  <2> QED
    BY <2>1, <2>2
<1>3. ASSUME Left', yc'.deleting, yc'.obsGen = yc'.gen PROVE FALSE
  <2>1. CASE Starts
    <3>1. yc' = yc /\ mpc = "apply"
      BY <2>1 DEF Starts, MgrApply, MgrCrash
    <3> QED
      BY <1>3, <3>1, ApplyBeforeDeletion
  <2>2. CASE Left /\ yc'.exists
    <3>1. yc.exists /\ yc.gen <= yc'.gen /\ (yc'.gen = yc.gen => yc'.deleting = yc.deleting)
      BY <2>2, StepOnward DEF Onward
    <3>2. yc.obsGen <= yc.gen
      BY <1>0, <3>1, FieldTypes DEF ObservedInv, ApprovedInv, Behind
    <3>3. CASE yc'.obsGen = yc.obsGen
      <4>1. yc'.gen = yc.gen /\ yc.obsGen = yc.gen
        BY <1>0, <1>3, <3>1, <3>2, <3>3, FieldTypes
      <4>2. yc.deleting
        BY <1>3, <3>1, <4>1
      <4> QED
        BY <1>1, <2>2, <4>1, <4>2 DEF Cleaned
    <3>4. CASE MgrPatchStatus /\ yc'.obsGen # yc.obsGen
      <4>1. mold.obsGen # mnew.obsGen /\ yc'.obsGen = mnew.obsGen
        BY <2>2, <3>4, ObsGenStep DEF Merged
      <4>2. mnew.obsGen <= yc.gen
        BY <1>0, <3>1, <4>1, FieldTypes DEF ObservedInv, ApprovedInv, Behind
      <4>3. yc'.gen = yc.gen /\ yc'.deleting = yc.deleting
        BY <2>2, <3>4, MergedStatusFields DEF MgrPatchStatus
      <4> QED
        BY <1>3, <2>2, <3>1, <4>1, <4>3 DEF TunnelInv
    <3> QED
      BY <2>2, <3>3, <3>4, ObsGenStep
  <2>3. CASE ~yc'.exists
    BY <1>1, <1>3, <2>1, <2>3, ObjectGoes, NoClusterFields, TunnelStarts DEF Cleaned
  <2> QED
    BY <1>3, <2>1, <2>2, <2>3, TunnelStarts
<1>4. ASSUME NEW c \in {yc, mcache, mread}, Left', c.deleting, c.obsGen = c.gen PROVE FALSE
  <2>1. CASE Starts
    BY <1>4, <2>1, ApplyBeforeDeletion DEF Starts, MgrApply
  <2> QED
    BY <1>1, <1>4, <2>1, TunnelStarts DEF Cleaned
<1>5. Cleaned(yc)'
  BY <1>3 DEF Cleaned
<1>6. Cleaned(mcache)' /\ (mcache.deleting => mcache.finalizer)'
  BY <1>1, <1>4, Reads DEF Cleaned
<1>7. Cleaned(mread)' /\ (mread.deleting => mread.finalizer)'
  BY <1>1, <1>4, Reads, NoClusterFields DEF Cleaned
<1> QED
  BY <1>2, <1>5, <1>6, <1>7

LEMMA GoneStep ==
  ASSUME TypeOK, ApprovedInv, ObservedInv, TunnelInv, [Next]_vars, ~yc'.exists
  PROVE  ~yc'.finalizer /\ mpc' # "apply" /\ Deleted(mcache)' /\ ~Left'
<1>0. /\ yc \in Clusters /\ mcache \in Clusters
  BY DEF TypeOK
<1>1. CASE yc' = yc
  <2>1. ~yc.exists /\ ~yc.finalizer /\ mpc # "apply" /\ Deleted(mcache) /\ ~Left
    BY <1>1 DEF TunnelInv
  <2>2. Deleted(mcache)'
    BY <1>1, <2>1, Reads DEF Deleted
  <2>3. ~Left'
    BY <2>1, TunnelStarts DEF Starts, MgrApply
  <2>4. mpc' # "apply"
    BY <2>1, PassSteps DEF MgrStart, MgrStatus, MgrApply, MgrDelete, Deleted
  <2> QED
    BY <1>1, <2>1, <2>2, <2>3, <2>4
<1>2. CASE yc' = NoCluster /\ MgrPatch /\ mold.finalizer /\ ~mnew.finalizer
  BY <1>2, NoClusterFields DEF TunnelInv, MgrPatch, historyVars, Deleted, Left
<1>3. CASE yc' = NoCluster /\ UserDeletes /\ yc.exists /\ ~yc.finalizer
  <2>1. ~Left /\ mpc # "apply" /\ ~mcache.finalizer
    BY <1>3 DEF ApprovedInv, TouchedOnlyWhenApproved, Behind, Left
  <2> QED
    BY <1>3, <2>1, NoClusterFields DEF UserDeletes, mgrVars, Deleted, Left
<1> QED
  BY <1>1, <1>2, <1>3, ObjectGoes

\* The snapshot of the pass and the cache, as long as the object is there.
LEMMA SnapshotStep ==
  ASSUME TypeOK, ApprovedInv, ObservedInv, TunnelInv, [Next]_vars, yc'.exists
  PROVE  /\ mcache'.obsGen <= mcache'.gen
         /\ InPass' => /\ mcache'.obsGen <= mread'.gen
                       /\ mcache'.deleting /\ ~mread'.deleting => mread'.gen < mcache'.gen
<1>0. /\ yc \in Clusters /\ mcache \in Clusters /\ mread \in Clusters
  BY DEF TypeOK
<1>1. yc.exists
  BY StepOnward DEF Onward
<1>2. yc.obsGen <= yc.gen /\ mcache.obsGen <= mcache.gen
  BY <1>0, <1>1, FieldTypes DEF ObservedInv, ApprovedInv, Behind, TunnelInv
<1>3. mcache'.obsGen <= mcache'.gen
  BY <1>2, Reads
<1>4. ASSUME InPass, mread' = mread
      PROVE  /\ mcache'.obsGen <= mread.gen
             /\ mcache'.deleting /\ ~mread.deleting => mread.gen < mcache'.gen
  <2>1. CASE mcache' = mcache
    BY <1>1, <1>4, <2>1 DEF TunnelInv
  <2>2. CASE mcache' = yc
    BY <1>0, <1>1, <1>4, <2>2, FieldTypes DEF ObservedInv, ApprovedInv, Behind
  <2> QED
    BY <2>1, <2>2, Reads
<1>5. ASSUME InPass'
      PROVE  /\ mcache'.obsGen <= mread'.gen
             /\ mcache'.deleting /\ ~mread'.deleting => mread'.gen < mcache'.gen
  <2>1. CASE MgrStart
    BY <1>2, <2>1 DEF MgrStart
  <2>2. CASE InPass /\ mread' = mread
    BY <1>4, <2>2
  <2> QED
    BY <1>5, <2>1, <2>2, PassSteps DEF MgrStatus, MgrApply, MgrDelete, InPass
<1> QED
  BY <1>3, <1>5

LEMMA PassTunnelStep ==
  ASSUME TypeOK, ApprovedInv, ObservedInv, TunnelInv, [Next]_vars
  PROVE  /\ InPass' /\ mread'.deleting => Deleted(mcache)'
         /\ mpc' = "apply" => ~mread'.deleting
         /\ mpc' = "delete" => mread'.deleting
         /\ mpc' = "status" /\ mread'.deleting /\ mresult' # "error" => ~Left'
         /\ mpc' \notin {"patch", "patchStatus"} => mold' = mnew'
<1>0. /\ yc \in Clusters /\ mcache \in Clusters /\ mread \in Clusters
  BY DEF TypeOK
<1>1. yc.deleting \/ ~yc.exists => Deleted(yc)
  BY DEF TunnelInv, Deleted
<1>2. ASSUME InPass, mread.deleting PROVE Deleted(mcache)'
  <2>1. Deleted(mcache) /\ Deleted(yc)
    BY <1>1, <1>2 DEF TunnelInv, ApprovedInv, Behind
  <2> QED
    BY <2>1, Reads DEF Deleted
<1>3. mcache.deleting => mcache.finalizer
  BY DEF TunnelInv
<1>4. CASE MgrStart
  <2>1. mread' = mcache /\ mcache' = mcache /\ mold' = mold /\ mnew' = mnew /\ mpc = "idle"
    BY <1>4 DEF MgrStart
  <2>2. /\ mpc' = "apply" => mcache.finalizer /\ ~mcache.deleting
        /\ mpc' = "delete" => mcache.deleting
        /\ mpc' = "status" => ~mcache.finalizer
    BY <1>4 DEF MgrStart
  <2> QED
    BY <1>3, <2>1, <2>2 DEF TunnelInv, Deleted
<1>5. CASE MgrStatus
  BY <1>5 DEF MgrStatus, InPass
<1>6. CASE MgrApply
  BY <1>2, <1>6 DEF MgrApply, TunnelInv, InPass
<1>7. CASE MgrDelete
  <2>1. mresult' # "error" => ~Left'
    BY <1>7 DEF MgrDelete, Left, Runs!Cleaned, Runs!CleanedButMissed, Runs!Unnamed,
       Runs!CleanFailed
  <2> QED
    BY <1>2, <1>7, <2>1 DEF MgrDelete, TunnelInv, InPass
<1>8. CASE mpc' = "patchStatus"
  BY <1>8 DEF InPass
<1>9. CASE mpc' = "idle" /\ mold' = NoFields /\ mnew' = NoFields
  BY <1>9 DEF InPass
<1>10. CASE UNCHANGED <<mpc, mread, mresult, mold, mnew>> /\ ~MgrApply
  <2>1. Left' => Left
    BY <1>10, TunnelStarts DEF Starts, MgrCrash
  <2> QED
    BY <1>2, <1>10, <2>1 DEF TunnelInv, InPass
<1> QED
  BY <1>4, <1>5, <1>6, <1>7, <1>8, <1>9, <1>10, PassSteps

\* What the patches under way may do.
LEMMA PatchTunnelStep ==
  ASSUME TypeOK, ApprovedInv, ObservedInv, TunnelInv, [Next]_vars
  PROVE  /\ mold'.finalizer /\ ~mnew'.finalizer => ~Left' /\ Deleted(mcache)'
         /\ yc'.exists /\ yc'.deleting /\ mold'.obsGen # mnew'.obsGen /\ mnew'.obsGen = yc'.gen
              => ~Left'
<1>0. /\ yc \in Clusters /\ mcache \in Clusters /\ mread \in Clusters /\ yc' \in Clusters
      /\ mold.obsGen \in Nat /\ mnew.obsGen \in Nat
  BY TypePreserved DEF TypeOK, FieldSets
<1>1. CASE MgrStatus
  <2>1. PICK listed \in BOOLEAN :
          /\ InPass /\ mpc = "status" /\ UNCHANGED <<yc, mcache, tunnelUp, skipped>>
          /\ mold' = Fields(mread) /\ mnew' = Fields(Summed(Approve(mread), listed))
    BY <1>1 DEF MgrStatus, InPass, storeVars, historyVars
  <2>2. mread.deleting => mread.finalizer /\ Cleaned(mread)
    BY DEF TunnelInv
  <2>3. mread.deleting /\ mresult # "error" => ~Left
    BY <2>1 DEF TunnelInv
  <2>4. ASSUME mold'.finalizer, ~mnew'.finalizer PROVE ~Left' /\ Deleted(mcache)'
    <3>1. mread.finalizer /\ ~Summed(mread, listed).finalizer
      BY <2>1, <2>4 DEF Fields, Approve
    <3>2. mread.deleting /\ (mresult # "error" \/ mread.obsGen = mread.gen)
      BY <1>0, <3>1 DEF Summed, Clusters
    <3> QED
      BY <2>1, <2>2, <2>3, <3>2 DEF Cleaned, TunnelInv, Deleted, Left
  <2>5. ASSUME yc'.exists, yc'.deleting, mold'.obsGen # mnew'.obsGen, mnew'.obsGen = yc'.gen
        PROVE  ~Left'
    <3>1. Approve(mread).obsGen = mread.obsGen /\ Approve(mread).gen = mread.gen
      BY <1>0 DEF Approve, Clusters
    <3>2. Approve(mread) \in Clusters
      BY <1>0, ApproveType
    <3>3. mresult # "error" /\ mread.gen = yc.gen
      BY <2>1, <2>5, <3>1, <3>2 DEF Fields, Summed, Clusters
    <3>4. mread.deleting
      BY <2>1, <2>5, <3>3 DEF ApprovedInv, Behind
    <3> QED
      BY <2>1, <2>3, <3>3, <3>4 DEF Left
  <2> QED
    BY <2>4, <2>5
<1>2. CASE UNCHANGED <<mold, mnew>> /\ ~Starts
  <2>1. ASSUME mold.finalizer, ~mnew.finalizer PROVE ~Left' /\ Deleted(mcache)'
    <3>1. ~Left /\ Deleted(mcache)
      BY <2>1 DEF TunnelInv
    <3>2. Deleted(yc)
      BY <2>1 DEF ApprovedInv, TunnelInv, Deleted
    <3> QED
      BY <1>2, <3>1, <3>2, Reads, TunnelStarts DEF Deleted
  <2>2. ASSUME yc'.exists, yc'.deleting, mold.obsGen # mnew.obsGen, mnew.obsGen = yc'.gen
        PROVE  ~Left'
    <3>1. yc.exists /\ yc.gen <= yc'.gen /\ (yc'.gen = yc.gen => yc'.deleting = yc.deleting)
      BY <2>2, StepOnward DEF Onward
    <3>2. mnew.obsGen <= yc.gen
      BY <1>0, <2>2, <3>1, FieldTypes DEF ObservedInv, ApprovedInv, Behind
    <3>3. yc'.gen = yc.gen
      BY <1>0, <2>2, <3>1, <3>2, FieldTypes
    <3>4. ~Left
      BY <2>2, <3>1, <3>3 DEF TunnelInv
    <3> QED
      BY <1>2, <3>4, TunnelStarts
  <2> QED
    BY <1>2, <2>1, <2>2
<1>3. CASE MgrApply
  BY <1>3, ApplyBeforeDeletion DEF MgrApply
<1>4. CASE mpc' = "idle" /\ mold' = NoFields /\ mnew' = NoFields
  BY <1>4
<1> QED
  BY <1>1, <1>2, <1>3, <1>4, PassSteps DEF MgrStart, MgrDelete, MgrApply, MgrPatch, Starts,
     MgrCrash

LEMMA TunnelStep ==
  ASSUME TypeOK, ApprovedInv, ObservedInv, TunnelInv, [Next]_vars
  PROVE  TunnelInv'
  BY CleanedStep, GoneStep, SnapshotStep, PassTunnelStep, PatchTunnelStep DEF TunnelInv

LEMMA InitTunnel == Init => TunnelInv
<1> SUFFICES ASSUME Init PROVE TunnelInv
  OBVIOUS
<1>1. yc.exists /\ ~yc.deleting
  BY DEF Init, NewCluster
<1> QED
  BY <1>1, NoClusterFields DEF Init, TunnelInv, Cleaned, Deleted, InPass

\* No workload of yurt tunnel survives the object, whatever fails, crashes or is edited on the
\* way: the finalizer goes after a pass has deleted them, and no pass brings them back.
THEOREM TunnelGoesFirst == Spec => []TunnelGone
<1>1. TypeOK /\ ApprovedInv /\ ObservedInv /\ TunnelInv /\ [Next]_vars
        => ApprovedInv' /\ ObservedInv' /\ TunnelInv'
  BY ApprovedStep, ObservedStep, TunnelStep
<1>2. TunnelInv => TunnelGone
  BY DEF TunnelInv, TunnelGone, Left
<1> QED
  BY InitApproved, InitObserved, InitTunnel, TypeCorrect, <1>1, <1>2, PTL DEF Spec

----------------------------------------------------------------------------
(* The writers of the status *)

\* A patch of one part of the status leaves the other parts to their writers.
THEOREM WritersSeparate == Spec => StatusWritersSeparate
<1> DEFINE Kept == /\ \A n \in Nodes : yc'.conds[n] # yc.conds[n] => apc[n] = "cond"
                   /\ yc'.phase # yc.phase \/ yc'.obsGen # yc.obsGen => mpc = "patchStatus"
<1>1. ASSUME TypeOK, [Next]_vars, yc.exists, yc'.exists PROVE Kept
  <2>0. yc \in Clusters
    BY <1>1 DEF TypeOK
  <2>1. CASE yc' = yc
    BY <2>1
  <2>2. CASE MgrPatch
    BY <1>1, <2>2, MergedMetaFields, NoClusterFields DEF MgrPatch
  <2>3. CASE MgrPatchStatus
    BY <1>1, <2>3, MergedStatusFields DEF MgrPatchStatus
  <2>4. ASSUME NEW n \in Nodes, EdgectlCond(n) PROVE Kept
    <3>1. apc[n] = "cond" /\ yc' \in {yc, ConditionPatched(n)}
      BY <2>4 DEF EdgectlCond
    <3> QED
      BY <1>1, <3>1, ConditionPatchedFields
  <2>5. ASSUME NEW s \in UpdateSpecs, UserUpdates(s) PROVE Kept
    BY <2>0, <2>5 DEF UserUpdates, Clusters
  <2>6. CASE UserDeletes
    BY <1>1, <2>0, <2>6, NoClusterFields DEF UserDeletes, Clusters
  <2>7. CASE Manager
    <3>1. ASSUME NEW n \in Nodes, MgrNodeEvent(n) PROVE yc' = yc
      BY <3>1 DEF MgrNodeEvent
    <3> QED
      BY <2>1, <2>2, <2>3, <2>7, <3>1 DEF Manager, MgrPass, MgrSyncYC, MgrStart, MgrApply,
         MgrDelete, MgrStatus, MgrCrash, storeVars
  <2> QED
    BY <1>1, <2>1, <2>4, <2>5, <2>6, <2>7, AgentFrame, EnvironmentFrame DEF Next, vars, storeVars
<1>2. TypeOK /\ [Next]_vars => [yc.exists /\ yc'.exists => Kept]_vars
  BY <1>1
<1> QED
  BY TypeCorrect, <1>2, PTL DEF Spec, StatusWritersSeparate
=============================================================================
