--------------------------- MODULE DeletionProofs ---------------------------
(***************************************************************************)
(* What the release of a deleted object in YurtOperator says of the hosts, *)
(* for any set of nodes and labels, any specs that select the same nodes,  *)
(* and any bounds but at most one change of a label.                       *)
(***************************************************************************)
EXTENDS TruthProofs

SameSets(s, t) == s.cloudNodes = t.cloudNodes /\ s.edgeNodes = t.edgeNodes

Selecting(spec) == \E s \in InitialSpecs : SameSets(spec, s)

\* A node with this label is to be neither a cloud nor an edge node.
Unselected(n, label) == \A s \in InitialSpecs : GetNodeType(n, label, s) = "NormalNode"

\* Whatever version of the object one looks at, it selects the same nodes.
SelectionInv ==
  /\ yc.exists => Selecting(yc.spec)
  /\ SameSets(mold.spec, mnew.spec)
  /\ \A n \in Nodes : acache[n].exists => Selecting(acache[n].spec)

\* Conditions never vanish, and a copy from after the deletion has those of the nodes that held it.
CondsInv ==
  yc.exists => \A n \in Nodes :
    /\ mcache.conds[n] # NoCondition \/ mread.conds[n] # NoCondition
         \/ acache[n].cond # NoCondition \/ (yc.deleting /\ n \in held)
       => yc.conds[n] # NoCondition
    /\ mcache.deleting /\ n \in held => mcache.conds[n] # NoCondition
    /\ mread.deleting /\ n \in held => mread.conds[n] # NoCondition

\* A node that was selected once, and no longer is for its agent, has used up the one change.
LabelInv ==
  \A n \in Nodes :
    /\ relabels = 0 => anode[n].label = nodes[n].label
    /\ /\ yc.exists /\ (apc[n] # "idle" \/ yc.conds[n] # NoCondition)
       /\ relabels <= 1 /\ Unselected(n, anode[n].label)
       => relabels = 1 /\ anode[n].label = nodes[n].label

\* A reversal that was not decided by the deletion was decided by the label.
ByLabelInv ==
  \A n \in Nodes :
    /\ yc.exists /\ relabels <= 1 /\ ~acache[n].deleting
    /\ apc[n] \in {"read", "run", "cond"} /\ aop[n] = "NormalNode"
    => Unselected(n, anode[n].label)

\* The copy is of the deleted object and records its node as reverted.
Shows(c, n) == c.deleting /\ Recorded(c.conds[n], "NormalNode", c.gen)

\* A pass may release, or is about to release, the object on account of node n.
Released(n) ==
  \/ Shows(yc, n) \/ Shows(mcache, n) \/ Shows(mread, n)
  \/ mold.finalizer /\ ~mnew.finalizer /\ n \in held

\* The host is reverted, and no run that is under way or to come converts it.
StaysReverted(n) ==
  /\ HostReverted(n)
  /\ apc[n] \in {"read", "run", "cond"} => aop[n] = "NormalNode"
  /\ ~acache[n].deleting => Unselected(n, anode[n].label)

RevertedInv ==
  /\ yc.exists /\ relabels <= 1 => \A n \in Nodes : Released(n) => StaysReverted(n)
  /\ ~yc.exists /\ relabels <= 1 =>
       \A n \in held : HostReverted(n) /\ (apc[n] = "run" => aop[n] = "NormalNode")

----------------------------------------------------------------------------
(* What one step does to the labels, the runs and the hosts *)

LEMMA SelectedAlike ==
  ASSUME SelectionKept, NEW spec, Selecting(spec), NEW n, NEW label
  PROVE  GetNodeType(n, label, spec) = "NormalNode" <=> Unselected(n, label)
<1>1. PICK s \in InitialSpecs : SameSets(spec, s)
  BY DEF Selecting
<1>2. \A t \in InitialSpecs : SameSets(spec, t)
  BY <1>1 DEF SelectionKept, SameSets
<1>3. \A t \in InitialSpecs : GetNodeType(n, label, t) = GetNodeType(n, label, spec)
  BY <1>2 DEF GetNodeType, SameSets
<1> QED
  BY <1>1, <1>3 DEF Unselected

\* Labels change by users only, and an agent's copy of its Node becomes what the Node is.
LEMMA LabelSteps ==
  ASSUME TypeOK, [Next]_vars, NEW n \in Nodes
  PROVE  /\ \/ nodes'[n].label = nodes[n].label /\ relabels' = relabels
            \/ relabels' = relabels + 1 /\ UNCHANGED <<yc, agentVars>>
         /\ \/ anode'[n] = anode[n]
            \/ anode'[n] = nodes[n] /\ UNCHANGED <<yc, nodes, relabels>>
<1> USE DEF storeVars, hostVars, mgrVars, agentVars, boundVars, historyVars
<1>0. nodes \in [Nodes -> NodeObjects] /\ anode \in [Nodes -> NodeObjects]
  BY DEF TypeOK
<1>1. CASE Manager
  <2>1. ASSUME NEW m \in Nodes, MgrNodeEvent(m)
        PROVE  nodes'[n].label = nodes[n].label /\ relabels' = relabels
    BY <1>0, <2>1 DEF MgrNodeEvent, NodeObjects
  <2>2. ASSUME Manager, \A m \in Nodes : ~MgrNodeEvent(m) PROVE UNCHANGED <<nodes, relabels>>
    BY <2>2 DEF Manager, MgrPass, MgrSyncYC, MgrStart, MgrApply, MgrDelete, MgrStatus, MgrPatch,
       MgrPatchStatus, MgrCrash
  <2>3. nodes'[n].label = nodes[n].label /\ relabels' = relabels
    BY <1>1, <2>1, <2>2
  <2> QED
    BY <1>1, <2>3, ManagerFrame
<1>2. ASSUME NEW m \in Nodes, Agent(m)
      PROVE  /\ nodes'[n].label = nodes[n].label /\ relabels' = relabels
             /\ \/ anode'[n] = anode[n]
                \/ anode'[n] = nodes[n] /\ UNCHANGED <<yc, nodes, relabels>>
  <2>1. CASE AgentNodePatch(m)
    <3>1. NodePatched(m).label = nodes[m].label
      BY <1>0 DEF NodePatched, NodeObjects
    <3>2. nodes' \in {nodes, [nodes EXCEPT ![m] = NodePatched(m)]} /\ UNCHANGED <<anode, relabels>>
      BY <2>1 DEF AgentNodePatch
    <3> QED
      BY <1>0, <3>1, <3>2
  <2>2. CASE AgentCrash(m) \/ AgentNodeEvent(m)
    BY <1>0, <2>2 DEF AgentCrash, AgentNodeEvent
  <2>3. CASE EdgectlRead(m) \/ EdgectlRun(m) \/ EdgectlCond(m)
    BY <2>3 DEF EdgectlRead, EdgectlRun, EdgectlCond
  <2>4. CASE AgentFail(m) \/ AgentDone(m) \/ AgentStart(m) \/ AgentTears(m) \/ AgentSyncYC(m)
    BY <2>4 DEF AgentFail, AgentDone, AgentStart, AgentTears, AgentSyncYC
  <2> QED
    BY <1>2, <2>1, <2>2, <2>3, <2>4 DEF Agent, AgentPass
<1>3. CASE Environment
  <2>1. ASSUME NEW m \in Nodes, NodeFlips(m)
        PROVE  nodes'[n].label = nodes[n].label /\ relabels' = relabels
    BY <1>0, <2>1 DEF NodeFlips, NodeObjects
  <2>2. ASSUME NEW m \in Nodes, NEW l \in Labels, UserLabels(m, l)
        PROVE  relabels' = relabels + 1 /\ UNCHANGED <<yc, agentVars>>
    BY <2>2 DEF UserLabels
  <2>3. ASSUME NEW s \in UpdateSpecs, UserUpdates(s)
        PROVE  nodes'[n].label = nodes[n].label /\ relabels' = relabels
    BY <2>3 DEF UserUpdates
  <2>4. UserDeletes => nodes'[n].label = nodes[n].label /\ relabels' = relabels
    BY DEF UserDeletes
  <2> QED
    BY <1>3, <2>1, <2>2, <2>3, <2>4, EnvironmentFrame DEF Environment
<1> QED
  BY <1>1, <1>2, <1>3 DEF Next, vars

\* Where the pass of an agent goes in one step.
LEMMA AgentSteps ==
  ASSUME TypeOK, [Next]_vars, NEW n \in Nodes
  PROVE  \/ AgentStart(n)
         \/ apc[n] # "idle" /\ aop'[n] = aop[n] /\ (apc'[n] = "cond" => apc[n] \in {"run", "cond"})
            /\ (apc'[n] = "run" => apc[n] \in {"read", "run"})
            /\ (apc'[n] = "read" => apc[n] = "read")
         \/ apc'[n] = "idle"
<1>0. /\ apc \in [Nodes -> {"idle", "read", "run", "cond", "patch"}] /\ aop \in [Nodes -> NodeTypes]
  BY DEF TypeOK
<1>1. CASE apc'[n] = apc[n] /\ aop'[n] = aop[n]
  BY <1>0, <1>1
<1>2. CASE Manager \/ Environment \/ UNCHANGED vars
  BY <1>1, <1>2, ManagerFrame, EnvironmentFrame DEF vars, agentVars
<1>3. ASSUME NEW m \in Nodes, Agent(m), m # n
      PROVE  apc'[n] = apc[n] /\ aop'[n] = aop[n]
  <2>1. CASE AgentCrash(m) \/ AgentNodePatch(m)
    BY <1>0, <1>3, <2>1 DEF AgentCrash, AgentNodePatch, AgentReturns
  <2>2. CASE EdgectlRead(m) \/ EdgectlRun(m) \/ EdgectlCond(m) \/ AgentStart(m)
    BY <1>0, <1>3, <2>2 DEF EdgectlRead, EdgectlRun, EdgectlCond, AgentStart
  <2>3. CASE AgentFail(m) \/ AgentDone(m) \/ AgentTears(m) \/ AgentSyncYC(m) \/ AgentNodeEvent(m)
    BY <2>3 DEF AgentFail, AgentDone, AgentTears, AgentSyncYC, AgentNodeEvent, agentVars
  <2> QED
    BY <1>3, <2>1, <2>2, <2>3 DEF Agent, AgentPass
<1>4. CASE Agent(n)
  <2>1. CASE AgentCrash(n) \/ AgentNodePatch(n)
    BY <1>0, <2>1 DEF AgentCrash, AgentNodePatch, AgentReturns
  <2>2. CASE EdgectlRead(n) \/ EdgectlRun(n) \/ EdgectlCond(n)
    BY <1>0, <2>2 DEF EdgectlRead, EdgectlRun, EdgectlCond
  <2>3. CASE AgentFail(n) \/ AgentDone(n) \/ AgentTears(n) \/ AgentSyncYC(n) \/ AgentNodeEvent(n)
    BY <1>1, <2>3 DEF AgentFail, AgentDone, AgentTears, AgentSyncYC, AgentNodeEvent, agentVars
  <2> QED
    BY <1>4, <2>1, <2>2, <2>3 DEF Agent, AgentPass
<1> QED
  BY <1>1, <1>2, <1>3, <1>4 DEF Next

\* Hosts change in runs.
LEMMA HostInRun ==
  ASSUME TypeOK, [Next]_vars, NEW n \in Nodes, host'[n] # host[n]
  PROVE  apc[n] = "run" /\ host'[n] \in {Done(host[n], aop[n])} \cup Interrupted(host[n], aop[n])
<1>0. host \in [Nodes -> Hosts]
  BY DEF TypeOK
<1>1. ~Manager /\ ~Environment /\ ~UNCHANGED vars
  BY ManagerFrame, EnvironmentFrame DEF vars, hostVars
<1>2. ASSUME NEW m \in Nodes, EdgectlRun(m) PROVE m = n /\ apc[n] = "run"
  BY <1>0, <1>2 DEF EdgectlRun, Leaves
<1>3. ASSUME NEW m \in Nodes, AgentCrash(m) PROVE m = n /\ apc[n] = "run"
  BY <1>0, <1>3 DEF AgentCrash
<1>4. ASSUME NEW m \in Nodes, Agent(m) PROVE EdgectlRun(m) \/ AgentCrash(m)
  BY <1>4 DEF Agent, AgentPass, AgentSyncYC, AgentNodeEvent, AgentFail, AgentTears, AgentDone,
     AgentStart, EdgectlRead, EdgectlCond, AgentNodePatch, hostVars
<1> QED
  BY <1>1, <1>2, <1>3, <1>4, HostSteps DEF Next

\* A reversal of a reverted host leaves it reverted, however it ends.
LEMMA RevertedTwice ==
  ASSUME NEW h \in Hosts, h.hub = "none",
         NEW g \in {Done(h, "NormalNode")} \cup Interrupted(h, "NormalNode")
  PROVE  /\ g.hub = "none"
         /\ BackupKept(h) /\ ~ThroughHub(h) => ~ThroughHub(g)
<1>1. g \in {h, KubeletReverted(h), Reverted(h), [h EXCEPT !.flags = "torn"]}
  BY DEF Done, Interrupted, RevertCuts
<1>2. /\ KubeletReverted(h).hub = "none" /\ Reverted(h).hub = "none"
      /\ KubeletReverted(h).flags \in {h.flags, h.flagsBackup}
      /\ Reverted(h).flags = KubeletReverted(h).flags
  BY DEF KubeletReverted, Reverted, Hosts
<1> QED
  BY <1>1, <1>2 DEF BackupKept, ThroughHub, Hosts

----------------------------------------------------------------------------
(* The selection, the conditions and the labels *)

LEMMA SameFields ==
  ASSUME NEW c \in Clusters, NEW listed \in BOOLEAN
  PROVE  SameSets(c.spec, Summed(Approve(c), listed).spec)
<1>1. c.spec \in Specs /\ Approve(c) \in Clusters
  BY ApproveType DEF Clusters
<1>2. Summed(Approve(c), listed).spec = Approve(c).spec
  BY <1>1 DEF Summed, Clusters
<1>3. SameSets(c.spec, Complete(c.spec))
  BY <1>1 DEF Complete, SameSets, Specs
<1> QED
  BY <1>2, <1>3 DEF Approve, SameSets, Clusters

LEMMA SelectionStep ==
  ASSUME TypeOK, ApprovedInv, SelectionKept, SelectionInv, [Next]_vars
  PROVE  SelectionInv'
<1>0. /\ yc \in Clusters /\ yc.spec \in Specs /\ mread \in Clusters
      /\ mold \in FieldSets /\ mnew \in FieldSets /\ acache \in [Nodes -> Views]
  BY DEF TypeOK, Clusters
<1>1. ASSUME yc'.exists PROVE Selecting(yc'.spec)
  <2>0. yc.exists /\ Selecting(yc.spec)
    BY <1>1, StepOnward DEF Onward, SelectionInv
  <2>1. CASE yc'.spec = yc.spec
    BY <2>0, <2>1
  <2>2. CASE MgrPatch /\ yc' = MergedMeta
    <3>1. yc'.spec = MergedSpec
      BY <1>0, <1>1, <2>2, NoClusterFields DEF MergedMeta, Clusters
    <3>2. SameSets(MergedSpec, yc.spec)
      BY <1>0 DEF MergedSpec, Merged, SameSets, SelectionInv, Specs
    <3> QED
      BY <2>0, <3>1, <3>2 DEF Selecting, SameSets
  <2>3. ASSUME NEW s \in UpdateSpecs, UserUpdates(s) PROVE Selecting(yc'.spec)
    <3>1. yc'.spec = s
      BY <1>0, <2>3 DEF UserUpdates, Clusters
    <3> QED
      BY <2>0, <3>1 DEF Selecting, SameSets, SelectionKept
  <2>4. UserDeletes => yc'.spec = yc.spec
    BY <1>0, <1>1, NoClusterFields DEF UserDeletes, Clusters
  <2>5. ASSUME NEW n \in Nodes, EdgectlCond(n) PROVE yc'.spec = yc.spec
    BY <1>0, <2>5 DEF EdgectlCond, ConditionPatched, Clusters
  <2>6. MgrPatchStatus => yc'.spec = yc.spec
    BY <1>0 DEF MgrPatchStatus, MergedStatus, Clusters
  <2>7. CASE Manager
    <3>1. ASSUME NEW n \in Nodes, MgrNodeEvent(n) PROVE UNCHANGED yc
      BY <3>1 DEF MgrNodeEvent
    <3>2. CASE MgrPatch
      BY <2>1, <2>2, <3>2 DEF MgrPatch
    <3> QED
      BY <2>1, <2>6, <2>7, <3>1, <3>2 DEF Manager, MgrPass, MgrSyncYC, MgrStart, MgrApply,
         MgrDelete, MgrStatus, MgrCrash, storeVars
  <2> QED
    BY <2>1, <2>3, <2>4, <2>5, <2>7, AgentFrame, EnvironmentFrame DEF Next, vars, storeVars
<1>2. SameSets(mold.spec, mnew.spec)'
  <2>1. CASE MgrStatus
    <3>1. PICK listed \in BOOLEAN :
            mold' = Fields(mread) /\ mnew' = Fields(Summed(Approve(mread), listed))
      BY <2>1, StatusSums
    <3> QED
      BY <1>0, <3>1, SameFields DEF Fields, SameSets
  <2>2. CASE UNCHANGED <<mold, mnew>>
    BY <2>2 DEF SelectionInv, SameSets
  <2>3. CASE mold' = NoFields /\ mnew' = NoFields
    BY <2>3 DEF SameSets
  <2> QED
    BY <2>1, <2>2, <2>3, PassSteps DEF MgrStart, MgrApply, MgrDelete
<1>3. ASSUME NEW n \in Nodes, acache'[n].exists PROVE Selecting(acache'[n].spec)
  <2>1. CASE acache'[n] = acache[n]
    BY <1>3, <2>1 DEF SelectionInv
  <2>2. CASE acache'[n] = View(yc, n)
    BY <1>3, <2>2 DEF SelectionInv, View
  <2> QED
    BY <1>0, <2>1, <2>2, Reads
<1> QED
  BY <1>1, <1>2, <1>3 DEF SelectionInv, Selecting

LEMMA NoConditions == \A n \in Nodes : NoCluster.conds[n] = NoCondition /\ ~NoCluster.deleting
  BY DEF NoCluster, NewCluster

\* held changes only with the deletion.
LEMMA HeldSteps ==
  ASSUME [Next]_vars
  PROVE  held' = held \/ (UserDeletes /\ ~yc.deleting /\ held' = {n \in Nodes : yc.conds[n] # NoCondition})
<1>1. ASSUME Environment, ~UserDeletes PROVE held' = held
  BY <1>1 DEF Environment, NodeFlips, UserLabels, UserUpdates, historyVars
<1> QED
  BY <1>1, ManagerFrame, AgentFrame DEF Next, vars, historyVars, UserDeletes

LEMMA CondsStep ==
  ASSUME TypeOK, ApprovedInv, CondsInv, [Next]_vars
  PROVE  CondsInv'
<1> SUFFICES ASSUME yc'.exists, NEW n \in Nodes
             PROVE  /\ \/ mcache'.conds[n] # NoCondition \/ mread'.conds[n] # NoCondition
                       \/ acache'[n].cond # NoCondition \/ (yc'.deleting /\ n \in held')
                       => yc'.conds[n] # NoCondition
                    /\ mcache'.deleting /\ n \in held' => mcache'.conds[n] # NoCondition
                    /\ mread'.deleting /\ n \in held' => mread'.conds[n] # NoCondition
  BY DEF CondsInv
<1>0. /\ yc \in Clusters /\ acache \in [Nodes -> Views] /\ yc.exists
      /\ yc.deleting \in BOOLEAN /\ mcache.deleting \in BOOLEAN /\ mread.deleting \in BOOLEAN
      /\ mcache.deleting \/ mread.deleting => yc.deleting
  BY StepOnward DEF TypeOK, Onward, Clusters, ApprovedInv, Behind
<1>1. yc.conds[n] # NoCondition => yc'.conds[n] # NoCondition
  <2>1. EdgectlCond(n) => RunCondition(n).status # "None"
    BY DEF RunCondition
  <2>2. yc' = ConditionPatched(n) => yc'.conds[n] = RunCondition(n)
    BY <1>0 DEF ConditionPatched, Clusters
  <2> QED
    BY <2>1, <2>2, CondSteps DEF NoCondition
<1>2. yc'.deleting /\ n \in held' => yc'.conds[n] # NoCondition
  <2>1. CASE held' = held /\ (yc'.deleting => yc.deleting)
    BY <1>0, <1>1, <2>1 DEF CondsInv
  <2>2. CASE UserDeletes /\ held' = {m \in Nodes : yc.conds[m] # NoCondition}
    BY <1>1, <2>2
  <2>3. ~UserDeletes => (yc'.deleting => yc.deleting)
    <3>1. CASE yc' = yc
      BY <3>1
    <3>2. MgrPatch => (yc'.deleting => yc.deleting)
      BY <3>1, MergedMetaFields, NoClusterFields DEF MgrPatch
    <3>3. MgrPatchStatus => (yc'.deleting => yc.deleting)
      BY <3>1, MergedStatusFields DEF MgrPatchStatus
    <3>4. ASSUME NEW m \in Nodes, EdgectlCond(m) PROVE yc'.deleting => yc.deleting
      BY <3>1, <3>4, ConditionPatchedFields DEF EdgectlCond
    <3>5. ASSUME NEW s \in UpdateSpecs, UserUpdates(s) PROVE yc'.deleting => yc.deleting
      BY <1>0, <3>5 DEF UserUpdates, Clusters
    <3>6. ASSUME NEW m \in Nodes, MgrNodeEvent(m) PROVE UNCHANGED yc
      BY <3>6 DEF MgrNodeEvent
    <3>7. Manager => (yc'.deleting => yc.deleting)
      BY <3>1, <3>2, <3>3, <3>6 DEF Manager, MgrPass, MgrSyncYC, MgrStart, MgrApply,
         MgrDelete, MgrStatus, MgrCrash, storeVars
    <3> QED
      BY <3>1, <3>4, <3>5, <3>7, AgentFrame, EnvironmentFrame DEF Next, vars, storeVars
  <2> QED
    BY <2>1, <2>2, <2>3, HeldSteps DEF UserDeletes
<1>3. /\ mcache'.conds[n] # NoCondition => yc'.conds[n] # NoCondition
      /\ mcache'.deleting /\ n \in held' => mcache'.conds[n] # NoCondition
  <2>1. CASE mcache' = mcache
    BY <1>0, <1>1, <2>1, HeldSteps DEF CondsInv
  <2>2. CASE mcache' = yc /\ yc' = yc
    BY <1>2, <2>2
  <2> QED
    BY <2>1, <2>2, Reads
<1>4. /\ mread'.conds[n] # NoCondition => yc'.conds[n] # NoCondition
      /\ mread'.deleting /\ n \in held' => mread'.conds[n] # NoCondition
  <2>1. CASE mread' = mread
    BY <1>0, <1>1, <2>1, HeldSteps DEF CondsInv
  <2>2. CASE mread' = mcache /\ yc' = yc
    BY <1>0, <1>1, <2>2, HeldSteps DEF CondsInv
  <2>3. CASE mread' = NoCluster
    BY <2>3, NoConditions
  <2> QED
    BY <2>1, <2>2, <2>3, Reads
<1>5. acache'[n].cond # NoCondition => yc'.conds[n] # NoCondition
  <2>1. CASE acache'[n] = acache[n]
    BY <1>0, <1>1, <2>1 DEF CondsInv
  <2>2. CASE acache'[n] = View(yc, n)
    BY <1>1, <2>2 DEF View
  <2> QED
    BY <1>0, <2>1, <2>2, Reads
<1> QED
  BY <1>2, <1>3, <1>4, <1>5

\* A pass that an agent starts reverts a node that is not selected, and only one with a condition.
LEMMA StartSteps ==
  ASSUME TypeOK, SelectionKept, SelectionInv, CondsInv, NEW n \in Nodes, AgentStart(n), yc.exists
  PROVE  /\ UNCHANGED <<yc, acache, anode, nodes, relabels>> /\ apc[n] = "idle"
         /\ acache[n].exists /\ aop'[n] = TypeWanted(n)
         /\ ~acache[n].deleting => (aop'[n] = "NormalNode" <=> Unselected(n, anode[n].label))
         /\ Unselected(n, anode[n].label) => yc.conds[n] # NoCondition
<1>0. aop \in [Nodes -> NodeTypes]
  BY DEF TypeOK
<1>1. /\ UNCHANGED <<yc, acache, anode, nodes, relabels>> /\ apc[n] = "idle"
      /\ acache[n].exists /\ aop'[n] = TypeWanted(n) /\ ~AgentCompleted(n)
  BY <1>0 DEF AgentStart, AgentApproved, storeVars, boundVars
<1>2. GetNodeType(n, anode[n].label, acache[n].spec) = "NormalNode" <=> Unselected(n, anode[n].label)
  BY <1>1, SelectedAlike DEF SelectionInv
<1>3. Unselected(n, anode[n].label) => acache[n].cond # NoCondition
  BY <1>1, <1>2 DEF AgentCompleted, IsNodeConvertOrRevertCompleted, AlreadyReverted
<1> QED
  BY <1>1, <1>2, <1>3 DEF TypeWanted, CondsInv

LEMMA LabelStep ==
  ASSUME TypeOK, ApprovedInv, SelectionKept, SelectionInv, CondsInv, LabelInv, [Next]_vars
  PROVE  LabelInv'
<1> SUFFICES ASSUME NEW n \in Nodes
             PROVE  /\ relabels' = 0 => anode'[n].label = nodes'[n].label
                    /\ /\ yc'.exists /\ (apc'[n] # "idle" \/ yc'.conds[n] # NoCondition)
                       /\ relabels' <= 1 /\ Unselected(n, anode'[n].label)
                       => relabels' = 1 /\ anode'[n].label = nodes'[n].label
  BY DEF LabelInv, Unselected
<1>0. relabels \in Nat /\ relabels' \in Nat
  BY TypePreserved DEF TypeOK
<1>1. relabels' = 0 => anode'[n].label = nodes'[n].label
  BY <1>0, LabelSteps DEF LabelInv, agentVars
<1>2. ASSUME yc'.exists, apc'[n] # "idle" \/ yc'.conds[n] # NoCondition,
             relabels' <= 1, Unselected(n, anode'[n].label)
      PROVE  relabels' = 1 /\ anode'[n].label = nodes'[n].label
  <2>1. yc.exists
    BY <1>2, StepOnward DEF Onward
  <2>2. CASE relabels' = relabels + 1 /\ UNCHANGED <<yc, agentVars>>
    BY <1>0, <1>2, <2>1, <2>2 DEF LabelInv, agentVars
  <2>3. CASE nodes'[n].label = nodes[n].label /\ relabels' = relabels
    <3>1. ASSUME Unselected(n, anode[n].label)
          PROVE  apc[n] # "idle" \/ yc.conds[n] # NoCondition
      <4>1. CASE yc'.conds[n] # NoCondition
        <5>1. EdgectlCond(n) => apc[n] # "idle"
          BY DEF EdgectlCond
        <5> QED
          BY <1>2, <4>1, <5>1, CondSteps
      <4>2. CASE apc'[n] # "idle"
        BY <2>1, <3>1, <4>2, AgentSteps, StartSteps
      <4> QED
        BY <1>2, <4>1, <4>2
    <3>2. CASE anode'[n] = anode[n]
      BY <1>2, <2>1, <2>3, <3>1, <3>2 DEF LabelInv
    <3>3. CASE anode'[n] = nodes[n] /\ UNCHANGED <<yc, nodes, relabels>>
      <4>1. CASE Unselected(n, anode[n].label)
        BY <1>2, <2>1, <3>1, <3>3, <4>1 DEF LabelInv
      <4>2. CASE ~Unselected(n, anode[n].label)
        <5>1. anode[n].label # nodes[n].label
          BY <1>2, <3>3, <4>2
        <5> QED
          BY <1>0, <1>2, <3>3, <5>1 DEF LabelInv
      <4> QED
        BY <4>1, <4>2
    <3> QED
      BY <3>2, <3>3, LabelSteps
  <2> QED
    BY <2>2, <2>3, LabelSteps
<1> QED
  BY <1>1, <1>2

\* The agent of a node that was selected once, and for which it no longer is, sees that so for good.
LEMMA UnselectedStays ==
  ASSUME TypeOK, LabelInv, [Next]_vars, NEW n \in Nodes, yc.exists, relabels' <= 1,
         apc[n] # "idle" \/ yc.conds[n] # NoCondition, Unselected(n, anode[n].label)
  PROVE  Unselected(n, anode'[n].label)
<1>0. relabels \in Nat
  BY DEF TypeOK
<1>1. CASE anode'[n] = anode[n]
  BY <1>1
<1>2. CASE anode'[n] = nodes[n] /\ UNCHANGED <<yc, nodes, relabels>>
  BY <1>0, <1>2 DEF LabelInv
<1> QED
  BY <1>1, <1>2, LabelSteps

\* No label change is taken back, and an agent that has seen the deletion does not forget it.
LEMMA Forward ==
  ASSUME TypeOK, ApprovedInv, [Next]_vars
  PROVE  /\ relabels <= relabels'
         /\ yc'.exists => \A n \in Nodes : acache[n].deleting => acache'[n].deleting
<1>1. relabels <= relabels'
  <2>1. CASE Nodes = {}
    <3>1. ASSUME Environment PROVE relabels' = relabels
      BY <2>1, <3>1 DEF Environment, UserUpdates, UserDeletes, boundVars
    <3>2. ASSUME Manager PROVE relabels' = relabels
      BY <2>1, <3>2 DEF Manager, MgrPass, MgrSyncYC, MgrStart, MgrApply, MgrDelete, MgrStatus,
         MgrPatch, MgrPatchStatus, MgrCrash, boundVars
    <3> QED
      BY <2>1, <3>1, <3>2 DEF Next, vars, boundVars, TypeOK
  <2>2. ASSUME NEW n \in Nodes PROVE relabels <= relabels'
    BY LabelSteps DEF TypeOK
  <2> QED
    BY <2>1, <2>2
<1>2. ASSUME yc'.exists, NEW n \in Nodes, acache[n].deleting PROVE acache'[n].deleting
  <2>1. yc.exists /\ yc.deleting
    BY <1>2, StepOnward DEF Onward, ApprovedInv, Behind
  <2>2. acache \in [Nodes -> Views]
    BY DEF TypeOK
  <2> QED
    BY <1>2, <2>1, <2>2, Reads DEF View
<1> QED
  BY <1>1, <1>2

LEMMA ByLabelStep ==
  ASSUME TypeOK, ApprovedInv, SelectionKept, SelectionInv, CondsInv, LabelInv, ByLabelInv,
         [Next]_vars
  PROVE  ByLabelInv'
<1> SUFFICES ASSUME NEW n \in Nodes, yc'.exists, relabels' <= 1, ~acache'[n].deleting,
                    apc'[n] \in {"read", "run", "cond"}, aop'[n] = "NormalNode"
             PROVE  Unselected(n, anode'[n].label)
  BY DEF ByLabelInv, Unselected
<1>1. yc.exists /\ ~acache[n].deleting /\ relabels <= 1
  <2>1. relabels \in Nat /\ relabels' \in Nat
    BY TypePreserved DEF TypeOK
  <2> QED
    BY <2>1, StepOnward, Forward DEF Onward
<1>2. CASE AgentStart(n)
  BY <1>1, <1>2, StartSteps
<1>3. CASE apc[n] \in {"read", "run", "cond"} /\ aop[n] = "NormalNode"
  BY <1>1, <1>3, UnselectedStays DEF ByLabelInv
<1> QED
  BY <1>2, <1>3, AgentSteps

----------------------------------------------------------------------------
(* The release *)

LEMMA ReleasedKnown ==
  ASSUME TypeOK, ApprovedInv, CondsInv, yc.exists, NEW n \in Nodes, Released(n)
  PROVE  yc.deleting /\ yc.conds[n] # NoCondition
<1>1. ASSUME NEW c, Shows(c, n) PROVE c.deleting /\ c.conds[n] # NoCondition
  BY <1>1 DEF Shows, Recorded, NoCondition
<1> QED
  BY <1>1 DEF Released, ApprovedInv, Behind, CondsInv

LEMMA StaysStep ==
  ASSUME TypeOK, ApprovedInv, TruthInv, SelectionKept, SelectionInv, CondsInv, LabelInv, [Next]_vars,
         yc.exists, yc'.exists, relabels' <= 1, NEW n \in Nodes, Released(n), StaysReverted(n)
  PROVE  StaysReverted(n)'
<1>0. /\ yc.deleting /\ yc.conds[n] # NoCondition /\ host[n] \in Hosts
      /\ n \in FlagsEnv => BackupKept(host[n])
  BY ReleasedKnown DEF TypeOK, TruthInv
<1>1. HostReverted(n)'
  <2>1. CASE host'[n] = host[n]
    BY <2>1 DEF StaysReverted, HostReverted
  <2>2. CASE host'[n] # host[n]
    <3>1. host'[n] \in {Done(host[n], "NormalNode")} \cup Interrupted(host[n], "NormalNode")
      BY <2>2, HostInRun DEF StaysReverted
    <3> QED
      BY <1>0, <3>1, RevertedTwice DEF StaysReverted, HostReverted
  <2> QED
    BY <2>1, <2>2
<1>2. ~acache'[n].deleting => Unselected(n, anode'[n].label)
  BY <1>0, Forward, UnselectedStays DEF StaysReverted
<1>3. apc'[n] \in {"read", "run", "cond"} => aop'[n] = "NormalNode"
  <2>1. AgentStart(n) => aop'[n] = "NormalNode"
    BY StartSteps DEF StaysReverted, TypeWanted
  <2> QED
    BY <2>1, AgentSteps DEF StaysReverted
<1> QED
  BY <1>1, <1>2, <1>3 DEF StaysReverted, Unselected

\* What shows a node as reverted showed it before, or is the condition of a run that reverted it.
LEMMA ReleasedSteps ==
  ASSUME TypeOK, ApprovedInv, TruthInv, CondsInv, ByLabelInv, [Next]_vars,
         yc'.exists, relabels' <= 1, NEW n \in Nodes, Released(n)'
  PROVE  Released(n) \/ (StaysReverted(n)' /\ apc[n] = "cond" /\ aop[n] = "NormalNode")
<1>0. /\ yc \in Clusters /\ mread \in Clusters /\ yc.gen \in Nat /\ yc'.gen \in Nat
      /\ yc.conds[n].og \in Nat /\ yc.exists /\ yc.conds[n].og <= yc.gen
      /\ yc.gen <= yc'.gen /\ (yc'.gen = yc.gen => yc'.deleting = yc.deleting)
  BY TypePreserved, StepOnward, TypeCluster DEF TypeOK, Clusters, Conditions, TruthInv, Onward
<1>1. CASE Shows(yc', n)
  <2>1. CASE yc'.conds[n] = yc.conds[n]
    <3>1. yc.conds[n].og = yc'.gen
      BY <1>1, <2>1 DEF Shows, Recorded
    <3>2. yc'.gen = yc.gen
      BY <1>0, <3>1
    <3>3. yc'.deleting = yc.deleting
      BY <1>0, <3>2
    <3> QED
      BY <1>1, <2>1, <3>2, <3>3 DEF Shows, Released
  <2>2. CASE EdgectlCond(n) /\ yc' = ConditionPatched(n)
    <3>1. /\ yc'.conds[n] = RunCondition(n) /\ yc'.gen = yc.gen /\ yc'.deleting = yc.deleting
      BY <1>0, <2>2, ConditionPatchedFields DEF ConditionPatched, Clusters
    <3>2. /\ apc[n] = "cond" /\ apc'[n] = "patch" /\ RunKnows(n) /\ aop[n] \in NodeTypes
          /\ UNCHANGED <<host, acache, anode, relabels>>
      BY <2>2 DEF EdgectlCond, hostVars, boundVars, TypeOK, TruthInv
    <3>3. aop[n] = "NormalNode" /\ run[n].ok /\ run[n].gen = yc.gen
      BY <1>1, <3>1, <3>2 DEF Shows, Recorded, RunCondition, ReasonOf, NodeTypes
    <3>4. HostReverted(n)
      BY <1>0, <3>2, <3>3 DEF RunKnows, SwitchOf, Describes
    <3>5. ~acache[n].deleting => Unselected(n, anode[n].label)
      BY <1>0, <3>2, <3>3 DEF ByLabelInv
    <3>6. StaysReverted(n)'
      BY <3>2, <3>4, <3>5 DEF StaysReverted, HostReverted, Unselected
    <3> QED
      BY <3>2, <3>3, <3>6
  <2> QED
    BY <2>1, <2>2, CondSteps
<1>2. CASE Shows(mcache', n)
  BY <1>2, Reads DEF Released
<1>3. CASE Shows(mread', n)
  BY <1>3, Reads, NoConditions DEF Released, Shows
<1>4. CASE mold'.finalizer /\ ~mnew'.finalizer /\ n \in held'
  <2>1. CASE MgrStatus
    <3>1. PICK listed \in BOOLEAN :
            mold' = Fields(mread) /\ mnew' = Fields(Summed(Approve(mread), listed))
      BY <2>1, StatusSums
    <3>2. mread.finalizer /\ Approve(mread) = mread
      BY <1>4, <3>1 DEF Fields, Approve
    <3>3. mread.deleting /\ AllCompleted(mread)
      BY <1>0, <1>4, <3>1, <3>2 DEF Fields, Summed, Clusters
    <3>4. mread.conds[n] # NoCondition
      BY <1>0, <1>4, <2>1, <3>3 DEF MgrStatus, historyVars, CondsInv
    <3>5. Recorded(mread.conds[n], "NormalNode", mread.gen)
      BY <3>3, <3>4 DEF AllCompleted, IsNodeConvertOrRevertCompleted, AlreadyReverted
    <3> QED
      BY <3>3, <3>5 DEF Released, Shows
  <2>2. CASE UNCHANGED <<mold, mnew>>
    <3>1. ~UserDeletes
      BY <1>0, <1>4, <2>2 DEF ApprovedInv, UserDeletes
    <3> QED
      BY <1>4, <2>2, <3>1, HeldSteps DEF Released
  <2>3. CASE mold' = NoFields
    BY <1>4, <2>3, NoClusterFields DEF NoFields, Fields
  <2> QED
    BY <2>1, <2>2, <2>3, PassSteps DEF MgrStart, MgrApply, MgrDelete
<1> QED
  BY <1>1, <1>2, <1>3, <1>4 DEF Released, Shows, Recorded

\* The object goes by the patch of a pass that saw its nodes reverted, or at once when nobody had
\* approved it.
LEMMA GoneSteps ==
  ASSUME TypeOK, ApprovedInv, [Next]_vars, yc.exists, ~yc'.exists
  PROVE  \/ UserDeletes /\ ~yc.finalizer
         \/ /\ MgrPatch /\ yc.deleting /\ mold.finalizer /\ ~mnew.finalizer
            /\ UNCHANGED <<host, apc, aop, held, relabels>>
<1>0. yc \in Clusters
  BY DEF TypeOK
<1>1. yc' # yc
  OBVIOUS
<1>2. CASE MgrPatch
  <2>1. yc' = MergedMeta
    BY <1>1, <1>2 DEF MgrPatch
  <2>2. yc.deleting /\ mold.finalizer /\ ~mnew.finalizer
    BY <2>1, MergedMetaFields
  <2> QED
    BY <1>2, <2>2 DEF MgrPatch, hostVars, agentVars, historyVars
<1>3. ~MgrPatchStatus
  BY <1>1, MergedStatusFields DEF MgrPatchStatus
<1>4. ASSUME NEW n \in Nodes PROVE ~EdgectlCond(n)
  BY <1>1, ConditionPatchedFields DEF EdgectlCond
<1>5. ASSUME NEW s \in UpdateSpecs PROVE ~UserUpdates(s)
  BY <1>0 DEF UserUpdates, Clusters
<1>6. UserDeletes => ~yc.finalizer
  BY <1>0 DEF UserDeletes, Clusters
<1>7. ASSUME NEW n \in Nodes PROVE ~MgrNodeEvent(n)
  BY <1>1 DEF MgrNodeEvent
<1>8. Manager => MgrPatch
  BY <1>1, <1>3, <1>7 DEF Manager, MgrPass, MgrSyncYC, MgrStart, MgrApply,
     MgrDelete, MgrStatus, MgrCrash, storeVars
<1> QED
  BY <1>1, <1>2, <1>4, <1>5, <1>6, <1>8, AgentFrame, EnvironmentFrame DEF Next, vars, storeVars

LEMMA RevertedStep ==
  ASSUME TypeOK, ApprovedInv, TruthInv, SelectionKept, SelectionInv, CondsInv, LabelInv, ByLabelInv,
         RevertedInv, [Next]_vars
  PROVE  RevertedInv'
<1>0. relabels \in Nat /\ relabels' \in Nat /\ (relabels' <= 1 => relabels <= 1)
  BY TypePreserved, Forward DEF TypeOK
<1>1. ASSUME yc'.exists, relabels' <= 1, NEW n \in Nodes, Released(n)' PROVE StaysReverted(n)'
  <2>1. yc.exists
    BY <1>1, StepOnward DEF Onward
  <2>2. CASE Released(n)
    BY <1>0, <1>1, <2>1, <2>2, StaysStep DEF RevertedInv
  <2> QED
    BY <1>1, <2>2, ReleasedSteps
<1>2. ASSUME ~yc'.exists, relabels' <= 1, NEW n \in held'
      PROVE  HostReverted(n)' /\ (apc'[n] = "run" => aop'[n] = "NormalNode")
  <2>0. n \in Nodes /\ host[n] \in Hosts /\ (n \in FlagsEnv => BackupKept(host[n]))
    BY <1>2, TypePreserved DEF TypeOK, TruthInv
  <2>1. CASE UserDeletes /\ yc.exists /\ ~yc.finalizer
    <3>1. host'[n] = InitialHost(n) /\ apc'[n] = "idle"
      <4>1. host[n] = InitialHost(n)
        BY <2>0, <2>1 DEF ApprovedInv, TouchedOnlyWhenApproved
      <4>2. apc[n] = "idle"
        BY <2>0, <2>1 DEF ApprovedInv
      <4> QED
        BY <2>1, <4>1, <4>2 DEF UserDeletes, hostVars, agentVars
    <3> QED
      BY <3>1 DEF HostReverted, InitialHost, CleanHost, ThroughHub
  <2>2. CASE yc.exists /\ mold.finalizer /\ ~mnew.finalizer /\ UNCHANGED <<host, apc, aop, held, relabels>>
    <3>1. StaysReverted(n)
      BY <1>0, <1>2, <2>0, <2>2 DEF RevertedInv, Released
    <3> QED
      BY <2>2, <3>1 DEF StaysReverted, HostReverted
  <2>3. CASE ~yc.exists
    <3>1. n \in held
      BY <1>2, <2>3, HeldSteps DEF UserDeletes
    <3>2. HostReverted(n) /\ (apc[n] = "run" => aop[n] = "NormalNode")
      BY <1>0, <1>2, <2>3, <3>1 DEF RevertedInv
    <3>3. HostReverted(n)'
      <4>1. CASE host'[n] = host[n]
        BY <3>2, <4>1 DEF HostReverted
      <4>2. CASE host'[n] # host[n]
        <5>1. host'[n] \in {Done(host[n], "NormalNode")} \cup Interrupted(host[n], "NormalNode")
          BY <2>0, <3>2, <4>2, HostInRun
        <5> QED
          BY <2>0, <3>2, <5>1, RevertedTwice DEF HostReverted
      <4> QED
        BY <4>1, <4>2
    <3>4. apc'[n] = "run" => aop'[n] = "NormalNode"
      <4>1. EdgectlRun(n) => apc'[n] # "run"
        <5>1. apc \in [Nodes -> {"idle", "read", "run", "cond", "patch"}]
          BY DEF TypeOK
        <5> QED
          BY <2>0, <5>1 DEF EdgectlRun
      <4> QED
        BY <2>0, <2>3, <3>2, <4>1, RunSteps
    <3> QED
      BY <3>3, <3>4
  <2> QED
    BY <1>2, <2>1, <2>2, <2>3, GoneSteps
<1> QED
  BY <1>1, <1>2 DEF RevertedInv

----------------------------------------------------------------------------

DeletionInv == SelectionInv /\ CondsInv /\ LabelInv /\ ByLabelInv /\ RevertedInv

LEMMA InitDeletion == Init => DeletionInv
<1> SUFFICES ASSUME Init PROVE DeletionInv
  OBVIOUS
<1>1. PICK s \in InitialSpecs : yc = NewCluster(s)
  BY DEF Init
<1>2. yc.spec = s /\ ~yc.deleting /\ yc.exists /\ \A n \in Nodes : yc.conds[n] = NoCondition
  BY <1>1 DEF NewCluster
<1>3. SelectionInv
  BY <1>2, NoClusterFields DEF Init, SelectionInv, Selecting, SameSets, View
<1>4. CondsInv
  BY <1>2, NoConditions DEF Init, CondsInv, View
<1>5. LabelInv
  BY <1>2 DEF Init, LabelInv
<1>6. ByLabelInv
  BY DEF Init, ByLabelInv
<1>7. \A n \in Nodes : ~Released(n)
  BY <1>2, NoConditions, NoClusterFields DEF Init, Released, Shows, NoFields, Fields
<1>8. RevertedInv
  BY <1>2, <1>7 DEF RevertedInv
<1> QED
  BY <1>3, <1>4, <1>5, <1>6, <1>8 DEF DeletionInv

LEMMA DeletedStep ==
  ASSUME TypeOK, ApprovedInv, TruthInv, SelectionKept, DeletionInv, [Next]_vars
  PROVE  DeletionInv'
  BY SelectionStep, CondsStep, LabelStep, ByLabelStep, RevertedStep DEF DeletionInv

\* The object does not go before the nodes that hold it are reverted, for any set of nodes: what
\* shows a node as reverted was written after a reversal that read the deleted object, and no pass
\* of the agent that is under way or to come has a reason to convert the node again.
THEOREM DeletionHeld == Spec => []HeldUntilReverted
<1>1. CASE SelectionKept
  <2>1. TypeOK /\ ApprovedInv /\ TruthInv /\ DeletionInv /\ [Next]_vars => DeletionInv'
    BY <1>1, DeletedStep
  <2>2. TypeOK /\ ApprovedInv /\ TruthInv /\ [Next]_vars => TruthInv'
    BY TruthStep
  <2>3. TypeOK /\ ApprovedInv /\ [Next]_vars => ApprovedInv'
    BY ApprovedStep
  <2>4. DeletionInv => HeldUntilReverted
    BY DEF DeletionInv, RevertedInv, HeldUntilReverted
  <2> QED
    BY InitApproved, InitTruth, InitDeletion, TypeCorrect, <2>1, <2>2, <2>3, <2>4, PTL DEF Spec
<1>2. CASE ~SelectionKept
  <2>1. HeldUntilReverted
    BY <1>2 DEF HeldUntilReverted
  <2> QED
    BY <2>1, PTL
<1> QED
  BY <1>1, <1>2

=============================================================================
