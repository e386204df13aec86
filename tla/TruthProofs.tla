----------------------------- MODULE TruthProofs -----------------------------
(***************************************************************************)
(* What the conditions of YurtOperator say of the hosts, for any set of    *)
(* nodes and labels, any specs and any bounds.                             *)
(***************************************************************************)
EXTENDS YurtOperatorProofs

\* The backup of the flags is of what kubeadm left, or cut off, and until there is one the flags
\* are as kubeadm left them.
BackupKept(h) ==
  /\ h.flagsBackup # "yurthub"
  /\ h.flagsBackup = "none" => h.flags = "original"

\* The host is what a command for the type leaves when it succeeds.
Describes(type, n) ==
  IF type = "NormalNode" THEN HostReverted(n) ELSE host[n].hub = type /\ ThroughHub(host[n])

\* The switch that a command for the type obeys.
SwitchOf(type) == IF type = "NormalNode" THEN "on" ELSE HubSwitch(type, yc.spec)

\* A command that runs knows the spec of the generation it read, and one that succeeded has left
\* the host as its type asks for.
RunKnows(n) ==
  /\ yc.exists /\ apc[n] \in {"run", "cond"} =>
       /\ run[n].gen <= yc.gen
       /\ run[n].gen = yc.gen => run[n].hub = SwitchOf(aop[n])
  /\ apc[n] = "cond" /\ run[n].ok /\ run[n].hub = "on" => Describes(aop[n], n)

\* ConditionTruth, with what makes it last: no condition is of a generation to come, and the
\* runs that are under way know what they will write.
TruthInv ==
  /\ \A n \in Nodes :
       /\ n \in FlagsEnv => BackupKept(host[n])
       /\ yc.exists => yc.conds[n].og <= yc.gen
       /\ RunKnows(n)
  /\ ConditionTruth

----------------------------------------------------------------------------
(* The host *)

LEMMA TypeCluster ==
  ASSUME TypeOK
  PROVE  yc \in Clusters /\ yc.gen \in Nat /\ yc.spec \in Specs
  BY DEF TypeOK, Clusters

LEMMA DoneDescribes ==
  ASSUME NEW h \in Hosts, NEW type \in NodeTypes
  PROVE  IF type = "NormalNode"
           THEN Done(h, type).hub = "none" /\ (BackupKept(h) => ~ThroughHub(Done(h, type)))
           ELSE Done(h, type).hub = type /\ ThroughHub(Done(h, type))
<1>1. CASE type = "NormalNode"
  BY <1>1 DEF Done, Reverted, KubeletReverted, ThroughHub, BackupKept, Hosts
<1>2. CASE type # "NormalNode"
  BY <1>2 DEF Done, Converted, KubeletConverted, FlagsBackedUp, HubInstalled, ThroughHub, Hosts
<1> QED
  BY <1>1, <1>2

\* Whatever a run changes of the manifest, it leaves the flags and their backup alone.
LEMMA HubKeepsFlags ==
  ASSUME NEW h \in Hosts, NEW type
  PROVE  /\ HubInstalled(h, type).flags = h.flags
         /\ HubInstalled(h, type).flagsBackup = h.flagsBackup
         /\ \A g \in HubCuts(h, type) : g.flags = h.flags /\ g.flagsBackup = h.flagsBackup
<1>1. /\ HubInstalled(h, type).flags = h.flags
      /\ HubInstalled(h, type).flagsBackup = h.flagsBackup
      /\ DOMAIN HubInstalled(h, type) = DOMAIN h
  BY DEF HubInstalled, Hosts
<1>2. HubRolledBack(h, type).flags = h.flags /\ HubRolledBack(h, type).flagsBackup = h.flagsBackup
  BY DEF HubRolledBack, Hosts
<1>3. ASSUME NEW x
      PROVE  /\ [HubInstalled(h, type) EXCEPT !.hub = x].flags = h.flags
             /\ [HubInstalled(h, type) EXCEPT !.hub = x].flagsBackup = h.flagsBackup
             /\ [h EXCEPT !.hubBackup = x].flags = h.flags
             /\ [h EXCEPT !.hubBackup = x].flagsBackup = h.flagsBackup
  <2>1. DOMAIN h = {"hub", "hubBackup", "flags", "flagsBackup"}
    BY DEF Hosts
  <2>2. /\ [HubInstalled(h, type) EXCEPT !.hub = x].flags = HubInstalled(h, type).flags
        /\ [HubInstalled(h, type) EXCEPT !.hub = x].flagsBackup = HubInstalled(h, type).flagsBackup
    BY <1>1, <2>1
  <2>3. [h EXCEPT !.hubBackup = x].flags = h.flags
    BY <2>1
  <2>4. [h EXCEPT !.hubBackup = x].flagsBackup = h.flagsBackup
    BY <2>1
  <2> QED
    BY <1>1, <2>2, <2>3, <2>4
<1>4. ASSUME NEW g \in HubCuts(h, type)
      PROVE  \/ g \in {h, HubRolledBack(h, type)}
             \/ \E x : g \in {[HubInstalled(h, type) EXCEPT !.hub = x], [h EXCEPT !.hubBackup = x]}
  BY <1>4 DEF HubCuts
<1>5. ASSUME NEW g \in HubCuts(h, type)
      PROVE  g.flags = h.flags /\ g.flagsBackup = h.flagsBackup
  BY <1>2, <1>3, <1>4, <1>5
<1> QED
  BY <1>1, <1>5

\* No step on the flags takes a backup of a rewritten line.
LEMMA KubeletKeepsBackup ==
  ASSUME NEW h \in Hosts, BackupKept(h)
  PROVE  /\ \A g \in KubeletCuts(h) \cup RevertCuts(h) : BackupKept(g)
<1>1. BackupKept(FlagsBackedUp(h)) /\ FlagsBackedUp(h).flagsBackup # "none"
  BY DEF FlagsBackedUp, BackupKept, Hosts
<1>2. FlagsBackedUp(h) \in Hosts
  BY DEF FlagsBackedUp, Hosts
<1>3. ASSUME NEW g \in Hosts, BackupKept(g), g.flagsBackup # "none", NEW x
      PROVE  BackupKept([g EXCEPT !.flags = x])
  BY <1>3 DEF BackupKept, Hosts
<1>4. BackupKept(KubeletConverted(h)) /\ BackupKept(KubeletRolledBack(h))
  BY <1>1, <1>2, <1>3 DEF KubeletConverted, KubeletRolledBack
<1>5. BackupKept([h EXCEPT !.flagsBackup = "torn"])
  BY DEF BackupKept, Hosts
<1>6. BackupKept(KubeletReverted(h)) /\ KubeletReverted(h) \in Hosts
  BY <1>3 DEF KubeletReverted, Hosts, FlagFiles
<1>7. BackupKept(Reverted(h))
  BY <1>6 DEF Reverted, BackupKept, Hosts
<1> QED
  BY <1>1, <1>2, <1>3, <1>4, <1>5, <1>6, <1>7 DEF KubeletCuts, RevertCuts

LEMMA RunKeepsBackup ==
  ASSUME NEW h \in Hosts, NEW type \in NodeTypes, BackupKept(h)
  PROVE  BackupKept(Done(h, type)) /\ \A g \in Interrupted(h, type) : BackupKept(g)
<1>1. CASE type = "NormalNode"
  BY <1>1, KubeletKeepsBackup DEF Done, Interrupted, RevertCuts
<1>2. CASE type # "NormalNode"
  <2>1. HubInstalled(h, type) \in Hosts /\ BackupKept(HubInstalled(h, type))
    BY <1>2, HubStepTypes, HubKeepsFlags DEF BackupKept, NodeTypes, HubFiles
  <2>2. \A g \in KubeletCuts(HubInstalled(h, type)) : BackupKept(g)
    BY <2>1, KubeletKeepsBackup
  <2>3. \A g \in HubCuts(h, type) : BackupKept(g)
    BY HubKeepsFlags DEF BackupKept
  <2> QED
    BY <1>2, <2>2, <2>3 DEF Done, Converted, Interrupted, KubeletCuts
<1> QED
  BY <1>1, <1>2

----------------------------------------------------------------------------
(* What one step does to a node, its condition and its run *)

\* A host changes in a run only, and the change is unrecorded until the run writes its condition.
LEMMA HostSteps ==
  ASSUME TypeOK, [Next]_vars, NEW n \in Nodes
  PROVE  /\ \/ host'[n] = host[n]
            \/ /\ unrecorded'[n] /\ (EdgectlRun(n) \/ apc'[n] = "idle")
               /\ host'[n] \in {Done(host[n], aop[n])} \cup Interrupted(host[n], aop[n])
         /\ unrecorded'[n] \/ ~unrecorded[n] \/ EdgectlCond(n)
<1>0. host \in [Nodes -> Hosts] /\ unrecorded \in [Nodes -> BOOLEAN]
     /\ apc \in [Nodes -> {"idle", "read", "run", "cond", "patch"}]
  BY DEF TypeOK
<1>1. CASE Manager \/ Environment \/ UNCHANGED vars
  BY <1>1, ManagerFrame, EnvironmentFrame DEF vars, hostVars, historyVars
<1>2. ASSUME NEW m \in Nodes, EdgectlRun(m)
      PROVE  /\ host' = [host EXCEPT ![m] = host'[m]]
             /\ host'[m] \in {host[m], Done(host[m], aop[m])} \cup Interrupted(host[m], aop[m])
             /\ unrecorded' = [unrecorded EXCEPT ![m] = unrecorded[m] \/ host'[m] # host[m]]
  BY <1>0, <1>2 DEF EdgectlRun, Leaves
<1>3. ASSUME NEW m \in Nodes, AgentCrash(m)
      PROVE  /\ host' = [host EXCEPT ![m] = host'[m]]
             /\ host'[m] \in {host[m]} \cup Interrupted(host[m], aop[m])
             /\ unrecorded' = [unrecorded EXCEPT ![m] = unrecorded[m] \/ host'[m] # host[m]]
             /\ apc'[m] = "idle"
  BY <1>0, <1>3 DEF AgentCrash, AgentReturns
<1>4. ASSUME NEW m \in Nodes, EdgectlCond(m)
      PROVE  host' = host /\ unrecorded' \in {unrecorded, [unrecorded EXCEPT ![m] = FALSE]}
  BY <1>4 DEF EdgectlCond, hostVars
<1>5. ASSUME NEW m \in Nodes, Agent(m), ~EdgectlRun(m), ~AgentCrash(m), ~EdgectlCond(m)
      PROVE  UNCHANGED <<host, unrecorded>>
  BY <1>5 DEF Agent, AgentPass, AgentSyncYC, AgentNodeEvent, AgentFail, AgentTears, AgentDone,
     AgentStart, EdgectlRead, AgentNodePatch, hostVars, historyVars
<1>6. ASSUME NEW m \in Nodes, Agent(m)
      PROVE  /\ \/ host'[n] = host[n]
                \/ /\ unrecorded'[n] /\ (EdgectlRun(n) \/ apc'[n] = "idle")
                   /\ host'[n] \in {Done(host[n], aop[n])} \cup Interrupted(host[n], aop[n])
             /\ unrecorded'[n] \/ ~unrecorded[n] \/ EdgectlCond(n)
  <2>1. CASE EdgectlRun(m)
    BY <1>0, <1>2, <2>1
  <2>2. CASE AgentCrash(m)
    BY <1>0, <1>3, <2>2
  <2>3. CASE EdgectlCond(m)
    BY <1>0, <1>4, <2>3
  <2> QED
    BY <1>5, <1>6, <2>1, <2>2, <2>3
<1> QED
  BY <1>1, <1>6 DEF Next

\* A command that is at work has just read the object, has just run, or is as it was.
LEMMA RunSteps ==
  ASSUME TypeOK, [Next]_vars, NEW n \in Nodes, apc'[n] \in {"run", "cond"}
  PROVE  \/ /\ yc.exists /\ yc' = yc /\ apc'[n] = "run" /\ aop'[n] = aop[n]
            /\ run'[n].gen = yc.gen /\ run'[n].hub = SwitchOf(aop[n])
         \/ EdgectlRun(n)
         \/ /\ apc'[n] = apc[n] /\ aop'[n] = aop[n] /\ run'[n] = run[n] /\ host'[n] = host[n]
<1>0. /\ apc \in [Nodes -> {"idle", "read", "run", "cond", "patch"}] /\ aop \in [Nodes -> NodeTypes]
      /\ run \in [Nodes -> [gen : Nat, hub : Switches, ok : BOOLEAN]] /\ host \in [Nodes -> Hosts]
  BY DEF TypeOK
<1>1. CASE Manager \/ Environment \/ UNCHANGED vars
  BY <1>1, ManagerFrame, EnvironmentFrame DEF vars, hostVars, agentVars
<1>2. ASSUME NEW m \in Nodes, Agent(m), m # n
      PROVE  apc'[n] = apc[n] /\ aop'[n] = aop[n] /\ run'[n] = run[n] /\ host'[n] = host[n]
  <2>1. CASE EdgectlRun(m)
    BY <1>0, <1>2, <2>1 DEF EdgectlRun, Leaves
  <2>2. CASE AgentCrash(m)
    BY <1>0, <1>2, <2>2 DEF AgentCrash, AgentReturns
  <2>3. CASE EdgectlRead(m) \/ EdgectlCond(m) \/ AgentNodePatch(m)
    BY <1>0, <1>2, <2>3 DEF EdgectlRead, EdgectlCond, AgentNodePatch, AgentReturns, hostVars
  <2>4. CASE AgentFail(m) \/ AgentDone(m) \/ AgentStart(m) \/ AgentTears(m)
    BY <1>0, <1>2, <2>4 DEF AgentFail, AgentDone, AgentStart, AgentTears, agentVars
  <2>5. CASE AgentSyncYC(m) \/ AgentNodeEvent(m)
    BY <2>5 DEF AgentSyncYC, AgentNodeEvent, hostVars
  <2> QED
    BY <1>2, <2>1, <2>2, <2>3, <2>4, <2>5 DEF Agent, AgentPass
<1>3. CASE Agent(n)
  <2>1. CASE EdgectlRead(n)
    BY <1>0, <2>1 DEF EdgectlRead, SwitchOf, storeVars
  <2>2. CASE AgentStart(n) \/ AgentCrash(n) \/ EdgectlCond(n) \/ AgentNodePatch(n)
    BY <1>0, <2>2 DEF AgentStart, AgentCrash, AgentReturns, EdgectlCond, AgentNodePatch
  <2>3. CASE AgentFail(n) \/ AgentDone(n) \/ AgentTears(n) \/ AgentSyncYC(n) \/ AgentNodeEvent(n)
    BY <2>3 DEF AgentFail, AgentDone, AgentTears, AgentSyncYC, AgentNodeEvent, agentVars, hostVars
  <2> QED
    BY <1>3, <2>1, <2>2, <2>3 DEF Agent, AgentPass
<1> QED
  BY <1>1, <1>2, <1>3 DEF Next

\* Within one generation of the object the spec stays.
LEMMA SpecSteps ==
  ASSUME TypeOK, ApprovedInv, [Next]_vars, yc'.exists
  PROVE  yc.exists /\ yc.gen <= yc'.gen /\ (yc'.gen = yc.gen => yc'.spec = yc.spec)
<1>0. yc \in Clusters /\ yc.gen \in Nat /\ yc.spec \in Specs /\ yc.gen + 1 # yc.gen
  BY TypeCluster
<1>1. yc.exists /\ yc.gen <= yc'.gen
  BY StepOnward DEF Onward
<1>2. CASE UNCHANGED yc
  BY <1>2, <1>1
<1>3. CASE MgrPatch
  <2>1. CASE yc' = MergedMeta
    <3>1. yc' # NoCluster
      BY NoClusterFields
    <3>2. yc'.spec = MergedSpec /\ yc'.gen = IF MergedSpec = yc.spec THEN yc.gen ELSE yc.gen + 1
      BY <1>0, <2>1, <3>1 DEF MergedMeta, Clusters
    <3> QED
      BY <1>0, <1>1, <3>2
  <2> QED
    BY <1>2, <1>3, <2>1 DEF MgrPatch
<1>4. CASE MgrPatchStatus
  <2>1. MergedStatus.spec = yc.spec
    BY <1>0 DEF MergedStatus, Clusters
  <2> QED
    BY <1>1, <1>2, <1>4, <2>1 DEF MgrPatchStatus
<1>5. ASSUME NEW n \in Nodes, EdgectlCond(n) PROVE yc'.spec = yc.spec
  <2>1. ConditionPatched(n).spec = yc.spec
    BY <1>0 DEF ConditionPatched, Clusters
  <2> QED
    BY <1>2, <1>5, <2>1 DEF EdgectlCond
<1>6. ASSUME NEW s \in UpdateSpecs, UserUpdates(s) PROVE yc'.gen # yc.gen
  BY <1>0, <1>6 DEF UserUpdates, Clusters
<1>7. CASE UserDeletes
  <2>1. yc' # NoCluster
    BY NoClusterFields
  <2> QED
    BY <1>0, <1>1, <1>7, <2>1 DEF UserDeletes, Clusters
<1>8. CASE Manager
  <2>1. ASSUME NEW n \in Nodes, MgrNodeEvent(n) PROVE UNCHANGED yc
    BY <2>1 DEF MgrNodeEvent
  <2> QED
    BY <1>2, <1>3, <1>4, <1>8, <2>1 DEF Manager, MgrPass, MgrSyncYC, MgrStart, MgrApply,
       MgrDelete, MgrStatus, MgrCrash, storeVars
<1> QED
  BY <1>1, <1>2, <1>5, <1>6, <1>7, <1>8, AgentFrame, EnvironmentFrame DEF Next, vars, storeVars

\* A condition changes with the record of a run only.
LEMMA CondSteps ==
  ASSUME TypeOK, ApprovedInv, [Next]_vars, NEW n \in Nodes, yc'.exists
  PROVE  \/ /\ yc'.conds[n] = yc.conds[n]
            /\ unrecorded'[n] \/ (~unrecorded[n] /\ host'[n] = host[n])
         \/ EdgectlCond(n) /\ yc' = ConditionPatched(n)
<1>0. yc \in Clusters
  BY TypeCluster
<1>1. ASSUME ~EdgectlCond(n) PROVE yc'.conds[n] = yc.conds[n]
  <2>1. CASE UNCHANGED yc
    BY <2>1
  <2>2. CASE MgrPatch
    BY <2>1, <2>2, NoClusterFields, MergedMetaFields DEF MgrPatch
  <2>3. CASE MgrPatchStatus
    BY <2>1, <2>3, MergedStatusFields DEF MgrPatchStatus
  <2>4. ASSUME NEW m \in Nodes, EdgectlCond(m) PROVE yc'.conds[n] = yc.conds[n]
    <3>1. m # n
      BY <1>1, <2>4
    <3> QED
      BY <2>1, <2>4, <3>1, ConditionPatchedFields DEF EdgectlCond
  <2>5. ASSUME NEW s \in UpdateSpecs, UserUpdates(s) PROVE yc'.conds[n] = yc.conds[n]
    BY <1>0, <2>5 DEF UserUpdates, Clusters
  <2>6. CASE UserDeletes
    <3>1. yc' # NoCluster
      BY NoClusterFields
    <3> QED
      BY <1>0, <2>6, <3>1 DEF UserDeletes, Clusters
  <2>7. CASE Manager
    <3>1. ASSUME NEW m \in Nodes, MgrNodeEvent(m) PROVE UNCHANGED yc
      BY <3>1 DEF MgrNodeEvent
    <3> QED
      BY <2>1, <2>2, <2>3, <2>7, <3>1 DEF Manager, MgrPass, MgrSyncYC, MgrStart, MgrApply,
         MgrDelete, MgrStatus, MgrCrash, storeVars
  <2> QED
    BY <2>1, <2>4, <2>5, <2>6, <2>7, AgentFrame, EnvironmentFrame DEF Next, vars, storeVars
<1>2. CASE ~EdgectlCond(n)
  BY <1>1, <1>2, HostSteps
<1>3. CASE EdgectlCond(n)
  BY <1>3 DEF EdgectlCond, hostVars
<1> QED
  BY <1>2, <1>3

----------------------------------------------------------------------------
(* TruthInv *)

\* What a condition with this reason says of the host of node n.
Says(reason, n) ==
  CASE reason = "NodeRevert"       -> HostReverted(n)
    [] reason = "CloudNodeConvert" ->
         yc.spec.cloudHub = "on" => host[n].hub = "CloudNode" /\ ThroughHub(host[n])
    [] reason = "EdgeNodeConvert"  ->
         yc.spec.edgeHub = "on" => host[n].hub = "EdgeNode" /\ ThroughHub(host[n])

Counts(n) ==
  yc.exists /\ yc.conds[n].status = "True" /\ yc.conds[n].og = yc.gen /\ ~unrecorded[n]

LEMMA TruthSays == ConditionTruth <=> \A n \in Nodes : Counts(n) => Says(yc.conds[n].reason, n)
  BY DEF ConditionTruth, Counts, Says

LEMMA BackupStep ==
  ASSUME TypeOK, TruthInv, [Next]_vars, NEW n \in FlagsEnv
  PROVE  BackupKept(host'[n])
<1>1. n \in Nodes /\ host[n] \in Hosts /\ aop[n] \in NodeTypes /\ BackupKept(host[n])
  BY NodesAssumption DEF TypeOK, TruthInv
<1> QED
  BY <1>1, HostSteps, RunKeepsBackup

LEMMA KnowsStep ==
  ASSUME TypeOK, ApprovedInv, TruthInv, [Next]_vars, NEW n \in Nodes
  PROVE  RunKnows(n)'
<1>0. /\ RunKnows(n) /\ (n \in FlagsEnv => BackupKept(host[n])) /\ host[n] \in Hosts
      /\ aop[n] \in NodeTypes /\ yc.gen \in Nat /\ run[n].gen \in Nat
  BY TypeCluster DEF TruthInv, TypeOK
<1>1. CASE apc'[n] \notin {"run", "cond"}
  BY <1>1 DEF RunKnows
<1>2. CASE /\ yc.exists /\ yc' = yc /\ apc'[n] = "run" /\ aop'[n] = aop[n]
           /\ run'[n].gen = yc.gen /\ run'[n].hub = SwitchOf(aop[n])
  BY <1>0, <1>2 DEF RunKnows, SwitchOf
<1>3. CASE EdgectlRun(n)
  <2>1. /\ apc[n] = "run" /\ yc' = yc /\ aop'[n] = aop[n]
        /\ run'[n].gen = run[n].gen /\ run'[n].hub = run[n].hub
    <3>1. run \in [Nodes -> [gen : Nat, hub : Switches, ok : BOOLEAN]]
      BY DEF TypeOK
    <3> QED
      BY <1>3, <3>1 DEF EdgectlRun, Leaves, storeVars
  <2>2. ASSUME run'[n].ok, run[n].hub = "on" PROVE host'[n] = Done(host[n], aop[n])
    <3>1. /\ run \in [Nodes -> [gen : Nat, hub : Switches, ok : BOOLEAN]]
          /\ host \in [Nodes -> Hosts]
      BY DEF TypeOK
    <3> QED
      BY <1>3, <2>2, <3>1 DEF EdgectlRun, Leaves
  <2>3. ASSUME run'[n].ok, run[n].hub = "on" PROVE Describes(aop[n], n)'
    BY <1>0, <2>1, <2>2, <2>3, DoneDescribes DEF Describes, HostReverted
  <2> QED
    BY <1>0, <2>1, <2>3 DEF RunKnows, SwitchOf, Describes
<1>4. CASE apc'[n] = apc[n] /\ aop'[n] = aop[n] /\ run'[n] = run[n] /\ host'[n] = host[n]
  <2>1. ASSUME apc[n] = "cond" /\ run[n].ok /\ run[n].hub = "on"
        PROVE  Describes(aop[n], n)'
    BY <1>0, <1>4, <2>1 DEF RunKnows, Describes, HostReverted
  <2>2. ASSUME yc'.exists, apc[n] \in {"run", "cond"}
        PROVE  /\ run[n].gen <= yc'.gen
               /\ run[n].gen = yc'.gen => run[n].hub = SwitchOf(aop[n])'
    <3>1. yc'.gen \in Nat
      BY TypePreserved, TypeCluster DEF TypeOK, Clusters
    <3>2. run[n].gen = yc'.gen => yc'.gen = yc.gen
      BY <1>0, <2>2, <3>1, SpecSteps DEF RunKnows
    <3>3. yc'.gen = yc.gen => SwitchOf(aop[n])' = SwitchOf(aop'[n]) /\ yc'.spec = yc.spec
      BY <1>4, <2>2, SpecSteps DEF SwitchOf
    <3> QED
      BY <1>0, <1>4, <2>2, <3>1, <3>2, <3>3, SpecSteps DEF RunKnows, SwitchOf
  <2> QED
    BY <1>4, <2>1, <2>2 DEF RunKnows, SwitchOf, Describes
<1> QED
  BY <1>1, <1>2, <1>3, <1>4, RunSteps

\* A condition that counts after the step counted before it, or was written in it by a run that
\* knew the spec and had left the host as its reason says.
LEMMA TruthStep ==
  ASSUME TypeOK, ApprovedInv, TruthInv, [Next]_vars
  PROVE  TruthInv'
<1>1. ASSUME NEW n \in Nodes PROVE yc'.exists => yc'.conds[n].og <= yc'.gen
  <2>0. /\ yc.gen \in Nat /\ yc'.gen \in Nat /\ yc.conds[n].og \in Nat /\ run[n].gen \in Nat
        /\ yc.exists => yc.conds[n].og <= yc.gen
    BY TypePreserved, TypeCluster DEF TypeOK, Clusters, Conditions, TruthInv
  <2>1. CASE yc'.exists /\ yc'.conds[n] = yc.conds[n]
    BY <2>0, <2>1, SpecSteps
  <2>2. CASE yc'.exists /\ EdgectlCond(n) /\ yc' = ConditionPatched(n)
    <3>1. yc'.conds[n] = RunCondition(n) /\ yc'.gen = yc.gen /\ yc.exists
      BY <2>2, TypeCluster, ConditionPatchedFields DEF ConditionPatched, Clusters
    <3>2. apc[n] = "cond" /\ RunKnows(n)
      BY <2>2 DEF EdgectlCond, TruthInv
    <3> QED
      BY <2>0, <3>1, <3>2 DEF RunCondition, RunKnows
  <2> QED
    BY <2>1, <2>2, CondSteps
<1>2. ASSUME NEW n \in Nodes, Counts(n)' PROVE Says(yc.conds[n].reason, n)'
  <2>0. /\ yc.gen \in Nat /\ yc'.gen \in Nat /\ yc.conds[n].og \in Nat
        /\ yc'.exists /\ yc.exists /\ yc.gen <= yc'.gen
        /\ yc'.gen = yc.gen => yc'.spec = yc.spec
        /\ yc.conds[n].og <= yc.gen
    BY <1>2, TypePreserved, TypeCluster, SpecSteps DEF TypeOK, Clusters, Conditions, TruthInv, Counts
  <2>1. CASE yc'.conds[n] = yc.conds[n] /\ ~unrecorded[n] /\ host'[n] = host[n]
    <3>1. yc'.gen = yc.gen /\ yc'.spec = yc.spec /\ Counts(n)
      BY <1>2, <2>0, <2>1 DEF Counts
    <3>2. Says(yc.conds[n].reason, n)
      BY <3>1, TruthSays DEF TruthInv
    <3> QED
      BY <2>1, <3>1, <3>2 DEF Says, HostReverted
  <2>2. CASE EdgectlCond(n) /\ yc' = ConditionPatched(n)
    <3>1. /\ yc'.conds[n] = RunCondition(n) /\ yc'.gen = yc.gen /\ host' = host
          /\ apc[n] = "cond" /\ RunKnows(n) /\ aop[n] \in NodeTypes
      BY <2>2, TypeCluster, ConditionPatchedFields
      DEF ConditionPatched, Clusters, EdgectlCond, hostVars, TypeOK, TruthInv
    <3>2. run[n].ok /\ run[n].gen = yc.gen /\ yc'.conds[n].reason = ReasonOf(aop[n])
      BY <1>2, <3>1 DEF Counts, RunCondition
    <3>3. run[n].hub = SwitchOf(aop[n]) /\ (run[n].hub = "on" => Describes(aop[n], n))
      BY <2>0, <3>1, <3>2 DEF RunKnows
    <3> QED
      BY <2>0, <3>1, <3>2, <3>3
      DEF Says, SwitchOf, HubSwitch, Describes, ReasonOf, NodeTypes, HostReverted
  <2>3. unrecorded'[n] = FALSE
    <3>1. unrecorded' \in [Nodes -> BOOLEAN]
      BY TypePreserved DEF TypeOK
    <3> QED
      BY <1>2, <3>1 DEF Counts
  <2> QED
    BY <2>0, <2>1, <2>2, <2>3, CondSteps
<1>3. ConditionTruth'
  <2>1. ASSUME NEW n \in Nodes PROVE (Counts(n) => Says(yc.conds[n].reason, n))'
    BY <1>2
  <2> QED
    BY <2>1 DEF ConditionTruth, Counts, Says
<1>4. ASSUME NEW n \in Nodes PROVE (n \in FlagsEnv => BackupKept(host[n]))'
  BY BackupStep
<1>5. ASSUME NEW n \in Nodes PROVE RunKnows(n)'
  BY KnowsStep
<1> QED
  BY <1>1, <1>3, <1>4, <1>5 DEF TruthInv

LEMMA InitTruth == Init => TruthInv
<1> SUFFICES ASSUME Init PROVE TruthInv
  OBVIOUS
<1>1. ASSUME NEW n \in Nodes
      PROVE  /\ yc.conds[n] = NoCondition /\ yc.gen = 1 /\ apc[n] = "idle"
             /\ n \in FlagsEnv => BackupKept(host[n])
  BY DEF Init, NewCluster, InitialHost, CleanHost, BackupKept
<1>2. ASSUME NEW n \in Nodes PROVE RunKnows(n) /\ yc.conds[n].og = 0 /\ yc.conds[n].status # "True"
  BY <1>1 DEF RunKnows, NoCondition
<1>3. ConditionTruth
  BY <1>2, TruthSays DEF Counts
<1> QED
  BY <1>1, <1>2, <1>3 DEF TruthInv

\* A True condition of the current generation tells the truth about the host, for any set of
\* nodes: commands record the generation they read before they looked at the spec, and whatever
\* changes the spec after that raises the generation.
THEOREM ConditionsTrue == Spec => []ConditionTruth
<1>1. TypeOK /\ ApprovedInv /\ TruthInv /\ [Next]_vars => TruthInv'
  BY TruthStep
<1>2. TypeOK /\ ApprovedInv /\ [Next]_vars => ApprovedInv'
  BY ApprovedStep
<1>3. TruthInv => ConditionTruth
  BY DEF TruthInv
<1> QED
  BY InitApproved, InitTruth, TypeCorrect, <1>1, <1>2, <1>3, PTL DEF Spec

=============================================================================
