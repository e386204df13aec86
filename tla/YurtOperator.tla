---------------------------- MODULE YurtOperator ----------------------------
(***************************************************************************)
(* The operator and its node agents around one YurtCluster object.         *)
(*                                                                         *)
(* The manager (one replica behind leader election, one worker) reconciles *)
(* the object: it approves it with a finalizer and defaults, applies the   *)
(* templates and yurt tunnel, and sums the node conditions up in           *)
(* status.phase.  An agent on every node converts or reverts its own host  *)
(* by running edgectl, which writes the node's condition.  They share the  *)
(* API server only, read it through informer caches that lag (edgectl      *)
(* reads it directly), and write it with merge patches computed from the   *)
(* snapshot a pass started with, without a resourceVersion.                *)
(***************************************************************************)
EXTENDS YurtCluster, NodeHost, NodeLifecycle

CONSTANTS
  ControlPlane,  \* the nodes with the node-role.kubernetes.io/master label
  HasManifest,   \* those of them that have a kube-controller-manager.yaml
  Controllers,   \* the --controllers entries that such a manifest may start with
  FlagsEnv,      \* the nodes that kubeadm left a kubeadm-flags.env on
  InitialLabels, \* the labels that a node may start with
  InitialSpecs,  \* the specs the user may create the object with
  UpdateSpecs,   \* the specs the user may change it to
  Deletable,     \* whether the user may delete the object
  MaxGen,        \* bound on the generation that a spec update may reach
  MaxFaults,     \* bound on failed API calls and crashes
  MaxFails,      \* bound on edgectl runs that fail
  MaxRelabels,   \* bound on label changes of nodes
  MaxFlips       \* bound on readiness changes of nodes

ASSUME NodesAssumption ==
  /\ ControlPlane \subseteq Nodes /\ HasManifest \subseteq ControlPlane
  /\ FlagsEnv \subseteq Nodes /\ InitialLabels \subseteq Labels

ASSUME ControllersAssumption ==
  \A c \in Controllers :
    /\ c \in Seq(Entries)
    /\ \A i, j \in DOMAIN c : c[i] = "-nodelifecycle" /\ c[j] = "-nodelifecycle" => i = j

ASSUME SpecsAssumption == InitialSpecs \subseteq Specs /\ UpdateSpecs \subseteq Specs

ASSUME BoundsAssumption ==
  /\ Deletable \in BOOLEAN
  /\ MaxGen \in Nat /\ MaxFaults \in Nat /\ MaxFails \in Nat
  /\ MaxRelabels \in Nat /\ MaxFlips \in Nat

VARIABLES
  (* the API server *)
  yc,          \* the YurtCluster object
  nodes,       \* the Node objects
  tpls,        \* the template ConfigMaps that exist
  tunnelUp,    \* whether workloads of yurt tunnel exist
  (* the hosts *)
  host,        \* the files edgectl manages, per node
  kcm,         \* the manifest of kube-controller-manager, per node
  (* the manager *)
  mcache,      \* its cached YurtCluster
  mlabels,     \* its cached Nodes: their labels are all it reads
  mpc,         \* where its reconcile pass is
  mread,       \* the object the pass read, until it has summed it up
  mresult,     \* how applying or deleting went
  mold, mnew,  \* the fields its patches compare, before and after
  (* the agents, per node *)
  acache,      \* what the agent's cached YurtCluster says to it
  anode,       \* its cached Node
  apc,         \* where its reconcile pass, and the edgectl it runs, are
  aop,         \* the node type it is converting to
  abefore,     \* the label and taint of the Node the pass read
  run,         \* what edgectl read and how it ended
  (* bounds *)
  faults, fails, relabels, flips,
  (* history *)
  approved,    \* the generation of the last approval pass
  applied,     \* the last generation whose manifests were all applied
  skipped,     \* the last clean-up of yurt tunnel took a failed lookup for absence
  held,        \* the nodes that had a condition when the object was deleted
  unrecorded   \* hosts changed by an edgectl run whose condition was not written

storeVars   == <<yc, nodes, tpls, tunnelUp>>
hostVars    == <<host, kcm>>
mgrVars     == <<mcache, mlabels, mpc, mread, mresult, mold, mnew>>
agentVars   == <<acache, anode, apc, aop, abefore, run>>
boundVars   == <<faults, fails, relabels, flips>>
historyVars == <<approved, applied, skipped, held, unrecorded>>
vars == <<storeVars, hostVars, mgrVars, agentVars, boundVars, historyVars>>

\* The Node fields that the system reads or writes; `edge' is the is-edge-worker label.
NodeObjects == [label : Labels, edge : {"none", "true", "false"}, taint : BOOLEAN, ready : BOOLEAN]

\* What an agent's passes read of the YurtCluster.
View(c, n) == [exists |-> c.exists, gen |-> c.gen, deleting |-> c.deleting,
               finalizer |-> c.finalizer, spec |-> c.spec, cond |-> c.conds[n]]

Views == [exists : BOOLEAN, gen : Nat, deleting : BOOLEAN, finalizer : BOOLEAN,
          spec : Specs, cond : Conditions]

\* The Node fields that a pass of an agent changes.
Dress(node) == [edge |-> node.edge, taint |-> node.taint]

\* The YurtCluster fields that a pass of the manager changes.
Fields(c) == [finalizer |-> c.finalizer, spec |-> c.spec, obsGen |-> c.obsGen, phase |-> c.phase]

FieldSets == [finalizer : BOOLEAN, spec : Specs, obsGen : Nat, phase : Phases]

NoFields == Fields(NoCluster)

Undressed == [edge |-> "none", taint |-> FALSE]

NoRun == [gen |-> 0, hub |-> "on", ok |-> FALSE]

\* The manifest of node n, as kubeadm and whoever edited it after that left it.
InitialManifests(n) ==
  IF n \in HasManifest THEN {Pod(c) : c \in Controllers} ELSE {Absent}

InitialHost(n) == CleanHost(IF n \in FlagsEnv THEN "original" ELSE "none")

Init ==
  /\ yc \in {NewCluster(s) : s \in InitialSpecs}
  /\ nodes \in [Nodes -> {x \in NodeObjects : 
                                   x.label \in InitialLabels /\ x.edge = "none" /\ ~x.taint /\ x.ready}]
  /\ tpls = {} /\ tunnelUp = FALSE
  /\ host = [n \in Nodes |-> InitialHost(n)]
  /\ kcm \in {f \in [Nodes -> UNION {InitialManifests(n) : n \in Nodes}] :
               \A n \in Nodes : f[n] \in InitialManifests(n)}
  /\ mcache = NoCluster /\ mlabels = [n \in Nodes |-> nodes[n].label]
  /\ mpc = "idle" /\ mread = NoCluster /\ mresult = "ok"
  /\ mold = NoFields /\ mnew = NoFields
  /\ acache = [n \in Nodes |-> View(NoCluster, n)] /\ anode = nodes
  /\ apc = [n \in Nodes |-> "idle"]
  /\ aop = [n \in Nodes |-> "NormalNode"] /\ abefore = [n \in Nodes |-> Undressed]
  /\ run = [n \in Nodes |-> NoRun]
  /\ faults = 0 /\ fails = 0 /\ relabels = 0 /\ flips = 0
  /\ approved = 0 /\ applied = 0 /\ skipped = FALSE /\ held = {}
  /\ unrecorded = [n \in Nodes |-> FALSE]

\* An API call that fails, or a process that dies.
Fault == faults < MaxFaults /\ faults' = faults + 1

----------------------------------------------------------------------------
(* The manager *)

\* Its informer delivers the YurtCluster as it is now: the versions in between may be skipped.
MgrSyncYC ==
  /\ mcache # yc /\ mcache' = yc
  /\ UNCHANGED <<storeVars, hostVars, mlabels, mpc, mread, mresult, mold, mnew,
                 agentVars, boundVars, historyVars>>

\* Its informer delivers a Node, at the latest with the next heartbeat of the kubelet.  The map
\* function marks a control-plane node as a cloud node; when that fails it only logs.
MgrNodeEvent(n) ==
  /\ mlabels' = [mlabels EXCEPT ![n] = nodes[n].label]
  /\ \/ /\ nodes' = IF n \in ControlPlane THEN [nodes EXCEPT ![n].edge = "false"] ELSE nodes
        /\ UNCHANGED faults
     \/ n \in ControlPlane /\ Fault /\ UNCHANGED nodes
  /\ UNCHANGED <<yc, tpls, tunnelUp, hostVars, mcache, mpc, mread, mresult, mold, mnew,
                 agentVars, fails, relabels, flips, historyVars>>

(***************************************************************************)
(* A pass over an object that the cache has.  Every event of the object    *)
(* and every heartbeat of a node queues the request, and so does an error, *)
(* so the work queue may hold it at any time and is not modelled.          *)
(***************************************************************************)
MgrStart ==
  /\ mpc = "idle" /\ mcache.exists
  /\ mread' = mcache
  /\ mpc' = IF ~mcache.finalizer THEN "status" ELSE IF mcache.deleting THEN "delete" ELSE "apply"
  /\ approved' = IF mcache.finalizer THEN approved ELSE mcache.gen
  /\ UNCHANGED <<storeVars, hostVars, mcache, mlabels, mresult, mold, mnew, agentVars, boundVars,
                 applied, skipped, held, unrecorded>>

\* What a pass does to templates and yurt tunnel, in one step.
Runs == INSTANCE ManagerRuns WITH
  wanted <- IF mread.deleting THEN "deleted" ELSE mread.spec.tunnel,
  up <- tunnelUp, result <- mresult, missed <- skipped

\* Apply the templates and yurt tunnel's objects, or delete these where yurt tunnel is off.
MgrApply ==
  /\ mpc = "apply" /\ mpc' = "status"
  /\ LET s == mread.spec.tunnel
     IN  \/ Runs!Applied(s) /\ applied' = mread.gen /\ UNCHANGED faults
         \/ Runs!Panicked(s) /\ UNCHANGED <<applied, faults>>
         \/ /\ Runs!AppliedButMissed(s) \/ Runs!ApplyFailed(s) \/ Runs!PartlyPanicked(s)
            /\ Fault /\ UNCHANGED applied
  /\ UNCHANGED <<yc, nodes, hostVars, mcache, mlabels, mread, mold, mnew, agentVars,
                 fails, relabels, flips, approved, held, unrecorded>>

\* Delete yurt tunnel's objects, which the template that was applied names.
MgrDelete ==
  /\ mpc = "delete" /\ mpc' = "status"
  /\ \/ (Runs!Cleaned \/ Runs!Unnamed) /\ UNCHANGED faults
     \/ (Runs!CleanedButMissed \/ Runs!CleanFailed) /\ Fault
  /\ UNCHANGED <<yc, nodes, hostVars, mcache, mlabels, mread, mold, mnew, agentVars,
                 fails, relabels, flips, approved, applied, held, unrecorded>>

\* A pass over an object without the finalizer only adds it and the defaults.
Approve(c) == IF c.finalizer THEN c ELSE [c EXCEPT !.finalizer = TRUE, !.spec = Complete(@)]

AllCompleted(c) ==
  \A n \in Nodes : IsNodeConvertOrRevertCompleted(n, mlabels[n], c, c.conds[n])

\* Slips of Summed: a phase that ignores observedGeneration, and an observedGeneration that is
\* set whatever the pass returned.
SummedUnobserved(c, listed) ==
  LET succeed == listed /\ AllCompleted(c)
  IN  [c EXCEPT
        !.obsGen = IF mresult = "error" THEN @ ELSE c.gen,
        !.phase = IF succeed THEN "Succeed" ELSE IF c.deleting THEN "Deleting" ELSE "Converting",
        !.finalizer = @ /\ ~(succeed /\ c.deleting)]

SummedRegardless(c, listed) ==
  LET succeed == listed /\ AllCompleted(c)
  IN  [c EXCEPT
        !.obsGen = c.gen,
        !.phase = IF succeed THEN "Succeed" ELSE IF c.deleting THEN "Deleting" ELSE "Converting",
        !.finalizer = @ /\ ~(succeed /\ c.deleting)]

\* The deferred reconcileStatus, which lists the nodes; a panic unwinds through it with a nil error.
Summed(c, listed) ==
  LET observed == [c EXCEPT !.obsGen = IF mresult = "error" THEN @ ELSE c.gen]
      succeed  == listed /\ AllCompleted(c) /\ observed.obsGen = c.gen
  IN  [observed EXCEPT
        !.phase = IF succeed THEN "Succeed" ELSE IF c.deleting THEN "Deleting" ELSE "Converting",
        !.finalizer = @ /\ ~(succeed /\ c.deleting)]

MgrStatus ==
  /\ mpc = "status"
  /\ mold' = Fields(mread)
  /\ \/ mnew' = Fields(Summed(Approve(mread), TRUE)) /\ UNCHANGED faults
     \/ mnew' = Fields(Summed(Approve(mread), FALSE)) /\ Fault
  /\ mpc' = IF mnew'.finalizer # mold'.finalizer \/ mnew'.spec # mold'.spec
            THEN "patch" ELSE "patchStatus"
  /\ mread' = NoCluster /\ mresult' = "ok"
  /\ UNCHANGED <<storeVars, hostVars, mcache, mlabels, agentVars, fails, relabels, flips, historyVars>>

\* A merge patch carries the fields that differ between the two objects, and only those.
Merged(old, new, current) == IF old = new THEN current ELSE new

MergedSpec == [f \in DOMAIN yc.spec |-> Merged(mold.spec[f], mnew.spec[f], yc.spec[f])]

\* The API server lets a deleted object go when its last finalizer does.
MergedMeta ==
  IF yc.deleting /\ mold.finalizer /\ ~mnew.finalizer THEN NoCluster
  ELSE [yc EXCEPT !.finalizer = Merged(mold.finalizer, mnew.finalizer, @),
                  !.spec = MergedSpec,
                  !.gen = IF MergedSpec = yc.spec THEN @ ELSE @ + 1]

\* The patch of metadata and spec, and after it, whatever became of it, the one of the status.
MgrPatch ==
  /\ mpc = "patch" /\ mpc' = "patchStatus"
  /\ \/ yc.exists /\ yc' = MergedMeta /\ UNCHANGED faults
     \/ ~yc.exists /\ UNCHANGED <<yc, faults>>
     \/ Fault /\ UNCHANGED yc
  /\ UNCHANGED <<nodes, tpls, tunnelUp, hostVars, mcache, mlabels, mread, mresult, mold, mnew,
                 agentVars, fails, relabels, flips, historyVars>>

\* A slip: the status as the pass has it, instead of the fields it changed.
WholeStatus == [yc EXCEPT !.obsGen = mnew.obsGen, !.phase = mnew.phase]

MergedStatus ==
  [yc EXCEPT !.obsGen = Merged(mold.obsGen, mnew.obsGen, @),
             !.phase = Merged(mold.phase, mnew.phase, @)]

MgrPatchStatus ==
  /\ mpc = "patchStatus" /\ mpc' = "idle"
  /\ mold' = NoFields /\ mnew' = NoFields
  /\ \/ yc.exists /\ yc' = MergedStatus /\ UNCHANGED faults
     \/ ~yc.exists /\ UNCHANGED <<yc, faults>>
     \/ Fault /\ UNCHANGED yc
  /\ UNCHANGED <<nodes, tpls, tunnelUp, hostVars, mcache, mlabels, mread, mresult, agentVars,
                 fails, relabels, flips, historyVars>>

\* The manager dies in a pass, with part of its calls done; its successor lists everything anew.
MgrCrash ==
  /\ mpc # "idle" /\ Fault
  /\ mpc' = "idle" /\ mread' = NoCluster /\ mresult' = "ok"
  /\ mold' = NoFields /\ mnew' = NoFields
  /\ mcache' = yc /\ mlabels' = [n \in Nodes |-> nodes[n].label]
  /\ \/ mpc = "apply" /\ Runs!Partly(mread.spec.tunnel)
     \/ mpc = "delete" /\ Runs!PartlyCleaned
     \/ mpc \notin {"apply", "delete"} /\ UNCHANGED <<tpls, tunnelUp, skipped>>
  /\ UNCHANGED <<yc, nodes, hostVars, agentVars, fails, relabels, flips,
                 approved, applied, held, unrecorded>>

----------------------------------------------------------------------------
(* The agent of node n *)

AgentSyncYC(n) ==
  /\ acache[n] # View(yc, n)
  /\ acache' = [acache EXCEPT ![n] = View(yc, n)]
  /\ UNCHANGED <<storeVars, hostVars, mgrVars, anode, apc, aop, abefore, run, boundVars, historyVars>>

\* Its informer delivers its own Node, at the latest with the next heartbeat of the kubelet.
AgentNodeEvent(n) ==
  /\ anode' = [anode EXCEPT ![n] = nodes[n]]
  /\ UNCHANGED <<storeVars, hostVars, mgrVars, acache, apc, aop, abefore, run, boundVars, historyVars>>

\* A slip: an agent that does not wait for the approval.
AgentUnapproved(n) == apc[n] = "idle" /\ acache[n].exists

\* A pass over an object that the cache has and the manager has approved.
AgentApproved(n) == apc[n] = "idle" /\ acache[n].exists /\ acache[n].finalizer

\* The edit of kube-controller-manager.yaml that opens every pass on a control-plane node needs a
\* manifest: a missing or an unreadable file is an error.
Editable(n) == n \in ControlPlane => kcm[n].form = "pod"

\* A slip: the edit does not look at the deletion timestamp.
AlwaysDisabled(n) == IF n \in ControlPlane THEN Disabled(kcm[n]) ELSE kcm[n]

\* The node lifecycle controller is disabled, and enabled again for an object that is deleted.
Edited(n) ==
  IF n \notin ControlPlane THEN kcm[n]
  ELSE IF acache[n].deleting THEN Enabled(kcm[n]) ELSE Disabled(kcm[n])

EditManifest(n) == kcm' = [kcm EXCEPT ![n] = Edited(n)]

AgentCompleted(n) ==
  IsNodeConvertOrRevertCompleted(n, anode[n].label, acache[n], acache[n].cond)

\* A slip: a pass that does not look at the deletion timestamp.
TypeByRole(n) == GetNodeType(n, anode[n].label, acache[n].spec)

TypeWanted(n) ==
  IF acache[n].deleting THEN "NormalNode" ELSE GetNodeType(n, anode[n].label, acache[n].spec)

\* The pass returns an error; the next one tries again.
AgentFail(n) ==
  /\ AgentApproved(n)
  /\ \/ ~Editable(n) /\ UNCHANGED kcm
     \/ /\ Editable(n) /\ EditManifest(n)
        /\ ~AgentCompleted(n) /\ TypeWanted(n) # "NormalNode" /\ ~anode[n].ready
  /\ UNCHANGED <<storeVars, host, mgrVars, agentVars, boundVars, historyVars>>

\* The manifest is truncated and written in place: when the agent dies or the disk is full in
\* between, what is left is taken to be no Pod, and there is no backup.
AgentTears(n) ==
  /\ AgentApproved(n) /\ Editable(n) /\ Edited(n) # kcm[n]
  /\ kcm' = [kcm EXCEPT ![n] = Torn]
  /\ UNCHANGED <<storeVars, host, mgrVars, agentVars, boundVars, historyVars>>

AgentDone(n) ==
  /\ AgentApproved(n) /\ Editable(n) /\ EditManifest(n)
  /\ AgentCompleted(n)
  /\ UNCHANGED <<storeVars, host, mgrVars, acache, anode, apc, aop, abefore, run,
                 boundVars, historyVars>>

\* The pass labels and taints its copy of the Node and runs the command; without the trans
\* template it returns to try again, which still patches the Node.
AgentStart(n) ==
  /\ AgentApproved(n) /\ Editable(n) /\ EditManifest(n)
  /\ ~AgentCompleted(n) /\ (TypeWanted(n) = "NormalNode" \/ anode[n].ready)
  /\ aop' = [aop EXCEPT ![n] = TypeWanted(n)]
  /\ abefore' = [abefore EXCEPT ![n] = Dress(anode[n])]
  /\ apc' = [apc EXCEPT ![n] = IF "trans" \in tpls THEN "read" ELSE "patch"]
  /\ UNCHANGED <<storeVars, host, mgrVars, acache, anode, run, boundVars, historyVars>>

\* edgectl reads the object from the API server; without it the command ends there.
EdgectlRead(n) ==
  /\ apc[n] = "read"
  /\ \/ /\ yc.exists
        /\ run' = [run EXCEPT ![n] =
             [gen |-> yc.gen, ok |-> FALSE,
              hub |-> IF aop[n] = "NormalNode" THEN "on" ELSE HubSwitch(aop[n], yc.spec)]]
        /\ apc' = [apc EXCEPT ![n] = "run"] /\ UNCHANGED faults
     \/ ~yc.exists /\ apc' = [apc EXCEPT ![n] = "patch"] /\ UNCHANGED <<run, faults>>
     \/ Fault /\ apc' = [apc EXCEPT ![n] = "patch"] /\ UNCHANGED run
  /\ UNCHANGED <<storeVars, hostVars, mgrVars, acache, anode, aop, abefore,
                 fails, relabels, flips, historyVars>>

\* The command gets to work on the host: a revert is forced, a convert wants a ready node and
\* the yurt-hub template.
Works(n) ==
  /\ run[n].hub = "on"
  /\ aop[n] = "NormalNode" \/ (nodes[n].ready /\ "yurthub" \in tpls)

\* The run ends with h on the host; nobody has recorded that yet.
Leaves(n, h, ok) ==
  /\ host' = [host EXCEPT ![n] = h]
  /\ unrecorded' = [unrecorded EXCEPT ![n] = @ \/ h # host[n]]
  /\ run' = [run EXCEPT ![n].ok = ok]

\* A run that is switched off does nothing and succeeds; so does, for what it records, one that
\* panics on a nil switch, because the deferred functions see a nil error.
EdgectlRun(n) ==
  /\ apc[n] = "run" /\ apc' = [apc EXCEPT ![n] = "cond"]
  /\ \/ ~Works(n) /\ Leaves(n, host[n], run[n].hub # "on") /\ UNCHANGED fails
     \/ Works(n) /\ Leaves(n, Done(host[n], aop[n]), TRUE) /\ UNCHANGED fails
     \/ /\ Works(n) /\ fails < MaxFails /\ fails' = fails + 1
        /\ \E h \in Interrupted(host[n], aop[n]) : Leaves(n, h, FALSE)
  /\ UNCHANGED <<storeVars, kcm, mgrVars, acache, anode, aop, abefore,
                 faults, relabels, flips, approved, applied, skipped, held>>

\* Slips of RunCondition: the generation of the object when the condition is written, and a
\* run that reports success whatever it did.
LateCondition(n) ==
  [status |-> IF run[n].ok THEN "True" ELSE "False",
   reason |-> ReasonOf(aop[n]),
   og     |-> IF run[n].ok THEN yc.gen ELSE 0]

OptimisticCondition(n) ==
  [status |-> "True", reason |-> ReasonOf(aop[n]), og |-> run[n].gen]

\* The condition of a failed run has no observedGeneration.
RunCondition(n) ==
  [status |-> IF run[n].ok THEN "True" ELSE "False",
   reason |-> ReasonOf(aop[n]),
   og     |-> IF run[n].ok THEN run[n].gen ELSE 0]

\* A slip: a patch that replaces the map of conditions.
ConditionsReplaced(n) ==
  [yc EXCEPT !.conds = [m \in Nodes |-> IF m = n THEN RunCondition(n) ELSE NoCondition]]

\* The patch carries the node's own entry of status.nodeConditions.
ConditionPatched(n) == [yc EXCEPT !.conds[n] = RunCondition(n)]

\* The deferred condition patch.  The script drops edgectl's exit code, so the agent goes on
\* the same way whether the patch went through or not.
EdgectlCond(n) ==
  /\ apc[n] = "cond" /\ apc' = [apc EXCEPT ![n] = "patch"]
  /\ \/ /\ yc.exists /\ yc' = ConditionPatched(n)
        /\ unrecorded' = [unrecorded EXCEPT ![n] = FALSE] /\ UNCHANGED faults
     \/ ~yc.exists /\ UNCHANGED <<yc, unrecorded, faults>>
     \/ Fault /\ UNCHANGED <<yc, unrecorded>>
  /\ UNCHANGED <<nodes, tpls, tunnelUp, hostVars, mgrVars, acache, anode, aop, abefore,
                 run, fails, relabels, flips, approved, applied, skipped, held>>

\* A slip: the label is set to the node's type instead of to whether it is an edge node.
DressedByType(dress, type) ==
  IF type = "NormalNode" THEN Undressed
  ELSE [dress EXCEPT !.edge = type, !.taint = @ \/ type = "EdgeNode"]

\* The label and taints a node type stands for.
Dressed(dress, type) ==
  CASE type = "CloudNode" -> [dress EXCEPT !.edge = "false"]
    [] type = "EdgeNode"  -> [dress EXCEPT !.edge = "true", !.taint = TRUE]
    [] OTHER              -> Undressed

NodePatched(n) ==
  LET old == abefore[n]
      new == Dressed(old, aop[n])
  IN  [nodes[n] EXCEPT !.edge = Merged(old.edge, new.edge, @),
                       !.taint = Merged(old.taint, new.taint, @)]

AgentReturns(n) ==
  /\ apc' = [apc EXCEPT ![n] = "idle"] /\ aop' = [aop EXCEPT ![n] = "NormalNode"]
  /\ run' = [run EXCEPT ![n] = NoRun]

\* The deferred patch of the Node ends every pass.
AgentNodePatch(n) ==
  /\ apc[n] = "patch" /\ AgentReturns(n)
  /\ abefore' = [abefore EXCEPT ![n] = Undressed]
  /\ \/ nodes' = [nodes EXCEPT ![n] = NodePatched(n)] /\ UNCHANGED faults
     \/ /\ Dressed(abefore[n], aop[n]) # abefore[n]
        /\ Fault /\ UNCHANGED nodes
  /\ UNCHANGED <<yc, tpls, tunnelUp, hostVars, mgrVars, acache, anode, fails, relabels, flips, historyVars>>

\* The agent, and the edgectl it runs, die in a pass; whatever edgectl had done by then stays.
AgentCrash(n) ==
  /\ apc[n] # "idle" /\ Fault /\ AgentReturns(n)
  /\ abefore' = [abefore EXCEPT ![n] = Undressed]
  /\ \E h \in IF apc[n] = "run" /\ Works(n) THEN Interrupted(host[n], aop[n]) ELSE {host[n]} :
       /\ host' = [host EXCEPT ![n] = h]
       /\ unrecorded' = [unrecorded EXCEPT ![n] = @ \/ h # host[n]]
  /\ acache' = [acache EXCEPT ![n] = View(yc, n)] /\ anode' = [anode EXCEPT ![n] = nodes[n]]
  /\ UNCHANGED <<storeVars, kcm, mgrVars, fails, relabels, flips, approved, applied, skipped, held>>

----------------------------------------------------------------------------
(* The user and the cluster around *)

\* `kubectl label node'
UserLabels(n, l) ==
  /\ relabels < MaxRelabels /\ relabels' = relabels + 1
  /\ l # nodes[n].label
  /\ nodes' = [nodes EXCEPT ![n].label = l]
  /\ UNCHANGED <<yc, tpls, tunnelUp, hostVars, mgrVars, agentVars, faults, fails, flips, historyVars>>

\* The node's Ready condition flips.
NodeFlips(n) ==
  /\ flips < MaxFlips /\ flips' = flips + 1
  /\ nodes' = [nodes EXCEPT ![n].ready = ~@]
  /\ UNCHANGED <<yc, tpls, tunnelUp, hostVars, mgrVars, agentVars, faults, fails, relabels, historyVars>>

\* `kubectl edit', which a deleted object that still has its finalizer accepts as well.
UserUpdates(s) ==
  /\ yc.exists /\ yc.gen < MaxGen /\ s # yc.spec
  /\ yc' = [yc EXCEPT !.spec = s, !.gen = @ + 1]
  /\ UNCHANGED <<nodes, tpls, tunnelUp, hostVars, mgrVars, agentVars, boundVars, historyVars>>

\* `kubectl delete': the deletion timestamp is a new generation.
UserDeletes ==
  /\ Deletable /\ yc.exists /\ ~yc.deleting
  /\ yc' = IF yc.finalizer THEN [yc EXCEPT !.deleting = TRUE, !.gen = @ + 1] ELSE NoCluster
  /\ held' = {n \in Nodes : yc.conds[n] # NoCondition}
  /\ UNCHANGED <<nodes, tpls, tunnelUp, hostVars, mgrVars, agentVars, boundVars,
                 approved, applied, skipped, unrecorded>>

----------------------------------------------------------------------------

\* Everything of one pass but the crash: at each point of it one of these is enabled.
MgrPass == MgrStart \/ MgrApply \/ MgrDelete \/ MgrStatus \/ MgrPatch \/ MgrPatchStatus

AgentPass(n) ==
  \/ AgentFail(n) \/ AgentDone(n) \/ AgentStart(n)
  \/ EdgectlRead(n) \/ EdgectlRun(n) \/ EdgectlCond(n) \/ AgentNodePatch(n)

Manager ==
  \/ MgrSyncYC \/ (\E n \in Nodes : MgrNodeEvent(n))
  \/ MgrPass \/ MgrCrash

Agent(n) ==
  \/ AgentSyncYC(n) \/ AgentNodeEvent(n)
  \/ AgentPass(n) \/ AgentTears(n) \/ AgentCrash(n)

Environment ==
  \/ \E n \in Nodes : NodeFlips(n) \/ (\E l \in Labels : UserLabels(n, l))
  \/ \E s \in UpdateSpecs : UserUpdates(s)
  \/ UserDeletes

Next == Manager \/ (\E n \in Nodes : Agent(n)) \/ Environment

Spec == Init /\ [][Next]_vars

(***************************************************************************)
(* Informers eventually deliver, every kubelet's heartbeat eventually      *)
(* queues a pass, and a pass that has begun goes on, because its polls and *)
(* API calls time out.  Nothing is assumed of users, nodes and faults.     *)
(***************************************************************************)
Fairness ==
  /\ WF_vars(MgrSyncYC) /\ WF_vars(MgrPass)
  /\ \A n \in Nodes :
       /\ WF_vars(MgrNodeEvent(n))
       /\ WF_vars(AgentSyncYC(n)) /\ WF_vars(AgentNodeEvent(n)) /\ WF_vars(AgentPass(n))

FairSpec == Spec /\ Fairness

----------------------------------------------------------------------------
(* Properties *)

\* Every variable has the type its declaration says.
TypeOK ==
  /\ yc \in Clusters /\ nodes \in [Nodes -> NodeObjects]
  /\ tpls \subseteq Runs!Templates /\ tunnelUp \in BOOLEAN
  /\ host \in [Nodes -> Hosts] /\ kcm \in [Nodes -> Manifests]
  /\ mcache \in Clusters /\ mlabels \in [Nodes -> Labels]
  /\ mpc \in {"idle", "apply", "delete", "status", "patch", "patchStatus"}
  /\ mread \in Clusters /\ mold \in FieldSets /\ mnew \in FieldSets
  /\ mresult \in {"ok", "error", "panic"}
  /\ acache \in [Nodes -> Views] /\ anode \in [Nodes -> NodeObjects]
  /\ apc \in [Nodes -> {"idle", "read", "run", "cond", "patch"}]
  /\ aop \in [Nodes -> NodeTypes]
  /\ abefore \in [Nodes -> [edge : {"none", "true", "false"}, taint : BOOLEAN]]
  /\ run \in [Nodes -> [gen : Nat, hub : Switches, ok : BOOLEAN]]
  /\ faults \in Nat /\ fails \in Nat /\ relabels \in Nat /\ flips \in Nat
  /\ approved \in Nat /\ applied \in Nat /\ skipped \in BOOLEAN /\ held \subseteq Nodes
  /\ unrecorded \in [Nodes -> BOOLEAN]

\* yurt-hub is gone and kubelet goes to the API server again.  A node that had no
\* kubeadm-flags.env has no backup to restore, so nothing is said of its kubelet.
HostReverted(n) == host[n].hub = "none" /\ (n \in FlagsEnv => ~ThroughHub(host[n]))

\* A condition that is True for the current generation tells the truth about the host: the
\* node runs the yurt-hub of the type it names and kubelet goes through it, or yurt-hub is
\* gone.  The exceptions are a run not recorded yet and a type whose yurt-hub is not on.
ConditionTruth ==
  \A n \in Nodes :
    LET c == yc.conds[n] IN
    (yc.exists /\ c.status = "True" /\ c.og = yc.gen /\ ~unrecorded[n]) =>
      CASE c.reason = "NodeRevert"       -> HostReverted(n)
        [] c.reason = "CloudNodeConvert" ->
             yc.spec.cloudHub = "on" => host[n].hub = "CloudNode" /\ ThroughHub(host[n])
        [] c.reason = "EdgeNodeConvert"  ->
             yc.spec.edgeHub = "on" => host[n].hub = "EdgeNode" /\ ThroughHub(host[n])

\* No host, manifest or Node was touched for an object that nobody approved: as long as it
\* has no finalizer it may disappear at once, and nothing would be reverted.
TouchedOnlyWhenApproved ==
  yc.exists /\ ~yc.finalizer =>
    /\ tpls = {} /\ ~tunnelUp
    /\ \A n \in Nodes : /\ host[n] = InitialHost(n) /\ kcm[n] \in InitialManifests(n)
                        /\ ~nodes[n].taint

\* The object goes only after a pass has deleted yurt tunnel's workloads, unless the last pass
\* to try took a failed lookup for their absence.
TunnelGone == ~yc.exists => ~tunnelUp \/ skipped

\* No edit of the user's changes which nodes the object selects.
SelectionKept ==
  \A s, t \in InitialSpecs \cup UpdateSpecs :
    s.cloudNodes = t.cloudNodes /\ s.edgeNodes = t.edgeNodes

\* A node that had a condition when the object was deleted holds the object back until its host
\* is reverted, unless somebody selected or labelled it away and back meanwhile: a reversal that
\* was decided before the deletion counts for it, and the agent may be converting again.
HeldUntilReverted ==
  SelectionKept /\ ~yc.exists /\ relabels <= 1 => \A n \in held : HostReverted(n)

\* The node lifecycle controller is off on every control-plane node with a True condition for a
\* conversion, and when the object is gone it is back on the nodes that held it, unless a label or
\* an edit of the selectors changed a node's type meanwhile: a reversal that this decided counts
\* for the deletion, and its pass leaves the controller off.  Entries that were explicit in the
\* manifest decide before the ones the agent adds, and a manifest that an agent tore stays torn.
ManifestFollows ==
  \A n \in HasManifest :
    \/ kcm[n].form = "torn" \/ Mentions(kcm[n].controllers, "nodelifecycle")
    \/ /\ /\ yc.exists /\ ~yc.deleting
          /\ yc.conds[n].status = "True" /\ yc.conds[n].reason # "NodeRevert"
          => ~LifecycleRuns(kcm[n])
       /\ SelectionKept /\ ~yc.exists /\ n \in held /\ relabels = 0 => LifecycleRuns(kcm[n])

\* status.observedGeneration never moves back, and never names a generation to come, although
\* it is written from snapshots that are behind the object.
ObservedGenerationMonotonic ==
  [][yc.exists /\ yc'.exists => yc.obsGen <= yc'.obsGen /\ yc'.obsGen <= yc'.gen]_vars

\* Once a generation is newer than the last one that was approved, the phase Succeed together
\* with its observedGeneration means that all its manifests were applied, but for a clean-up
\* of yurt tunnel that took a failed lookup for absence.
SucceedMeansApplied ==
  yc.exists /\ ~yc.deleting /\ yc.phase = "Succeed" /\ yc.obsGen = yc.gen /\ yc.gen > approved
    => applied = yc.gen \/ skipped

\* The host is what the node's current label and the current spec ask for.
Settled(n) ==
  LET type == GetNodeType(n, nodes[n].label, yc.spec)
  IN  IF type = "NormalNode" THEN host[n].hub = "none"
      ELSE HubSwitch(type, yc.spec) = "on" => host[n].hub = type /\ ThroughHub(host[n])

\* The three writers of the status keep out of each other's fields, although each computes its
\* patch from a snapshot of its own: a node's condition changes only when that node's edgectl
\* writes it, phase and observedGeneration only when the manager does.
StatusWritersSeparate ==
  [][yc.exists /\ yc'.exists =>
       /\ \A n \in Nodes : yc'.conds[n] # yc.conds[n] => apc[n] = "cond"
       /\ yc'.phase # yc.phase \/ yc'.obsGen # yc.obsGen => mpc = "patchStatus"]_vars

\* When label, spec and readiness changes are over, an object that is not deleted and whose nodes
\* are ready ends in phase Succeed for its last generation with every host as asked for, whatever
\* runs failed on the way.
Converges ==
  <>[](yc.exists /\ ~yc.deleting /\ (\A n \in Nodes : nodes[n].ready) =>
         /\ yc.phase = "Succeed" /\ yc.obsGen = yc.gen
         /\ \A n \in Nodes : Settled(n))

\* A deleted object goes, once the template that names yurt tunnel's objects is there, unless an
\* agent has torn a manifest, which no later pass gets over.
DeletionCompletes ==
  yc.exists /\ yc.deleting /\ "yurttunnel" \in tpls
    ~> ~yc.exists \/ \E n \in Nodes : kcm[n].form = "torn"
=============================================================================
