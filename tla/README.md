# A TLA+ verification of openyurt-operator

openyurt-operator turns a Kubernetes cluster into an OpenYurt cluster and back. A user creates one
`YurtCluster` object named `cluster`; a **manager** installs what runs once per cluster, an **agent**
on every node converts its own node with **edgectl**, and both report in the object's status. This
directory models that program in TLA+, checks it with TLC and proves part of it with TLAPS. Paths
below are relative to the repository.

## 1. Inventory

| component | source | state it keeps | operations |
|---|---|---|---|
| YurtCluster API and node decisions | `api/v1alpha1`, `pkg/controllers/util/util.go` | the object: finalizer, deletion timestamp, generation, spec, status (observedGeneration, phase, one condition per node) | `GetNodeType`, `IsNodeConvertOrRevertCompleted`, `Complete` |
| Manager reconciler | `pkg/controllers/manager` | none but its informer caches | approve (finalizer and defaults), apply, delete, sum up the status, label control-plane nodes |
| Agent reconciler | `pkg/controllers/agent` | none but its informer caches | edit the controller-manager manifest, run edgectl, label and taint its Node |
| edgectl | `cmd/edgectl/app/cmd` | four files on the host: yurt-hub's manifest, `kubeadm-flags.env`, a backup of each | `convert`, `revert`, both ending in a patch of the node's condition |
| Patch helper | `pkg/patcher` | the object before and after a pass | merge patch of metadata and spec, then of the status |
| Yurt tunnel objects | manager, `pkg/util/kubernetes.go` | Deployment, DaemonSets, Services, ConfigMap, RBAC objects, and yurt-hub's rule in a ClusterRole and its binding | apply, delete, skip when annotated, read and update |
| Template ConfigMaps | `pkg/templates` | three ConfigMaps | load; edgectl and the agent's script come out of them |
| Manifest edit | `pkg/util/file.go` | `kube-controller-manager.yaml` | enable or disable the nodelifecycle controller |
| kubelet discovery | `cmd/edgectl/app/util`, `pkg/util/system.go` | none | find kubelet's kubeconfig and the API server's address |
| `kubeadm-flags.env` rewriting | `convert.go:344-404` | one line of a file | replace or append two flags |
| clients, options, entry points, predicates, generated code, charts | the rest | none | wiring |

How they interact. All processes share the API server and nothing else. Manager and agents read it
through informer caches that lag and may skip versions; edgectl reads it directly. All three write
it with **merge patches computed from the snapshot they started with, without a resourceVersion**, so
no write ever fails on a conflict: whether two writers hurt each other depends on which fields differ
between a snapshot and what a pass made of it. The deferred functions carry much of the meaning:
the manager's status step and patches, edgectl's condition patch and the agent's Node patch run
whatever the pass returned, even while a panic unwinds.

What is hard, and the property that speaks of it:

| component | what makes it correct | property |
|---|---|---|
| manager | its observedGeneration, from a stale snapshot, never runs backwards or ahead | `ObservedGenerationMonotonic` |
| manager | phase Succeed claims no more than was applied | `SucceedMeansApplied` |
| manager | the finalizer is not released before yurt tunnel is gone | `TunnelGone` |
| manager, call by call | it ends with the objects, replicas and RBAC rules that the spec and the control plane ask for | `Deploys` |
| manager, call by call | what users edit and mark, and what others write into RBAC objects, it leaves alone | `EditsSurvive`, `OthersKeepTheirs` |
| manager, call by call | a pass that succeeds has done everything, whichever call of it fails | `PassesAsSeen` |
| agents | no node is touched for an object that could vanish unnoticed | `TouchedOnlyWhenApproved` |
| agents of the control plane | the node lifecycle controller is switched with the conversion | `ManifestFollows` |
| manager with agents | a deletion waits for the nodes it has to wait for | `HeldUntilReverted`, `DeletionCompletes` |
| edgectl | a True condition of the current generation describes the host | `ConditionTruth` |
| edgectl with the agent's script | a failed run is tried again until the node is converted | `Converges` |
| edgectl | whatever fails or dies, the backup stays the original and the rollbacks bring it back | `BackupIsOriginal`, `FlagsSurvive` |
| edgectl | yurt-hub is there for as long as kubelet goes through it | `KubeletHasHub` |
| kubelet discovery | a second conversion does not take yurt-hub for the API server it is to connect to | `HubFindsServer` |
| edgectl | a run is all or one of a few known cuts, which is how the rest of the system sees it | `RunsAsPromised` |
| patch helper | three kinds of writers of one status do not overwrite each other | `StatusWritersSeparate` |

## 2. Modules

| module | extends | is |
|---|---|---|
| `YurtCluster` | | operators: the object and the decisions taken from it |
| `NodeHost` | | operators: the files of a host and what a run of edgectl leaves of them |
| `NodeLifecycle` | | operators: the `--controllers` entries of kube-controller-manager's manifest |
| `KubeadmFlags` | | operators: the line of `kubeadm-flags.env` |
| `KubeletDiscovery` | `KubeadmFlags` | operators: the API server's address out of kubelet's command line |
| `YurtOperator` | `YurtCluster`, `NodeHost`, `NodeLifecycle` | state machine: API server, manager, agents, users |
| `HostRuns` | `NodeHost` | abstract state machine: edgectl as the rest of the system sees it |
| `Edgectl` | `NodeHost`, `KubeletDiscovery` | state machine: edgectl on one host; implements `HostRuns` |
| `ManagerRuns` | | abstract state machine: the manager's passes over the cluster as the rest of the system sees them |
| `ManagerPass` | | state machine: the manager's passes call by call; implements `ManagerRuns` |
| `DocumentedClaims`, `EdgectlClaims` | the state machines | claims the code does not keep |
| `YurtOperatorProofs` and on top of it `AppliedProofs`, `TruthProofs`, `DeletionProofs`, `ManifestProofs`; `KubeadmFlagsProofs` and on top of it `EdgectlProofs`; `ManagerPassProofs` | the state machines, `TLAPS` | theorems |
| `MCYurtOperator`, `MCEdgectl`, `MCManagerPass` | the claims or the state machine | small instances for TLC |

YurtOperator takes what it does not detail from the abstract specifications: a run of edgectl from `NodeHost`
(as `HostRuns` does), and a pass over templates and yurt tunnel from `ManagerRuns` (`Runs`). `Edgectl` and
`ManagerPass` show step by step that the code does no more than that.

**YurtCluster** has the object as a record (`gen` is metadata.generation, `obsGen` is
status.observedGeneration, `conds` is status.nodeConditions, `og` a condition's observedGeneration) and
`GetNodeType`, `IsNodeConvertOrRevertCompleted`, `Complete` with the names of the code. An `Enabled
*bool` has three values; nil matters, because only the approving pass fills the defaults in.

**NodeHost** says what one run of edgectl leaves of the four files: `Converted` and `Reverted` when it
does what its command says, `Interrupted` when an error or the end of the process cuts it short, torn
writes and rollbacks (`HubRolledBack`, `KubeletRolledBack`) included. A backup of the flags is taken
once and never replaced; a rollback of the hub restores whatever backup there is, an older run's
included.

**NodeLifecycle** is `kube-controller-manager.yaml` as the agent edits it (`pkg/util/file.go:80-212`):
disabling appends `-nodelifecycle`, enabling removes it where a comma precedes it, whoever wrote it.
`LifecycleRuns` is what kube-controller-manager makes of the list, in which the first entry decides.
Every pass of an agent on a control-plane node begins with this edit.

**YurtOperator** is the system. Its actions are the atomic steps between which the program can be
interrupted:

| actions | code |
|---|---|
| `MgrSyncYC`, `MgrNodeEvent` | the informers; the map function labels a control-plane node (manager `:409-438`) |
| `MgrStart`, `MgrApply`, `MgrDelete` | the body of `Reconcile` (`:62-119`), `reconcile` and `reconcileYurtTunnelDelete`, each of these two a step of `ManagerRuns` |
| `MgrStatus`, `MgrPatch`, `MgrPatchStatus` | the deferred `reconcileStatus` (`:374`), whose listing of the nodes may fail, `Helper.Patch` (`pkg/patcher/patch.go`) |
| `AgentSyncYC`, `AgentNodeEvent` | the agent's informers |
| `AgentFail`, `AgentDone`, `AgentStart` | the three ways a pass (`agent :61-187`) goes before or instead of a command, after the edit of the manifest (`kcm`) |
| `AgentTears` | the edit's write in place is cut short |
| `EdgectlRead`, `EdgectlRun`, `EdgectlCond` | `runConvert` and `runRevert`: read the object, work on the host, patch the condition |
| `AgentNodePatch` | the deferred Node patch (`agent :97-103`) |
| `MgrCrash`, `AgentCrash` | a process dies in a pass; the next one lists anew |
| `UserUpdates`, `UserDeletes`, `UserLabels`, `NodeFlips` | the environment |

`mread` is the snapshot of a pass, `mold` and `mnew` the fields its patches compare. History
variables (`approved`, `applied`, `skipped`, `held`, `unrecorded`) appear in no guard. Definitions whose
comment says "a slip" (`SummedRegardless`, `LateCondition`, ...) are plausible wrong versions of
the definition next to them; nothing uses them but the experiments of PROJECT.json, which put one in the
place of the right definition and expect the named property to break.

**Edgectl** is one host on which runs of edgectl follow one another, each `pc` an operation of the code:

| actions | code |
|---|---|
| `HubSame`, `HubSave`, `HubWrite`, `HubCheck` | `setupYurtHub`: compare, back up, write, poll (`convert.go:228-282`) |
| `HubRemove`, `HubRestore` | its deferred function (`:253-267`) |
| `FlagsSave`, `FlagsWrite`, `Restart`, `KubeletCheck` | `setupKubelet`: back up once, rewrite, restart, poll (`:284-420`) |
| `KubeletUndo`, `UndoRestart` | its deferred function (`:317-342`) |
| `RevertSave`, `FlagsRestore`, `RevertUndo`, `HubDelete` | `revertKubelet`, its deferred function, `removeYurtHub` (`revert.go:143-207`) |
| `Begin`, `End` | the command and its return |
| `Dies`, `KubeletRestarts` | the process is killed, in the middle of a write if it was in one; somebody else restarts kubelet |

`undo` names the deferred function that is registered at that point, which is what makes a late
registration (`HubSameUndone`) visible. `before` is the temporary copy of a reversal. A poll that times
out is counted in `timeouts`; an operation that fails and a death in `breaks`. Errors before the first
write leave the host alone and are not steps. Manifests are told apart by node type only: one with a
changed image behaves as one of another type does.

**KubeadmFlags** is `setupKubelet`'s rewriting of the line (`convert.go:344-404`) as a function on the
sequence of its flags, and what kubelet makes of a line (of several flags of one name, the last).

**KubeletDiscovery** is how a conversion finds the API server (`cmd/edgectl/app/util/util.go`): a greedy expression
over the command line of the running kubelet, whose match counts only if it is a single flag, and the
kubeconfig that flag names or the default. The flags that kubeadm's unit puts in front (`Unit`) are outside
this repository.

**HostRuns** is the abstract specification of edgectl: every run is one step, `Done` or `Interrupted`.
`Edgectl` implements it, with the host as it was when the run began for as long as it lasts.
YurtOperator takes its runs from the same operators.

**ManagerPass** has the manager's passes call by call. `todo` holds the calls that are left, each with the group
(trans, yurt-hub, tunnel) whose error skips the rest of that group only:

| actions | code |
|---|---|
| `Begin`, `End`, `Panic` | a pass over the cached object, the aggregated error, the nil switch |
| `Look` | `ShouldSkip` (`pkg/util/kubernetes.go:182`), before every apply and delete; an error of it says "not marked" |
| `LookAgain`, `DeleteObject` | `Delete` (`:149`): the mapping, the lookup whose error says "gone", the call |
| `Patch` | `Apply` (`:88`) |
| `Load` | `LoadTemplate` and `GetControlPlaneSize`, which is 0 when the list fails |
| `Read`, `Update` | the ClusterRole and ClusterRoleBinding of yurt-hub (manager `:180-231`), written with the resourceVersion they were read with |
| `Crash` | the manager dies; its successor lists anew |
| `SeeYC`, `SeeNodes` | the informers |
| `UserEdits`, `UserRemoves`, `OthersGrant`, `UserUpdates`, `UserDeletes`, `Released`, `Resize` | users, other writers, the rest of the operator, the control plane |

`fresh` says that nobody has written the object of the current call since it was looked up; for the RBAC objects it
is the resourceVersion, for the others it appears in no guard. The refinement `PassesAsSeen` maps a pass that is under way to what it found (`before`), so that it
takes effect with its end; a pass that died returned "none". `wanted` is the server's switch: in YurtOperator
one switch stands for server and agent, and `up` says that some workload of the two exists. In
the specs of the `tunnel` run the two agree, but where a nil server panics before the agent's is read.

**ManagerRuns** is the abstract specification of these passes: which templates are there and whether workloads of yurt tunnel exist
after a pass, for each of its results. Workloads that a successful clean-up left, because a lookup failed or a
user had marked them, set `missed`.

**DocumentedClaims** and **EdgectlClaims** hold sentences of the repository that TLC refutes, each quoted.

The modules that end in **Proofs** hold the theorems of section 5.

## 3. What the runs check

`edgectl` and `claim_reconnect` instantiate `MCEdgectl`, `tunnel` `MCManagerPass`, the others `MCYurtOperator`.
Sizes are distinct states.

| run | instance | shows |
|---|---|---|
| `lifecycle` (744k) | one node, labels edge and plain, deletion, one relabel | `TouchedOnlyWhenApproved`, `HeldUntilReverted` |
| `faults` (657k) | a node that is not selected, tunnel switched on and off, deletion, 2 faults, generation up to 3 by edits | `TunnelGone`, `SucceedMeansApplied`, `ObservedGenerationMonotonic` |
| `updates` (918k) | an edge node, yurt-hub switched on, 1 fault, 1 readiness flip | `ConditionTruth` |
| `two_nodes` (88k) | a control-plane node by name and excluded from the edge set, an edge node by label | `TypeOK`, `StatusWritersSeparate` |
| `converges` (328k) | an edge node, one failing run, one relabel, fairness | `Converges` |
| `deletion` (152k) | a control-plane node deleted at any point, its manifest with the `--controllers` flag, without it or naming the controller, torn at any edit; fairness | `ManifestFollows`, `DeletionCompletes` |
| `edgectl` (699k) | any sequence of conversions and reversals of one host from five original lines, 2 timeouts, 2 failures, torn writes or deaths | `TypeOK`, `BackupIsOriginal`, `FlagsSurvive`, `KubeletHasHub`, `HubFindsServer`, `RunsAsPromised` |
| `tunnel` (332k) | server and agent on, switched off, to a public IP or the server to nil; 1 or 3 control-plane nodes; users edit and mark the Deployment and the ConfigMap and remove the Service; others write the RBAC objects; 2 such moves, 1 fault; fairness | `TypeOK`, `EditsSurvive`, `OthersKeepTheirs`, `PassesAsSeen`, `Deploys` |
| `claim_observed` | the tunnel's switch is cleared | *violation*: a pass that panicked records observedGeneration |
| `claim_delete_hosts` | deletion during the first conversion | *violation*: the object goes, the host stays converted |
| `claim_manifest` | a control-plane node without the manifest, fairness | *violation*: it is not skipped, the agent fails for ever |
| `claim_reconnect` | a reversal dies before it restarts kubelet | *violation*: the next one succeeds, and kubelet still goes through the yurt-hub it removed |

**Bounds.** `MaxGen` bounds user edits only (approval and deletion raise the generation on top of
it); `MaxFaults`, `MaxFails`, `MaxRelabels` and `MaxFlips` bound how often the environment misbehaves.
Torn manifests need no bound, because a torn one stays as it is. Nothing else is bounded: passes repeat for ever and the state space is finite without further
constraints. One node is enough for most questions because agents interact only through the
manager's sum over all nodes and through patches of one object: the first is a conjunction over nodes,
and the second is what `two_nodes` is for. Three generations are enough for a stale snapshot to be two
edits behind; two faults for a pass that fails and a retry that is cut off. On a host two breaks are a run that is cut
off and a second whose rollback is, and two timeouts are a timeout in two runs of different commands; the
number of runs has no bound. In `tunnel`, `MaxMoves` bounds what users, other writers and nodes do together and `MaxFaults`
failed calls and crashes: two moves are an edit between a lookup and its write and one more, or a switch off and back while a pass of the first is under way;
the sizes 1 and 3 lie below and above the server count 2 that the spec asks for; `Editable` has an object that its
manifest marks and one that it does not, with replicas; what is removed is a Service, because users who remove workloads themselves
do the clean-up in the operator's place. Where a question
does not need a dimension its run closes it (no relabels in `faults`, no deletion in `updates`), and
the dimension is open in another run.

**Fairness** (`Fairness`, used by `converges`, `deletion` and `claim_manifest` only). Weak fairness of
the informers: a watch eventually delivers. Weak fairness of the passes of the manager and of each agent:
kubelet's heartbeat changes its Node, which queues a pass through the map function
(`NodeToYurtClusterMapFunc`), and a pass that has begun goes on because its polls and API calls time out.
A pass is fair as a whole, `MgrPass` and `AgentPass(n)`, since exactly one of its steps is enabled
at each point but for the choice among results. Nothing is assumed of users, node readiness, faults
or failing runs, so the liveness properties hold for the behaviours in which those stop, which
their bounds make all of them; `Converges` says that from some point on, whenever the object is there, is
not being deleted and its nodes are ready, each of them is as it should be. `ManagerPass` assumes the same of `Pass` and
of its two informers, for `Deploys`.

**Exceptions that properties state**, each of them a behaviour of the code found by weakening the
property until it held:

- `SucceedMeansApplied` only speaks of generations later than the last approval. The defaulting
  patch raises the generation itself, and a pass over an old cached copy may approve again. It
  also excepts `skipped`: `Delete` (`pkg/util/kubernetes.go:172`) takes every error of its lookup for
  "not found".
- `TunnelGone` has the same exception: with one failed lookup the object goes and the workloads stay, although the code only
  means to tolerate an object that "maybe has been deleted already" (`:173`). `ManagerRuns` has it as
  `AppliedButMissed` and `CleanedButMissed`.
- `HeldUntilReverted` speaks of edits that keep the selection (`SelectionKept`) and at most one change of a label. A
  condition carries the generation that edgectl read, not the one its agent decided on. When a node is deselected and
  selected again, by label or by spec, right before the deletion, the reversal decided in between may read the deleted object and count
  for it, while the agent, whose cache still has the version before the deletion, converts the node again.
- `ManifestFollows` excepts manifests that name `nodelifecycle` themselves, which decides before the entry the agent appends, torn ones, nodes
  that had no condition when the object was deleted, and nodes that changed their type, by label or by an edit of the
  selectors: a pass over an object that is not deleted disables the controller even when the node is deselected, and the
  reversal it decides counts for the deletion.
- `DeletionCompletes` excepts a torn manifest: every later pass of that node's agent fails on it, and there is no backup.
- `EditsSurvive` excepts a lookup of the mark that failed, and a user who writes between the lookup and the write: patch
  and delete carry no resourceVersion.
- `Deploys` leaves what users marked to them, and two objects that their own manifests mark: the
  internal service stays when the server is off, and templates are never updated once they are there.
- `ConditionTruth` excepts hosts whose last change was not recorded (`unrecorded`), and types whose hub
  is switched off: switching it off records success and leaves a running yurt-hub in place.
- `HostReverted` says nothing of kubelet where kubeadm left no `kubeadm-flags.env`: there is no
  backup to restore, and kubelet stays configured for the yurt-hub that is removed.
- `Converges` is checked without faults. With one crash it fails: a stale pass may run edgectl again
  on a converted host, and a crash in its rollback leaves the host behind a True condition that
  nobody doubts.

## 4. Assumptions and what is left out

- Work queues: every event, heartbeat and error queues the one request, so a pass may begin at any
  time; the queue and its back-off are not modelled.
- One manager pass at a time (leader election, one worker), one agent per node.
- The API server is one atomic store; an informer cache holds some version and moves forward only.
  Reads of a started informer's cache do not fail, but for the two lists of nodes whose errors the code handles (`reconcileStatus`,
  `GetControlPlaneSize`).
- The set of nodes is fixed. A nil selector selects nothing, as in the sample manifest's absence.
- A manager that panics is recovered or restarted; both leave the object as its deferred
  functions left it, and a restart differs from `MgrCrash` in nothing.
- In YurtOperator yurt tunnel's server and agent share one switch, its objects are one flag, and nobody marks them with the
  skip-reconcile annotation; ManagerPass has them one by one. The server's service account, cluster role and cluster
  role binding are one object there, and users do not remove workloads.
- How many nodes have conditions and what else holds the finalizer is YurtOperator's matter: in ManagerPass a deleted object may go after any
  successful pass over it.
- NodePort discovery, certificates, images and versions are left out.
- `finalizers` and `taints` are lists, and a merge patch replaces a list; only the one element the
  system owns is modelled.
- The object is created once. Re-creation under the same name restarts generations at 1.
- In YurtOperator an edgectl run is one step on the host between its read of the object and its patch of
  the condition. Nothing of the system reads the host, and `RunsAsPromised` says that the outcomes of
  the step are those of the whole run, also when it is killed.
- A file is whole or truncated; file operations of a living process take effect in order, and a machine
  that loses writes it had acknowledged is not modelled. One run of edgectl at a time on a host.
- kubelet's pod manifest path and health port are found the way its kubeconfig is; they have no state and are left out.
- Not modelled: the text of the flags and of the manifests, client construction, options, generated code. PROJECT.json has the reason for each.

Things seen in the model or the code that no property covers (PROJECT.json, hazards): `Complete()` on
a stale copy may override an edit made meanwhile; a label patch that fails is never tried again; an
edge taint survives a change from edge to cloud; the manager's map function overwrites the label that the
agent of a control-plane node in the edge set wrote, although its comment says "if not exists".

## 5. What is proved

The theorems hold for every set of nodes, labels and specs and every bound, from the named assumptions
`NodesAssumption` (the special nodes are nodes, a manifest exists only on control-plane nodes), `ControllersAssumption` (the
starting manifests have known entries, `-nodelifecycle` at most once), `SpecsAssumption` (specs are specs) and `BoundsAssumption` (bounds are naturals);
those of EdgectlProofs for every set of original lines, from `OriginalsAssumption` (what kubeadm left does not already name yurt-hub's
kubeconfig); those of ManagerPassProofs for any specs, sizes and sets of editable objects, from
`SpecsAssumption`, `ObjectsAssumption` and `BoundsAssumption`. Three theorems need more, and say so:

- `SuccessIsApplied`: no edit clears yurt tunnel's switch (`UpdatesKeepSwitch`).
- `ManifestsFollow`: each starting list of controllers has a star and does not begin with `-nodelifecycle` (`ListsStarred`).
  kubeadm writes `*,bootstrapsigner,tokencleaner`, and the agent adds its entry behind a comma, which is where it looks for it
  again (`pkg/util/file.go:122`). A manifest without the flag is allowed.
- `PassesImplement`: in every spec the server's switch is nil or the agent's is the same (`SwitchesPaired`). `ManagerRuns` and
  YurtOperator have one switch for the two, so the implementation is only claimed of specs that have one. The `tunnel` run's specs are such.

| theorem | states | argument |
|---|---|---|
| `TypeCorrect` | `Spec => []TypeOK` | inductive as it stands, by one lemma per action |
| `UntouchedUnlessApproved` | `Spec => []TouchedOnlyWhenApproved` | `ApprovedInv`: every copy of the object in flight (`mcache`, `mread`, `acache`) is *behind* it (`Behind`: unless the object is gone it has at least the copy's generation, the finalizer and the deletion mark if the copy has them, and at the same generation the same deletion mark), and any pass beyond the finalizer test proves that the object had one. A stale copy without the finalizer cannot remove it, as a patch carries only differences (`Onward`). |
| `ObservedMonotonic` | `Spec => ObservedGenerationMonotonic` | `ObservedInv`: the observedGeneration of a snapshot is at most the object's, and one that a pass is about to patch (`InPass`) is either unchanged from its snapshot or at least the object's current one, because only the manager writes it, one pass at a time. |
| `TunnelGoesFirst` | `Spec => []TunnelGone` | `TunnelInv`: a pass that will release the finalizer has, in this pass or an earlier one of the same generation, deleted the workloads (`Cleaned`), and no pass that could bring them back is under way on a deleted object (`Deleted`). `Left` is the workload flag minus the lookups that were taken for absence. |
| `WritersSeparate` | `Spec => StatusWritersSeparate` | no invariant is needed beyond types: one case per action, and `Merged` keeps a field its patch does not carry. |
| `BackupKept` | `Spec => []BackupIsOriginal` | `BackupInv`: as long as there is no backup, the flags are what kubeadm left and no run is past the point of taking one (`FlagsPoints`), so the first backup is of the original. |
| `KubeletKeepsHub` | `Spec => []KubeletHasHub` | `HubInv`, on top of `BackupInv`: kubelet runs with the flags in the file but between a write and the restart after it; where kubelet, the file or the temporary copy names yurt-hub there is a manifest, or in the rollback a backup of one; a run that is about to remove the manifest has restored the original flags. |
| `TypesKept` (edgectl) | `Spec => []TypeOK` | `TypeInv`: the bound on the line is not inductive, since a line of the greatest length might grow; so each copy of the file is bounded as it is and once rewritten. Rewriting a second time adds nothing (`RewrittenLines`). |
| `FlagsKept` | `Spec => []FlagsSurvive` | `SurviveInv`, on top of `BackupInv`: where no write was cut off, the file and the temporary copy always have the flags that are no business of a run; an error leads only to operations of a rollback, so a run that ends well has its own write behind it. |
| `ServerFound` | `Spec => []HubFindsServer` | `UnitDecides`, with the types. |
| `RunsImplement` | `Spec => RunsAsPromised` | `RunInv`: at each operation the host is one of a few functions of `start`, the host with which the run began, so whatever ends the run is a step of `HostRuns`. Deaths and rollbacks are a case each. |
| `RewrittenLines` | a fact about operators: for a line of any length, what rewriting keeps, sets and adds | what a filter collects up to an index is by induction, made as a least counterexample among the indices; every flag of the result comes from the line or is one of the two. |
| `UnitDecides` | a fact about operators: for every line, `APIServerAddress` is the API server's | the first `--kubeconfig` is the one of kubeadm's unit, so a match that is a single flag is that one; if the line moves the end of the match further on, it is none and the default counts. Both name the API server. |
| `SuccessIsApplied` | `Spec => []SucceedMeansApplied` | `SwitchInv`: once the object is approved its switch is not nil in any copy in flight, because a patch carries it only from nil to a default. `AppliedInv`: what a status patch is about to claim of a generation newer than the last approval was applied for that generation; a pass that gets to its status step without an error applied what it read, or approved it. |
| `ConditionsTrue` | `Spec => []ConditionTruth` | `TruthInv`: a run knows the spec of the generation it stamps (`RunKnows`), no condition is of a generation to come, and within a generation the spec stays (`SpecSteps`); a backup of the flags is never of a rewritten line (`BackupKept`), so a reversal takes kubelet off yurt-hub. |
| `DeletionHeld` | `Spec => []HeldUntilReverted` | `DeletionInv`: conditions do not vanish (`CondsInv`), and a node that was selected once and no longer is has used up the one label change (`LabelInv`). So when any copy in flight shows a node reverted for the deleted object (`Released`), its host is reverted, a run that is under way reverts it again, and its agent has seen the deletion or the final label (`StaysReverted`). After the release the runs under way can only revert. The property has `SelectionKept` as a premise; that depends on the constants only, so its failing makes the property true. |
| `ManifestsFollow` | `Spec => []ManifestFollows` | `ListsInv`: no list has two of the agent's entries, and none begins with one, so that enabling undoes disabling. `OffInv`: where a node has a condition, or its agent is past the edit, the controller is off until the deletion. `UnrecordedInv`: no conditions before the approval. `OnInv`: the pass whose reversal releases the object has seen the deletion and enabled the controller, and so has every later one. |
| `UsersKeepEdits` | `Spec => EditsSurvive` | `Inv`: while nobody else has written the object of the current call, it is not marked (`Looked`). |
| `RulesOfOthersKept` | `Spec => OthersKeepTheirs` | the same invariant: the copy that is written back is what is there. |
| `TypesKept` (manager) | `Spec => []TypeOK` | `TypeInv`: what is left of a pass are calls of a plan, each on an object that fits it. |
| `PassesImplement` | `Spec => PassesAsSeen` | `PassInv`: what is left of a pass is the end of an ordered plan (`PlanInv`: templates before yurt-hub before yurt tunnel, yurt tunnel's template loaded before its objects, nothing twice). So before the first workload is touched, its template is there; and what the pass was to do with templates (`TemplatesInv`) and workloads (`WorkloadsInv`) is done, still to be done, missed or failed, the last of which makes the pass fail. |

The proofs are modular: a lemma per action and invariant, combined once in the temporal step. `HeldUntilReverted`, `ConditionTruth` and
the other invariants are not inductive as they stand, because passes that are under way carry old snapshots; what is added to them
says what those snapshots may still do.

Two changes to the model came out of proofs. The premise `SelectionKept` of the second half of `ManifestFollows` was missing: with an edit that
deselects the node right before the deletion TLC finds the release with the controller off. And filters are written as functions on
indices (`Among`, the suffix in `GiveUp`), since the provers cannot unfold `SelectSeq`.

Every invariant, action property and refinement of the passing runs is stated by a theorem; each inductive invariant was checked by TLC
on an instance of the runs before it was proved. Only model-checked are the liveness properties `Converges`, `DeletionCompletes` and
`Deploys`: liveness under fairness and `ENABLED` are out of the prover's reach. The library's induction theorems are too, as they take an
operator for a parameter; where a fact needs induction, a least counterexample (`WFMin`) takes its place.

## 6. Plan

Built: the system, edgectl on a host and the manager's passes, as above. What is left, in this order.

1. Re-creation of the object under the same name, with runs of the old one still under way.
2. Taints and finalizers as lists, which a merge patch replaces as a whole.
3. `Converges` with crashes, for the hosts whose last change was recorded.
4. Theorems: what `Enabled` and `Disabled` make of a list that names the controller itself; `PassesImplement` for switches that differ,
   with a `ManagerRuns` that has two; the invariants again after items 1 to 3.
