---------------------------- MODULE YurtCluster ----------------------------
(***************************************************************************)
(* The singleton YurtCluster object and the decisions that the operator    *)
(* and the node agents derive from it: which type a node has, whether its  *)
(* conversion or reversal is complete, and what Complete() defaults.       *)
(* Everything here is a pure operator; the components that read and write  *)
(* the object are in YurtOperator.                                         *)
(***************************************************************************)
EXTENDS Naturals

CONSTANTS
  Nodes,   \* the nodes of the Kubernetes cluster
  Labels   \* the values a node's selector-relevant labels may have

NodeTypes == {"CloudNode", "EdgeNode", "NormalNode"}

\* An Enabled *bool: a nil pointer, true or false.
Switches == {"nil", "on", "off"}

\* "Unset" is the empty string of an object nobody has written the status of.
Phases == {"Unset", "Converting", "Deleting", "Succeed"}

(***************************************************************************)
(* A node set selects by name, by name pattern or by label and then takes  *)
(* the excluded nodes out.  A regular expression over the names of a fixed *)
(* set of nodes is the set of names it matches, so `names' stands for      *)
(* Names together with NamePattern and `excluded' for ExcludedNames        *)
(* together with ExcludedNamePattern.                                      *)
(***************************************************************************)
NodeSets == [names : SUBSET Nodes, labels : SUBSET Labels, excluded : SUBSET Nodes]

\* `tunnel' is the Enabled switch that yurt tunnel's server and agent share.
Specs == [cloudNodes : NodeSets, edgeNodes : NodeSets,
          cloudHub : Switches, edgeHub : Switches, tunnel : Switches]

Conditions == [status : {"None", "True", "False"},
               reason : {"None", "CloudNodeConvert", "EdgeNodeConvert", "NodeRevert"},
               og : Nat]

\* A node without an entry in status.nodeConditions.
NoCondition == [status |-> "None", reason |-> "None", og |-> 0]

Clusters == [exists : BOOLEAN, gen : Nat, deleting : BOOLEAN, finalizer : BOOLEAN,
             spec : Specs, obsGen : Nat, phase : Phases, conds : [Nodes -> Conditions]]

\* The object as `kubectl apply' creates it.
NewCluster(spec) ==
  [exists |-> TRUE, gen |-> 1, deleting |-> FALSE, finalizer |-> FALSE, spec |-> spec,
   obsGen |-> 0, phase |-> "Unset", conds |-> [n \in Nodes |-> NoCondition]]

EmptySpec ==
  LET nobody == [names |-> {}, labels |-> {}, excluded |-> {}]
  IN  [cloudNodes |-> nobody, edgeNodes |-> nobody,
       cloudHub |-> "nil", edgeHub |-> "nil", tunnel |-> "nil"]

\* What Get answers when the object is not there.
NoCluster == [NewCluster(EmptySpec) EXCEPT !.exists = FALSE, !.gen = 0]

----------------------------------------------------------------------------

InNodeSet(n, label, set) ==
  /\ n \in set.names \/ label \in set.labels
  /\ n \notin set.excluded

\* A node both sets select is a cloud node.
GetNodeType(n, label, spec) ==
  CASE InNodeSet(n, label, spec.cloudNodes) -> "CloudNode"
    [] ~InNodeSet(n, label, spec.cloudNodes) /\ InNodeSet(n, label, spec.edgeNodes) -> "EdgeNode"
    [] OTHER -> "NormalNode"

\* The reason that edgectl writes for a command of the given type.
ReasonOf(type) ==
  CASE type = "CloudNode" -> "CloudNodeConvert"
    [] type = "EdgeNode"  -> "EdgeNodeConvert"
    [] OTHER              -> "NodeRevert"

\* A slip: any successful run of the generation counts.
RecordedForAnyReason(cond, type, gen) == cond.status = "True" /\ cond.og = gen

Recorded(cond, type, gen) ==
  /\ cond.status = "True"
  /\ cond.reason = ReasonOf(type)
  /\ cond.og = gen

\* A node that nobody ever wrote a condition for counts as reverted.
AlreadyReverted(cond, gen) == cond = NoCondition \/ Recorded(cond, "NormalNode", gen)

\* `c' is anything with the fields gen, deleting and spec; `cond' is the node's condition in it.
IsNodeConvertOrRevertCompleted(n, label, c, cond) ==
  LET type == GetNodeType(n, label, c.spec)
  IN  IF c.deleting \/ type = "NormalNode" THEN AlreadyReverted(cond, c.gen)
                                           ELSE Recorded(cond, type, c.gen)

----------------------------------------------------------------------------

Default(switch) == IF switch = "nil" THEN "on" ELSE switch

Complete(spec) ==
  [spec EXCEPT !.cloudHub = Default(@), !.edgeHub = Default(@), !.tunnel = Default(@)]

\* Which switch decides whether a node of the given type runs yurt-hub.
HubSwitch(type, spec) == IF type = "CloudNode" THEN spec.cloudHub ELSE spec.edgeHub
============================================================================
