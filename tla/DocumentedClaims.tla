-------------------------- MODULE DocumentedClaims --------------------------
(***************************************************************************)
(* What the repository's documentation and comments say of the operator    *)
(* and the code does not keep.  Each claim quotes its text; TLC finds a    *)
(* behaviour of YurtOperator that breaks it.                               *)
(***************************************************************************)
EXTENDS YurtOperator

\* pkg/controllers/manager/yurtcluster_controller.go:95: "Patch ObservedGeneration only if the reconciliation
\* completed successfully".  A pass that panics on a nil Enabled patches it too.
ObservedMeansReconciled ==
  yc.exists /\ ~yc.deleting /\ yc.obsGen = yc.gen /\ yc.gen > approved => applied = yc.gen

\* README.md:50: "Revert the cluster to normal", `kubectl delete yurtclusters cluster'.  A node
\* whose first conversion is not recorded yet does not hold the object back.
DeletionRevertsHosts == ~yc.exists => \A n \in Nodes : host[n].hub = "none"

\* pkg/util/file.go:140: "skip disable node-life-cycle controller, kube-controller-manager.yaml
\* not exists".  It is not skipped: the agent fails on that node for ever.
MissingManifestSkipped ==
  <>[](yc.exists => \A n \in ControlPlane \ HasManifest : nodes[n].ready => Settled(n))
=============================================================================
