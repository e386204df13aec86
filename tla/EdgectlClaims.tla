---------------------------- MODULE EdgectlClaims ----------------------------
(***************************************************************************)
(* What the comments of edgectl say and its code does not keep.            *)
(***************************************************************************)
EXTENDS Edgectl

\* cmd/edgectl/app/cmd/revert.go:143: "revertKubelet reverts kubelet to connect kube-api-server directly".  A
\* run that restored the flags and did not get to the restart of kubelet leaves the next one
\* nothing to change; that one skips the restart and removes yurt-hub.
KubeletReconnects ==
  (pc = "idle" /\ outcome.op = "NormalNode" /\ outcome.ok /\ original # Absent /\ ~torn)
    => ~ToYurtHub(kubelet)
=============================================================================
