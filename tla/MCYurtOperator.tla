--------------------------- MODULE MCYurtOperator ---------------------------
(* Small instances of YurtOperator for TLC. *)
EXTENDS DocumentedClaims

ByLabel(l) == [names |-> {}, labels |-> {l} \cap Labels, excluded |-> {}]

\* The sample manifest of the repository: both sets select by node type label.
Sample == [cloudNodes |-> ByLabel("cloud"), edgeNodes |-> ByLabel("edge"),
           cloudHub |-> "nil", edgeHub |-> "nil", tunnel |-> "nil"]

Defaulted == Complete(Sample)

OneSample == {Sample}
OneDefaulted == {Defaulted}
OnlyHubOff == {[Defaulted EXCEPT !.edgeHub = "off"]}
\* The control plane is named as cloud and excluded from the edge set.
MasterInCloud ==
  {[Defaulted EXCEPT !.cloudNodes.names = ControlPlane, !.edgeNodes.excluded = ControlPlane]}

\* kubeadm writes the flag; other installers leave it out.
Kubeadm == {<<"*", "others">>}
ThreeManifests == {<<"*", "others">>, <<>>, <<"*", "nodelifecycle">>}

NoUpdates == {}
TunnelSwitches == {[Defaulted EXCEPT !.tunnel = s] : s \in {"on", "off"}}
ToTunnelNil == {[Defaulted EXCEPT !.tunnel = "nil"]}
TurnsHubOn == {Defaulted}
=============================================================================
