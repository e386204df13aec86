SPECIFICATION Spec
CONSTANTS
  Nodes = {n1}
  Labels = {"edge", "plain"}
  ControlPlane = {}
  HasManifest = {}
  Controllers <- Kubeadm
  FlagsEnv = {n1}
  InitialLabels = {"edge", "plain"}
  InitialSpecs <- OneDefaulted
  UpdateSpecs <- ToTunnelNil
  Deletable = FALSE
  MaxGen = 2
  MaxFaults = 0
  MaxFails = 0
  MaxRelabels = 0
  MaxFlips = 0
INVARIANTS
  ObservedMeansReconciled
