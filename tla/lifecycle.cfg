SPECIFICATION Spec
CONSTANTS
  Nodes = {n1}
  Labels = {"edge", "plain"}
  ControlPlane = {}
  HasManifest = {}
  Controllers <- Kubeadm
  FlagsEnv = {n1}
  InitialLabels = {"edge", "plain"}
  InitialSpecs <- OneDefaulted
  UpdateSpecs <- NoUpdates
  Deletable = TRUE
  MaxGen = 2
  MaxFaults = 0
  MaxFails = 0
  MaxRelabels = 1
  MaxFlips = 0
INVARIANTS
  TouchedOnlyWhenApproved
  HeldUntilReverted
