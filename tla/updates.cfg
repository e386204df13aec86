SPECIFICATION Spec
CONSTANTS
  Nodes = {n1}
  Labels = {"edge"}
  ControlPlane = {}
  HasManifest = {}
  Controllers <- Kubeadm
  FlagsEnv = {n1}
  InitialLabels = {"edge"}
  InitialSpecs <- OnlyHubOff
  UpdateSpecs <- TurnsHubOn
  Deletable = FALSE
  MaxGen = 2
  MaxFaults = 1
  MaxFails = 0
  MaxRelabels = 0
  MaxFlips = 1
INVARIANTS
  ConditionTruth
