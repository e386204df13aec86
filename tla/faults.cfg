SPECIFICATION Spec
CONSTANTS
  Nodes = {n1}
  Labels = {"plain"}
  ControlPlane = {}
  HasManifest = {}
  Controllers <- Kubeadm
  FlagsEnv = {n1}
  InitialLabels = {"plain"}
  InitialSpecs <- OneSample
  UpdateSpecs <- TunnelSwitches
  Deletable = TRUE
  MaxGen = 3
  MaxFaults = 2
  MaxFails = 0
  MaxRelabels = 0
  MaxFlips = 0
INVARIANTS
  TunnelGone
  SucceedMeansApplied
PROPERTIES
  ObservedGenerationMonotonic
