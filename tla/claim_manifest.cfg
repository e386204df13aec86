SPECIFICATION FairSpec
CONSTANTS
  Nodes = {n1}
  Labels = {"edge"}
  ControlPlane = {n1}
  HasManifest = {}
  Controllers <- Kubeadm
  FlagsEnv = {n1}
  InitialLabels = {"edge"}
  InitialSpecs <- OneDefaulted
  UpdateSpecs <- NoUpdates
  Deletable = FALSE
  MaxGen = 2
  MaxFaults = 0
  MaxFails = 0
  MaxRelabels = 0
  MaxFlips = 0
PROPERTIES
  MissingManifestSkipped
