SPECIFICATION Spec
CONSTANTS
  Nodes = {n1, n2}
  Labels = {"edge"}
  ControlPlane = {n1}
  HasManifest = {n1}
  Controllers <- Kubeadm
  FlagsEnv = {n1, n2}
  InitialLabels = {"edge"}
  InitialSpecs <- MasterInCloud
  UpdateSpecs <- NoUpdates
  Deletable = FALSE
  MaxGen = 2
  MaxFaults = 0
  MaxFails = 0
  MaxRelabels = 0
  MaxFlips = 0
INVARIANTS
  TypeOK
PROPERTIES
  StatusWritersSeparate
