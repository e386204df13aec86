SPECIFICATION FairSpec
CONSTANTS
  Nodes = {n1}
  Labels = {"edge"}
  ControlPlane = {n1}
  HasManifest = {n1}
  Controllers <- ThreeManifests
  FlagsEnv = {n1}
  InitialLabels = {"edge"}
  InitialSpecs <- MasterInCloud
  UpdateSpecs <- NoUpdates
  Deletable = TRUE
  MaxGen = 2
  MaxFaults = 0
  MaxFails = 0
  MaxRelabels = 0
  MaxFlips = 0
INVARIANTS
  ManifestFollows
PROPERTIES
  DeletionCompletes
