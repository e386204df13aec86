SPECIFICATION FairSpec
CONSTANTS
  InitialSpecs <- OneOn
  UpdateSpecs <- Switches
  Sizes = {1, 3}
  Editable = {"serverDeploy", "cfg"}
  Removable = {"svc"}
  MaxMoves = 2
  MaxFaults = 1
INVARIANTS
  TypeOK
PROPERTIES
  EditsSurvive
  OthersKeepTheirs
  PassesAsSeen
  Deploys
