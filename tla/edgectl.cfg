SPECIFICATION Spec
CONSTANTS
  Originals <- SomeLines
  MaxTimeouts = 2
  MaxBreaks = 2
INVARIANTS
  TypeOK
  BackupIsOriginal
  FlagsSurvive
  KubeletHasHub
  HubFindsServer
PROPERTIES
  RunsAsPromised
