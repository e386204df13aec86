SPECIFICATION Spec
CONSTANTS
  Originals <- OneLine
  MaxTimeouts = 0
  MaxBreaks = 1
INVARIANTS
  KubeletReconnects
