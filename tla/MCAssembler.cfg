CONSTANTS
  Labels = {l}
  MAX_LINES = 4
  MAX_DEFS = 2
SPECIFICATION Spec
INVARIANTS
  
  ReferencesLeadHome
PROPERTIES
  PatchesInPlace
CHECK_DEADLOCK FALSE
