CONSTANTS
  MAX_OPEN_FILES = 2
  N_BLOCKS = 4
  Names = {n1, n2}
  Data <- MCData
  Large <- MCLarge
  None = None
SPECIFICATION Spec
INVARIANTS
  BlocksHaveOneOwner
  HandlesKeepFiles
