CONSTANTS
  BYTE = 4
  SIGN_BIT = 8
  IP_LIMIT = 4
  CODE = 3
  DATA = 1
  BSS = 2
  STACK = 3
  Programs <- MCPrograms
  max_instructions = 6
SPECIFICATION Spec
INVARIANTS
  StackHoldsPushes
  
  NothingLeaks
PROPERTIES
  CodeAndDataIntact
  JumpsFollowOrder
  OwnMemoryServed
  ExecReturns
